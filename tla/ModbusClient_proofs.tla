------------------------- MODULE ModbusClient_proofs -------------------------
(***************************************************************************)
(* Proofs about ModbusClient, for every set of calls, every number of      *)
(* calls and connections, every table and every modulus of the transaction *)
(* counter.                                                                *)
(***************************************************************************)
EXTENDS ModbusClient, WireLemmas

(***************************************************************************)
(* Frames as the two sides read them.                                      *)
(***************************************************************************)
LEMMA TxWord ==
    ASSUME NEW tx \in TxIDs
    PROVE  tx \in Words
  <1>1. tx \in Nat /\ tx < TxMod
    BY DEF TxIDs
  <1>2. tx < 65536
    BY <1>1, TxModAssumption
  <1> QED BY <1>1, <1>2 DEF Words

LEMMA SmallWord ==
    ASSUME NEW k \in Nat, k < 65536
    PROVE  k \in Words
  BY DEF Words

(* The first k elements of a sequence, and the rest of it.                 *)
LEMMA FirstAndRest ==
    ASSUME NEW S, NEW s \in Seq(S), NEW k \in Nat, k <= Len(s)
    PROVE  /\ SubSeq(s, 1, k) \in Seq(S)
           /\ Len(SubSeq(s, 1, k)) = k
           /\ \A i \in 1..k : SubSeq(s, 1, k)[i] = s[i]
           /\ SubSeq(s, k + 1, Len(s)) \in Seq(S)
           /\ Len(SubSeq(s, k + 1, Len(s))) = Len(s) - k
           /\ \A i \in 1..(Len(s) - k) : SubSeq(s, k + 1, Len(s))[i] = s[k + i]
  <1>1. Len(s) \in Nat
    BY LenProperties
  <1>2. \A i \in 1..Len(s) : s[i] \in S
    BY ElementOfSeq
  <1>3. \A i \in 1..k : s[i] \in S
    BY <1>1, <1>2
  <1>4. \A i \in (k + 1)..Len(s) : s[i] \in S
    BY <1>1, <1>2
  <1>5. /\ SubSeq(s, 1, k) \in Seq(S)
        /\ Len(SubSeq(s, 1, k)) = IF 1 <= k THEN k - 1 + 1 ELSE 0
        /\ \A i \in 1..(k - 1 + 1) : SubSeq(s, 1, k)[i] = s[1 + i - 1]
    BY <1>3, SubSeqProperties
  <1>6. /\ SubSeq(s, k + 1, Len(s)) \in Seq(S)
        /\ Len(SubSeq(s, k + 1, Len(s))) = IF k + 1 <= Len(s) THEN Len(s) - (k + 1) + 1 ELSE 0
        /\ \A i \in 1..(Len(s) - (k + 1) + 1) :
             SubSeq(s, k + 1, Len(s))[i] = s[(k + 1) + i - 1]
    BY <1>1, <1>4, SubSeqProperties
  <1> QED BY <1>1, <1>5, <1>6

(* A frame, or as much of it as has arrived once the header is complete,   *)
(* decodes to what was encoded; what follows the header is the PDU.        *)
LEMMA FrameDecodes ==
    ASSUME NEW tx \in Words, NEW unit \in Byte, NEW pdu \in Seq(Byte),
           1 <= Len(pdu), Len(pdu) <= maxPDU,
           NEW s \in Seq(Byte), Begins(s, Frame(tx, unit, pdu)), mbapLen <= Len(s)
    PROVE  /\ DecodeMBAP(s).tx = tx
           /\ DecodeMBAP(s).len = Len(pdu) + 1
           /\ DecodeMBAP(s).ok
           /\ s[mbapLen] = unit
           /\ Begins(SubSeq(s, mbapLen + 1, Len(s)), pdu)
  <1> DEFINE f == Frame(tx, unit, pdu)
             rest == SubSeq(s, mbapLen + 1, Len(s))
  <1>1. Len(pdu) + 1 \in Words
    <2>1. Len(pdu) + 1 \in Nat /\ Len(pdu) + 1 < 65536
      BY LenProperties DEF maxPDU
    <2> QED BY <2>1, SmallWord
  <1>2. /\ f \in Seq(Byte)
        /\ Len(f) = 7 + Len(pdu)
        /\ f[7] = unit
        /\ WordAt(f, 1) = tx
        /\ WordAt(f, 3) = protocolID
        /\ WordAt(f, 5) = Len(pdu) + 1
        /\ \A i \in 1..Len(pdu) : f[7 + i] = pdu[i]
    BY <1>1, FrameShape DEF mbapLen
  <1>3. Len(s) <= Len(f) /\ \A i \in 1..Len(s) : s[i] = f[i]
    BY DEF Begins
  <1> HIDE DEF f
  <1>4. 7 <= Len(s)
    BY DEF mbapLen
  <1>5. \A i \in 1..7 : s[i] = f[i]
    BY <1>3, <1>4
  <1>6. WordAt(s, 1) = tx /\ WordAt(s, 3) = protocolID /\ WordAt(s, 5) = Len(pdu) + 1
    BY <1>2, <1>5 DEF WordAt
  <1>7. DecodeMBAP(s).tx = tx /\ DecodeMBAP(s).len = Len(pdu) + 1
    BY <1>6 DEF DecodeMBAP
  <1>8. DecodeMBAP(s).ok
    <2>1. DecodeMBAP(s).ok = /\ WordAt(s, 3) = protocolID
                             /\ WordAt(s, 5) >= 2
                             /\ WordAt(s, 5) - 1 <= maxPDU
      BY DEF DecodeMBAP
    <2> QED BY <2>1, <1>6
  <1>9. Len(rest) = Len(s) - 7 /\ \A i \in 1..Len(rest) : rest[i] = s[7 + i]
    <2>1. mbapLen \in Nat
      BY DEF mbapLen
    <2>2. /\ Len(rest) = Len(s) - mbapLen
          /\ \A i \in 1..(Len(s) - mbapLen) : rest[i] = s[mbapLen + i]
      BY <2>1, FirstAndRest
    <2> QED BY <2>2 DEF mbapLen
  <1> HIDE DEF rest
  <1>10. Begins(rest, pdu)
    <2>1. Len(rest) <= Len(pdu)
      BY <1>2, <1>3, <1>9
    <2>2. ASSUME NEW i \in 1..Len(rest)
          PROVE  rest[i] = pdu[i]
      <3>1. i \in 1..Len(pdu) /\ 7 + i \in 1..Len(s)
        <4>1. Len(rest) \in Int /\ Len(pdu) \in Int /\ Len(s) \in Int
          BY <1>9
        <4> QED BY <4>1, <2>1, <1>9
      <3>2. rest[i] = s[7 + i] /\ s[7 + i] = f[7 + i] /\ f[7 + i] = pdu[i]
        BY <3>1, <1>2, <1>3, <1>9
      <3> QED BY <3>2
    <2> QED BY <2>1, <2>2 DEF Begins
  <1> QED BY <1>2, <1>5, <1>7, <1>8, <1>10 DEF rest, mbapLen

(* All of something is a beginning of it, and a beginning that is as long  *)
(* is all of it.                                                           *)
LEMMA BeginsWhole ==
    ASSUME NEW S, NEW s \in Seq(S), NEW t \in Seq(S)
    PROVE  /\ Begins(s, s)
           /\ Begins(<<>>, t)
           /\ Begins(s, t) /\ Len(t) <= Len(s) => s = t
  <1>1. Begins(s, s) /\ Begins(<<>>, t)
    BY DEF Begins
  <1>2. ASSUME Begins(s, t), Len(t) <= Len(s)
        PROVE  s = t
    <2>1. Len(s) = Len(t) /\ \A i \in 1..Len(s) : s[i] = t[i]
      BY <1>2 DEF Begins
    <2> QED BY <2>1, SeqEqual
  <1> QED BY <1>1, <1>2

(***************************************************************************)
(* What the type invariant says, conjunct by conjunct, where an action     *)
(* needs it.                                                               *)
(***************************************************************************)
LEMMA CallFacts ==
    ASSUME NEW c \in Calls
    PROVE  WellFormed(c)
  BY CallsAssumption

(* The request of an admissible call, ready to be sent. *)
LEMMA RequestReady ==
    ASSUME NEW c \in Calls, QuantityOK(c), NEW tx \in TxIDs
    PROVE  /\ RequestPDU(c) \in Seq(Byte)
           /\ 1 <= Len(RequestPDU(c)) /\ Len(RequestPDU(c)) <= maxPDU
           /\ Frame(tx, UnitID, RequestPDU(c)) \in Seq(Byte)
           /\ mbapLen <= Len(Frame(tx, UnitID, RequestPDU(c)))
           /\ WordAt(Frame(tx, UnitID, RequestPDU(c)), 1) = tx
  <1> DEFINE pdu == RequestPDU(c)
  <1>1. pdu \in Seq(Byte) /\ 5 <= Len(pdu) /\ Len(pdu) <= maxPDU
    BY CallFacts, RequestShape
  <1> HIDE DEF pdu
  <1>2. 1 <= Len(pdu)
    BY <1>1, LenProperties
  <1>3. Len(pdu) + 1 \in Words
    <2>1. Len(pdu) + 1 \in Nat /\ Len(pdu) + 1 < 65536
      BY <1>1, LenProperties DEF maxPDU
    <2> QED BY <2>1, SmallWord
  <1>4. tx \in Words
    BY TxWord
  <1>5. /\ Frame(tx, UnitID, pdu) \in Seq(Byte)
        /\ Len(Frame(tx, UnitID, pdu)) = mbapLen + Len(pdu)
        /\ WordAt(Frame(tx, UnitID, pdu), 1) = tx
    BY <1>1, <1>3, <1>4, UnitAssumption, FrameShape
  <1>6. mbapLen <= Len(Frame(tx, UnitID, pdu))
    BY <1>1, <1>5, LenProperties DEF mbapLen
  <1> QED BY <1>1, <1>2, <1>5, <1>6 DEF pdu

(* What the device reads from such a request, and answers. *)
LEMMA ServeFacts ==
    ASSUME NEW c \in Calls, QuantityOK(c), NEW tx \in TxIDs, NEW m \in Memory
    PROVE  LET f    == Frame(tx, UnitID, RequestPDU(c))
               h    == DecodeMBAP(f)
               done == Dispatch(m, SubSeq(f, mbapLen + 1, mbapLen + h.len - 1))
           IN  /\ h.tx = tx
               /\ f[mbapLen] = UnitID
               /\ mbapLen + h.len - 1 = Len(f)
               /\ done = Dispatch(m, RequestPDU(c))
               /\ Dispatched(done)
               /\ Frame(tx, UnitID, done.resp) \in Seq(Byte)
  <1> DEFINE pdu == RequestPDU(c)
             f   == Frame(tx, UnitID, pdu)
  <1>1. /\ pdu \in Seq(Byte) /\ 1 <= Len(pdu) /\ Len(pdu) <= maxPDU
        /\ f \in Seq(Byte) /\ mbapLen <= Len(f)
    BY RequestReady
  <1>2. tx \in Words /\ UnitID \in Byte
    BY TxWord, UnitAssumption
  <1>3. Len(f) = mbapLen + Len(pdu)
    <2>1. Len(pdu) + 1 \in Nat /\ Len(pdu) + 1 < 65536
      BY <1>1, LenProperties DEF maxPDU
    <2>2. Len(pdu) + 1 \in Words
      BY <2>1, SmallWord
    <2> HIDE DEF pdu
    <2> QED BY <1>1, <1>2, <2>2, FrameShape
  <1> HIDE DEF pdu
  <1>4. Begins(f, f)
    BY <1>1, BeginsWhole
  <1>5. /\ DecodeMBAP(f).tx = tx
        /\ DecodeMBAP(f).len = Len(pdu) + 1
        /\ f[mbapLen] = UnitID
        /\ Begins(SubSeq(f, mbapLen + 1, Len(f)), pdu)
    BY <1>1, <1>2, <1>4, FrameDecodes
  <1> HIDE DEF f
  <1>6. mbapLen + DecodeMBAP(f).len - 1 = Len(f)
    BY <1>1, <1>3, <1>5, LenProperties DEF mbapLen
  <1>7. SubSeq(f, mbapLen + 1, mbapLen + DecodeMBAP(f).len - 1) = pdu
    <2> DEFINE rest == SubSeq(f, mbapLen + 1, Len(f))
    <2>2. rest \in Seq(Byte) /\ Len(rest) = Len(pdu)
      <3>1. mbapLen \in Nat
        BY DEF mbapLen
      <3>2. rest \in Seq(Byte) /\ Len(rest) = Len(f) - mbapLen
        BY <3>1, <1>1, FirstAndRest
      <3> HIDE DEF rest
      <3> QED BY <3>2, <1>1, <1>3, LenProperties DEF mbapLen
    <2>3. rest = pdu
      <3>1. Begins(rest, pdu) /\ Len(pdu) <= Len(rest)
        BY <1>1, <1>5, <2>2, LenProperties
      <3> HIDE DEF rest
      <3> QED BY <3>1, <2>2, <1>1, BeginsWhole
    <2> QED BY <1>6, <2>3
  <1>8. Dispatched(Dispatch(m, pdu))
    BY <1>1, DispatchType
  <1>9. Frame(tx, UnitID, Dispatch(m, pdu).resp) \in Seq(Byte)
    <2> DEFINE resp == Dispatch(m, pdu).resp
    <2>1. resp \in Seq(Byte) /\ 1 <= Len(resp) /\ Len(resp) <= maxPDU
      BY <1>8 DEF Dispatched
    <2> HIDE DEF resp
    <2>2. Len(resp) + 1 \in Nat /\ Len(resp) + 1 < 65536
      BY <2>1, LenProperties DEF maxPDU
    <2>3. Len(resp) + 1 \in Words
      BY <2>2, SmallWord
    <2>4. Frame(tx, UnitID, resp) \in Seq(Byte)
      BY <2>1, <2>3, <1>2, FrameShape
    <2> QED BY <2>4 DEF resp
  <1>10. Frame(tx, UnitID, RequestPDU(c)) = f
    BY DEF f, pdu
  <1> QED BY <1>5, <1>7, <1>8, <1>9, <1>10, <1>6 DEF pdu

(***************************************************************************)
(* The inductive invariant holds at the start and is kept by every action. *)
(***************************************************************************)
LEMMA InitIInv == Init => IInv
  <1> SUFFICES ASSUME Init PROVE IInv
    OBVIOUS
  <1>1. TypeOK
    <2>1. 0 \in TxIDs
      BY TxModAssumption DEF TxIDs
    <2>2. requests \in [Conns -> Seq(Request)]
      BY DEF Init, Conns
    <2>3. last \in [n : 0..MaxCalls, kind : Kinds, vals : Seq(Nat), fresh : BOOLEAN]
      BY BoundsAssumption DEF Init, Kinds
    <2>4. stream \in Seq(Byte) /\ answer \in Seq(Byte)
      BY DEF Init
    <2>5. conn \in 0..dials /\ dials \in 0..MaxDials /\ n \in 0..MaxCalls /\ pduLen \in 0..maxPDU
      BY BoundsAssumption DEF Init, maxPDU
    <2> QED BY <2>1, <2>2, <2>3, <2>4, <2>5, InitMemAssumption DEF Init, TypeOK
  <1>2. RequestsFaithful
    BY DEF Init, RequestsFaithful, Conns
  <1>3. InProgress
    BY DEF Init, InProgress, maxPDU
  <1>4. CleanExchange /\ OwnAnswer
    BY DEF Init, CleanExchange, OwnAnswer, Answered
  <1> QED BY <1>1, <1>2, <1>3, <1>4 DEF IInv

LEMMA ConnectKeeps == IInv /\ Connect => IInv'
  <1> SUFFICES ASSUME IInv, Connect PROVE IInv'
    OBVIOUS
  <1> USE DEF IInv
  <1>1. TypeOK'
    <2>1. dials + 1 \in 0..MaxDials /\ dials + 1 \in 0..(dials + 1)
      BY BoundsAssumption DEF Connect, TypeOK
    <2>2. stream' \in Seq(Byte)
      BY DEF Connect
    <2> QED BY <2>1, <2>2 DEF Connect, TypeOK
  <1>2. RequestsFaithful'
    <2>1. \A k \in Conns : k > dials + 1 => k > dials
      BY DEF TypeOK, Conns
    <2> QED BY <2>1 DEF Connect, RequestsFaithful, Conns
  <1>3. InProgress'
    BY DEF Connect, InProgress
  <1>4. CleanExchange'
    <2>1. dials + 1 \in Conns /\ dials + 1 > dials
      BY BoundsAssumption DEF Connect, TypeOK, Conns
    <2>2. requests[dials + 1] = <<>>
      BY <2>1 DEF RequestsFaithful
    <2> QED BY <2>2 DEF Connect, CleanExchange, AtRest
  <1>5. OwnAnswer'
    BY DEF Connect, OwnAnswer
  <1> QED BY <1>1, <1>2, <1>3, <1>4, <1>5

LEMMA CloseKeeps == IInv /\ Close => IInv'
  <1> SUFFICES ASSUME IInv, Close PROVE IInv'
    OBVIOUS
  <1> USE DEF IInv
  <1>1. TypeOK'
    <2>1. 0 \in 0..dials /\ stream' \in Seq(Byte)
      BY DEF Close, TypeOK
    <2> QED BY <2>1 DEF Close, TypeOK
  <1>2. RequestsFaithful'
    BY DEF Close, RequestsFaithful
  <1>3. InProgress'
    BY DEF Close, InProgress
  <1>4. CleanExchange' /\ OwnAnswer'
    BY DEF Close, CleanExchange, OwnAnswer
  <1> QED BY <1>1, <1>2, <1>3, <1>4

(* A call that ends before anything is sent. *)
LEMMA UnsentKeeps ==
    ASSUME IInv, NEW c \in Calls, Begin(c), pc' = pc, requests' = requests, clean' = clean,
           txID' \in TxIDs, link' \in {"open", "closed", "broken"},
           NEW kind \in Kinds \ Answered, last' = Result(n + 1, Outcome(kind, <<>>))
    PROVE  IInv'
  <1> USE DEF IInv
  <1>1. n + 1 \in 0..MaxCalls /\ n + 1 \in Nat
    BY BoundsAssumption DEF Begin, TypeOK
  <1>2. TypeOK'
    <2>1. last' \in [n : 0..MaxCalls, kind : Kinds, vals : Seq(Nat), fresh : BOOLEAN]
      BY <1>1 DEF Result, Outcome, TypeOK
    <2>2. answer' \in Seq(Byte)
      BY DEF Begin
    <2> QED BY <1>1, <2>1, <2>2 DEF Begin, TypeOK
  <1>3. RequestsFaithful'
    <2>1. \A k \in Conns : \A i \in 1..Len(requests[k]) :
             requests[k][i].n <= n => requests[k][i].n <= n + 1
      <3>1. \A k \in Conns : \A i \in 1..Len(requests[k]) : requests[k][i].n \in Nat
        <4> TAKE k \in Conns
        <4> TAKE i \in 1..Len(requests[k])
        <4>1. requests[k][i] \in Request
          BY ElementOfSeq DEF TypeOK
        <4> QED BY <4>1 DEF Request
      <3> QED BY <1>1, <3>1 DEF TypeOK
    <2> QED BY <2>1 DEF Begin, RequestsFaithful
  <1>4. InProgress'
    BY DEF Begin, InProgress, maxPDU
  <1>5. CleanExchange'
    BY DEF Begin, CleanExchange, AtRest, Asked, Silence, Answering
  <1>6. OwnAnswer'
    BY DEF OwnAnswer, Result, Outcome
  <1> QED BY <1>2, <1>3, <1>4, <1>5, <1>6

LEMMA NextTxID ==
    ASSUME txID \in TxIDs
    PROVE  nextTxID \in TxIDs
  <1>1. txID + 1 \in Nat
    BY DEF TxIDs
  <1>2. (txID + 1) % TxMod \in Nat /\ (txID + 1) % TxMod < TxMod
    BY <1>1, TxModAssumption
  <1> QED BY <1>2 DEF nextTxID, TxIDs

LEMMA RefuseCallKeeps ==
    ASSUME IInv, NEW c \in Calls, RefuseCall(c)
    PROVE  IInv'
  <1> DEFINE kind == IF QuantityOK(c) THEN "notConnected" ELSE "limit"
  <1>1. kind \in Kinds \ Answered
    BY DEF Kinds, Answered
  <1>2. Begin(c) /\ last' = Result(n + 1, Outcome(kind, <<>>))
    BY DEF RefuseCall
  <1>3. /\ pc' = pc /\ requests' = requests /\ clean' = clean
        /\ txID' \in TxIDs /\ link' \in {"open", "closed", "broken"}
    BY DEF RefuseCall, IInv, TypeOK
  <1> HIDE DEF kind
  <1> QED BY <1>1, <1>2, <1>3, UnsentKeeps

LEMMA WriteErrorKeeps ==
    ASSUME IInv, NEW c \in Calls, WriteError(c)
    PROVE  IInv'
  <1>1. "write" \in Kinds \ Answered
    BY DEF Kinds, Answered
  <1>2. Begin(c) /\ last' = Result(n + 1, Outcome("write", <<>>))
    BY DEF WriteError, CanSend
  <1>3. /\ pc' = pc /\ requests' = requests /\ clean' = clean
        /\ txID' \in TxIDs /\ link' \in {"open", "closed", "broken"}
    BY NextTxID DEF WriteError, IInv, TypeOK
  <1> QED BY <1>1, <1>2, <1>3, UnsentKeeps

(* A request goes out: its frame is the encoding of the call.              *)
LEMMA SendRequestKeeps ==
    ASSUME IInv, NEW c \in Calls, SendRequest(c)
    PROVE  IInv'
  <1> DEFINE r == [n |-> n + 1, call |-> c,
                   frame |-> Frame(nextTxID, UnitID, RequestPDU(c))]
  <1> USE DEF IInv
  <1>1. n + 1 \in 0..MaxCalls /\ n + 1 \in Nat /\ QuantityOK(c) /\ conn # 0 /\ pc = "idle"
    BY BoundsAssumption DEF SendRequest, CanSend, Begin, TypeOK
  <1>2. conn \in Conns /\ conn <= dials
    BY <1>1, BoundsAssumption DEF TypeOK, Conns
  <1>3. /\ nextTxID \in TxIDs
        /\ r.frame \in Seq(Byte)
        /\ WordAt(r.frame, 1) = nextTxID
    BY <1>1, NextTxID, RequestReady DEF TypeOK
  <1>4. r \in Request
    BY <1>1, <1>3 DEF Request
  <1>5. r.n = n + 1 /\ r.call = c /\ r.frame = Frame(WordAt(r.frame, 1), UnitID, RequestPDU(r.call))
    BY <1>3
  <1>6. requests' = [requests EXCEPT ![conn] = Append(requests[conn], r)]
    BY DEF SendRequest
  <1> HIDE DEF r
  <1>7. requests \in [Conns -> Seq(Request)]
    BY DEF TypeOK
  <1>8. /\ requests'[conn] = Append(requests[conn], r)
        /\ \A k \in Conns : k # conn => requests'[k] = requests[k]
        /\ requests' \in [Conns -> Seq(Request)]
    <2>1. Append(requests[conn], r) \in Seq(Request)
      BY <1>2, <1>4, <1>7, AppendProperties
    <2> QED BY <1>2, <1>6, <1>7, <2>1
  <1>9. TypeOK'
    <2>1. answer' \in Seq(Byte)
      BY DEF SendRequest, CanSend, Begin
    <2> QED BY <1>1, <1>3, <1>8, <2>1 DEF SendRequest, CanSend, Begin, TypeOK
  <1>10. RequestsFaithful'
    <2> SUFFICES ASSUME NEW k \in Conns
                 PROVE  /\ k > dials' => requests'[k] = <<>>
                        /\ \A i \in 1..Len(requests'[k]) :
                             LET q == requests'[k][i]
                             IN  /\ q.n <= n'
                                 /\ pc' # "idle" /\ q.n = n' => k = conn'
                                 /\ QuantityOK(q.call)
                                 /\ WordAt(q.frame, 1) \in TxIDs
                                 /\ q.frame = Frame(WordAt(q.frame, 1), UnitID, RequestPDU(q.call))
      BY DEF RequestsFaithful
    <2>1. n' = n + 1 /\ dials' = dials /\ conn' = conn
      BY DEF SendRequest, CanSend, Begin
    <2>2. k > dials' => requests'[k] = <<>>
      <3>1. k > dials => k # conn
        BY <1>2 DEF TypeOK, Conns
      <3> QED BY <2>1, <3>1, <1>8 DEF RequestsFaithful
    <2>3. ASSUME NEW i \in 1..Len(requests[k])
          PROVE  LET q == requests[k][i]
                 IN  /\ q.n <= n' /\ q.n # n'
                     /\ QuantityOK(q.call)
                     /\ WordAt(q.frame, 1) \in TxIDs
                     /\ q.frame = Frame(WordAt(q.frame, 1), UnitID, RequestPDU(q.call))
      <3>1. requests[k][i] \in Request
        BY <1>7, ElementOfSeq
      <3>2. requests[k][i].n \in Nat /\ requests[k][i].n <= n
        BY <3>1 DEF Request, RequestsFaithful
      <3>3. requests[k][i].n <= n' /\ requests[k][i].n # n'
        BY <3>2, <2>1, <1>1 DEF TypeOK
      <3> QED BY <3>3 DEF RequestsFaithful
    <2>4. CASE k # conn
      BY <2>2, <2>3, <2>4, <1>8
    <2>5. CASE k = conn
      <3>1. /\ Len(requests'[k]) = Len(requests[k]) + 1
            /\ \A i \in 1..Len(requests[k]) : requests'[k][i] = requests[k][i]
            /\ requests'[k][Len(requests[k]) + 1] = r
        BY <2>5, <1>2, <1>4, <1>7, <1>8, AppendProperties
      <3>2. ASSUME NEW i \in 1..Len(requests'[k])
            PROVE  i \in 1..Len(requests[k]) \/ i = Len(requests[k]) + 1
        BY <3>1, <1>7, LenProperties
      <3>3. n + 1 <= n'
        BY <2>1, <1>1
      <3>4. ASSUME NEW i \in 1..Len(requests[k])
            PROVE  LET q == requests'[k][i]
                   IN  /\ q.n <= n'
                       /\ pc' # "idle" /\ q.n = n' => k = conn'
                       /\ QuantityOK(q.call)
                       /\ WordAt(q.frame, 1) \in TxIDs
                       /\ q.frame = Frame(WordAt(q.frame, 1), UnitID, RequestPDU(q.call))
        BY <2>3, <3>1
      <3>5. /\ r.n <= n'
            /\ QuantityOK(r.call)
            /\ WordAt(r.frame, 1) \in TxIDs
            /\ r.frame = Frame(WordAt(r.frame, 1), UnitID, RequestPDU(r.call))
        BY <3>3, <1>1, <1>3, <1>5
      <3>6. k = conn'
        BY <2>1, <2>5
      <3>7. ASSUME NEW i \in 1..Len(requests'[k])
            PROVE  LET q == requests'[k][i]
                   IN  /\ q.n <= n'
                       /\ pc' # "idle" /\ q.n = n' => k = conn'
                       /\ QuantityOK(q.call)
                       /\ WordAt(q.frame, 1) \in TxIDs
                       /\ q.frame = Frame(WordAt(q.frame, 1), UnitID, RequestPDU(q.call))
        <4>1. CASE i \in 1..Len(requests[k])
          BY <4>1, <3>4
        <4>2. CASE i = Len(requests[k]) + 1
          <5>1. requests'[k][i] = r
            BY <4>2, <3>1
          <5> QED BY <5>1, <3>5, <3>6
        <4> QED BY <4>1, <4>2, <3>2
      <3> QED BY <2>2, <3>7
    <2> QED BY <2>4, <2>5
  <1>11. InProgress'
    BY <1>1 DEF SendRequest, CanSend, Begin, InProgress, maxPDU
  <1>12. CleanExchange'
    <2> SUFFICES ASSUME clean PROVE Asked'
      BY <1>1 DEF SendRequest, CanSend, Begin, CleanExchange
    <2>1. requests[conn] = <<>> /\ stream = <<>>
      BY <1>1 DEF CleanExchange, AtRest, Asked, Silence, Answering
    <2>2. requests'[conn] = <<r>>
      BY <2>1, <1>8
    <2>3. r = [n |-> n', call |-> call', frame |-> Frame(txID', UnitID, RequestPDU(call'))]
      BY DEF r, SendRequest, CanSend, Begin
    <2> QED BY <2>1, <2>2, <2>3 DEF SendRequest, CanSend, Begin, Asked
  <1>13. OwnAnswer'
    BY DEF SendRequest, OwnAnswer
  <1> QED BY <1>9, <1>10, <1>11, <1>12, <1>13

(* A request that goes nowhere.                                            *)
LEMMA SendIntoClosedKeeps ==
    ASSUME IInv, NEW c \in Calls, SendIntoClosed(c)
    PROVE  IInv'
  <1> USE DEF IInv
  <1>1. n + 1 \in 0..MaxCalls /\ n + 1 \in Nat /\ conn # 0 /\ pc = "idle"
    BY BoundsAssumption DEF SendIntoClosed, CanSend, Begin, TypeOK
  <1>2. TypeOK'
    <2>1. answer' \in Seq(Byte) /\ txID' \in TxIDs
      BY NextTxID DEF SendIntoClosed, CanSend, Begin, TypeOK
    <2> QED BY <1>1, <2>1 DEF SendIntoClosed, CanSend, Begin, TypeOK
  <1>3. RequestsFaithful'
    <2>1. \A k \in Conns : \A i \in 1..Len(requests[k]) :
             requests[k][i].n <= n + 1 /\ requests[k][i].n # n + 1
      <3> TAKE k \in Conns
      <3> TAKE i \in 1..Len(requests[k])
      <3>1. requests[k][i] \in Request
        BY ElementOfSeq DEF TypeOK
      <3>2. requests[k][i].n \in Nat /\ requests[k][i].n <= n
        BY <3>1 DEF Request, RequestsFaithful
      <3> QED BY <3>2 DEF TypeOK
    <2> QED BY <2>1 DEF SendIntoClosed, CanSend, Begin, RequestsFaithful
  <1>4. InProgress'
    BY <1>1 DEF SendIntoClosed, CanSend, Begin, InProgress, maxPDU
  <1>5. CleanExchange'
    <2> SUFFICES ASSUME clean PROVE Silence'
      BY <1>1 DEF SendIntoClosed, CanSend, Begin, CleanExchange
    <2>1. requests[conn] = <<>> /\ stream = <<>>
      BY <1>1 DEF CleanExchange, AtRest, Asked, Silence, Answering
    <2> QED BY <2>1 DEF SendIntoClosed, CanSend, Begin, Silence
  <1>6. OwnAnswer'
    BY DEF SendIntoClosed, OwnAnswer
  <1> QED BY <1>2, <1>3, <1>4, <1>5, <1>6

(* A call that was sent fails: whatever the stream holds from here on, the *)
(* connection is not clean any more.                                       *)
LEMMA FailKeeps ==
    ASSUME IInv, pc # "idle", NEW kind \in Kinds \ Answered, NEW vals \in Seq(Nat),
           Finish(Outcome(kind, vals)), stream' \in Seq(Byte), pduLen' \in 0..maxPDU
    PROVE  IInv'
  <1> USE DEF IInv
  <1>1. TypeOK'
    <2>1. last' \in [n : 0..MaxCalls, kind : Kinds, vals : Seq(Nat), fresh : BOOLEAN]
      BY DEF Finish, Result, Outcome, TypeOK
    <2> QED BY <2>1 DEF Finish, TypeOK
  <1>2. RequestsFaithful'
    BY DEF Finish, RequestsFaithful
  <1>3. InProgress'
    BY DEF Finish, InProgress
  <1>4. clean' = FALSE
    BY DEF Finish, Outcome
  <1>5. CleanExchange'
    BY <1>4 DEF CleanExchange
  <1>6. OwnAnswer'
    BY DEF Finish, OwnAnswer, Result, Outcome
  <1> QED BY <1>1, <1>2, <1>3, <1>5, <1>6

(* What is left of the stream after a read. *)
LEMMA ConsumeType ==
    ASSUME stream \in Seq(Byte), NEW count \in Nat, count <= Len(stream), Consume(count)
    PROVE  stream' \in Seq(Byte)
  BY FirstAndRest DEF Consume

LEMMA TimeoutKeeps == IInv /\ Timeout => IInv'
  <1> SUFFICES ASSUME IInv, Timeout PROVE IInv'
    OBVIOUS
  <1>1. stream' \in Seq(Byte)
    <2>1. PICK taken \in 0..(Wanted - 1) : taken <= Len(stream) /\ Consume(taken)
      BY DEF Timeout
    <2>2. taken \in Nat /\ stream \in Seq(Byte)
      <3>1. Wanted \in Nat
        BY DEF Wanted, mbapLen, maxPDU, IInv, TypeOK
      <3> QED BY <3>1 DEF IInv, TypeOK
    <2> QED BY <2>1, <2>2, ConsumeType
  <1>2. "timeout" \in Kinds \ Answered /\ <<>> \in Seq(Nat) /\ 0 \in 0..maxPDU
    BY DEF Kinds, Answered, maxPDU
  <1> QED BY <1>1, <1>2, FailKeeps DEF Timeout

LEMMA ReadEOFKeeps == IInv /\ ReadEOF => IInv'
  <1> SUFFICES ASSUME IInv, ReadEOF PROVE IInv'
    OBVIOUS
  <1>1. stream' \in Seq(Byte)
    BY DEF ReadEOF
  <1>2. "eof" \in Kinds \ Answered /\ <<>> \in Seq(Nat) /\ 0 \in 0..maxPDU
    BY DEF Kinds, Answered, maxPDU
  <1> QED BY <1>1, <1>2, FailKeeps DEF ReadEOF

(* A header that passes the checks on a clean connection is the header of  *)
(* the device's answer to this call.                                       *)
LEMMA ReadHeaderKeeps == IInv /\ ReadHeader => IInv'
  <1> SUFFICES ASSUME IInv, ReadHeader PROVE IInv'
    OBVIOUS
  <1> DEFINE h == DecodeMBAP(stream)
  <1>1. stream \in Seq(Byte) /\ mbapLen <= Len(stream) /\ mbapLen \in Nat /\ pc = "header"
    BY DEF ReadHeader, IInv, TypeOK, mbapLen
  <1>2. stream' = SubSeq(stream, mbapLen + 1, Len(stream)) /\ stream' \in Seq(Byte)
    BY <1>1, FirstAndRest DEF ReadHeader, Consume
  <1>3. CASE Finish(Outcome("badHeader", <<>>)) \/ Finish(Outcome("transaction", <<>>))
    <2>1. CASE pduLen' = pduLen
      <3>1. /\ "badHeader" \in Kinds \ Answered /\ "transaction" \in Kinds \ Answered
            /\ <<>> \in Seq(Nat) /\ pduLen' \in 0..maxPDU
        BY <2>1 DEF Kinds, Answered, IInv, TypeOK
      <3> QED BY <1>1, <1>2, <1>3, <3>1, FailKeeps
    <2>2. pduLen' = pduLen
      BY <1>3 DEF ReadHeader, Finish
    <2> QED BY <2>1, <2>2
  <1>4. CASE /\ h.ok /\ h.tx = txID
             /\ pc' = "pdu"
             /\ pduLen' = h.len - 1
             /\ UNCHANGED <<conn, dials, txID, n, call, link, requests,
                            mem, answer, clean, last>>
    <2>1. h.len \in Nat /\ h.len >= 2 /\ h.len - 1 <= maxPDU
      <3>1. WordAt(stream, 5) \in Words
        BY <1>1, WordAtType, LenProperties DEF mbapLen
      <3>2. WordAt(stream, 5) \in Nat
        BY <3>1 DEF Words
      <3>3. h.len = WordAt(stream, 5)
        BY DEF DecodeMBAP
      <3>4. WordAt(stream, 5) >= 2 /\ WordAt(stream, 5) - 1 <= maxPDU
        BY <1>4 DEF DecodeMBAP
      <3> QED BY <3>2, <3>3, <3>4
    <2> HIDE DEF h
    <2>2. pduLen' \in 0..maxPDU /\ pduLen' >= 1
      BY <1>4, <2>1 DEF maxPDU
    <2>3. TypeOK'
      BY <1>2, <1>4, <2>2 DEF IInv, TypeOK
    <2>4. RequestsFaithful'
      BY <1>1, <1>4 DEF IInv, RequestsFaithful
    <2>5. InProgress'
      BY <1>1, <1>4, <2>2 DEF IInv, InProgress
    <2>6. CleanExchange'
      <3> SUFFICES ASSUME clean, conn # 0 PROVE Answering'
        BY <1>4 DEF CleanExchange
      <3>1. stream # <<>>
        BY <1>1 DEF mbapLen
      <3>2. requests[conn] = <<>> /\ answer # <<>> /\ Begins(stream, Frame(txID, UnitID, answer))
        BY <1>1, <3>1 DEF IInv, CleanExchange, AtRest, Asked, Silence, Answering
      <3>3. answer \in Seq(Byte) /\ 1 <= Len(answer) /\ Len(answer) <= maxPDU
        <4>1. answer \in Seq(Byte) /\ Len(answer) <= maxPDU
          BY DEF IInv, TypeOK, InProgress
        <4>2. Len(answer) # 0
          BY <3>2, <4>1, EmptySeq
        <4> QED BY <4>1, <4>2, LenProperties
      <3>4. txID \in Words /\ UnitID \in Byte
        BY TxWord, UnitAssumption DEF IInv, TypeOK
      <3>5. h.len = Len(answer) + 1 /\ Begins(stream', answer)
        BY <1>1, <1>2, <3>2, <3>3, <3>4, FrameDecodes DEF h
      <3>6. pduLen' = Len(answer)
        BY <1>4, <3>3, <3>5, LenProperties
      <3> QED BY <1>4, <3>2, <3>5, <3>6 DEF Answering
    <2>7. OwnAnswer'
      BY <1>4 DEF OwnAnswer
    <2> QED BY <2>3, <2>4, <2>5, <2>6, <2>7 DEF IInv
  <1> QED BY <1>3, <1>4 DEF ReadHeader

(* The PDU read on a clean connection is the whole of the answer, and      *)
(* nothing of the stream is left over.                                     *)
LEMMA ReadPDUKeeps == IInv /\ ReadPDU => IInv'
  <1> SUFFICES ASSUME IInv, ReadPDU PROVE IInv'
    OBVIOUS
  <1> DEFINE pdu == SubSeq(stream, 1, pduLen)
             out == Interpret(call, pdu)
  <1>1. /\ stream \in Seq(Byte) /\ pduLen \in Nat /\ pduLen <= Len(stream)
        /\ pc = "pdu" /\ pduLen >= 1 /\ call \in Calls
    BY DEF ReadPDU, IInv, TypeOK, InProgress, maxPDU
  <1>2. /\ pdu \in Seq(Byte) /\ Len(pdu) = pduLen /\ stream' \in Seq(Byte)
        /\ Len(stream') = Len(stream) - pduLen
    BY <1>1, FirstAndRest DEF ReadPDU, Consume
  <1>3. /\ out.kind \in Kinds /\ out.vals \in Seq(Nat)
        /\ out = Outcome(out.kind, out.vals)
    <2>1. WellFormed(call) /\ 1 <= Len(pdu)
      BY <1>1, <1>2, CallFacts
    <2> HIDE DEF pdu
    <2> QED BY <1>2, <2>1, InterpretType DEF Kinds
  <1>4. Finish(out) /\ pduLen' = 0 /\ pduLen' \in 0..maxPDU
    BY DEF ReadPDU, maxPDU
  <1>5. CASE out.kind \notin Answered
    <2> HIDE DEF out
    <2> QED BY <1>1, <1>2, <1>3, <1>4, <1>5, FailKeeps
  <1>6. CASE out.kind \in Answered
    <2>1. TypeOK'
      <3> HIDE DEF out
      <3>1. last' \in [n : 0..MaxCalls, kind : Kinds, vals : Seq(Nat), fresh : BOOLEAN]
        BY <1>3, <1>4 DEF Finish, Result, Outcome, IInv, TypeOK
      <3>2. clean' \in BOOLEAN
        BY <1>4 DEF Finish, IInv, TypeOK
      <3> QED BY <1>2, <1>4, <3>1, <3>2 DEF Finish, IInv, TypeOK
    <2>2. RequestsFaithful'
      BY <1>4 DEF Finish, IInv, RequestsFaithful
    <2>3. InProgress'
      BY <1>4 DEF Finish, IInv, InProgress
    <2>4. clean /\ conn # 0 =>
             requests[conn] = <<>> /\ answer # <<>> /\ pdu = answer /\ stream' = <<>>
      <3> SUFFICES ASSUME clean, conn # 0
                   PROVE  requests[conn] = <<>> /\ answer # <<>> /\ pdu = answer /\ stream' = <<>>
        OBVIOUS
      <3>1. /\ requests[conn] = <<>> /\ answer # <<>>
            /\ pduLen = Len(answer) /\ Begins(stream, answer)
        BY <1>1 DEF IInv, CleanExchange, AtRest, Asked, Silence, Answering
      <3>2. stream = answer
        BY <1>1, <3>1, BeginsWhole DEF IInv, TypeOK
      <3>3. pdu = answer
        BY <1>1, <3>1, <3>2, SubSeqFull
      <3>4. Len(stream') = 0
        BY <1>1, <1>2, <3>1, <3>2
      <3> HIDE DEF pdu
      <3> QED BY <1>2, <3>1, <3>3, <3>4, EmptySeq
    <2>5. CleanExchange'
      BY <1>4, <2>4 DEF Finish, CleanExchange, AtRest
    <2>6. OwnAnswer'
      <3>1. conn # 0
        BY <1>1 DEF IInv, InProgress
      <3>2. last'.fresh = clean /\ last'.kind = out.kind /\ last'.vals = out.vals
            /\ answer' = answer /\ call' = call
        BY <1>4 DEF Finish, Result
      <3> QED BY <1>3, <2>4, <3>1, <3>2 DEF OwnAnswer
    <2> QED BY <2>1, <2>2, <2>3, <2>5, <2>6 DEF IInv
  <1> QED BY <1>5, <1>6

(* One request leaves a queue: the others stay as they were.               *)
LEMMA FewerRequests ==
    ASSUME IInv, NEW k \in Conns, NEW rest \in Seq(Request),
           NEW d \in Nat, Len(rest) + d = Len(requests[k]),
           \A i \in 1..Len(rest) : rest[i] = requests[k][i + d],
           requests' = [requests EXCEPT ![k] = rest],
           UNCHANGED <<n, pc, conn, dials>>
    PROVE  RequestsFaithful' /\ requests' \in [Conns -> Seq(Request)]
  <1>1. requests \in [Conns -> Seq(Request)]
    BY DEF IInv, TypeOK
  <1>2. /\ requests' \in [Conns -> Seq(Request)]
        /\ requests'[k] = rest
        /\ \A j \in Conns : j # k => requests'[j] = requests[j]
    BY <1>1
  <1>3. Len(rest) \in Nat /\ Len(requests[k]) \in Nat
    BY <1>1, LenProperties
  <1>4. \A i \in 1..Len(rest) : i + d \in 1..Len(requests[k])
    BY <1>3
  <1>5. k > dials => rest = <<>>
    <2> SUFFICES ASSUME k > dials PROVE rest = <<>>
      OBVIOUS
    <2>1. Len(requests[k]) = 0
      BY DEF IInv, RequestsFaithful
    <2>2. Len(rest) = 0
      BY <1>3, <2>1
    <2> QED BY <2>2, EmptySeq
  <1>6. RequestsFaithful'
    BY <1>2, <1>4, <1>5 DEF IInv, RequestsFaithful
  <1> QED BY <1>2, <1>6

(* The device's tables stay tables. *)
LEMMA HandledType ==
    ASSUME IInv, NEW k \in Conns, requests[k] # <<>>
    PROVE  Handled(k).mem \in Memory
  <1> DEFINE req == Head(requests[k])
             tx  == WordAt(req.frame, 1)
  <1>1. requests[k] \in Seq(Request) /\ mem \in Memory
    BY DEF IInv, TypeOK
  <1>2. 1 \in 1..Len(requests[k]) /\ req = requests[k][1] /\ req \in Request
    <2>1. Len(requests[k]) # 0
      BY <1>1, EmptySeq
    <2> QED BY <1>1, <2>1, LenProperties, HeadTailProperties
  <1>3. /\ req.call \in Calls /\ QuantityOK(req.call) /\ tx \in TxIDs
        /\ req.frame = Frame(tx, UnitID, RequestPDU(req.call))
    BY <1>2 DEF Request, IInv, RequestsFaithful
  <1>4. Dispatched(Handled(k))
    <2> HIDE DEF tx
    <2> QED BY <1>1, <1>3, ServeFacts DEF Handled
  <1> QED BY <1>4 DEF Dispatched

(* The device's step.  On a clean connection it can only be the answer to  *)
(* the call in progress that enters the stream.                            *)
LEMMA ServeKeeps ==
    ASSUME IInv, NEW k \in Conns, Serve(k)
    PROVE  IInv'
  <1> DEFINE req  == Head(requests[k])
             tx   == WordAt(req.frame, 1)
             h    == DecodeMBAP(req.frame)
             done == Dispatch(mem, SubSeq(req.frame, mbapLen + 1, mbapLen + h.len - 1))
             resp == done.resp
  <1>1. /\ requests[k] \in Seq(Request) /\ requests[k] # <<>>
        /\ mem \in Memory /\ stream \in Seq(Byte) /\ answer \in Seq(Byte)
    BY DEF Serve, IInv, TypeOK
  <1>2. 1 \in 1..Len(requests[k]) /\ req = requests[k][1] /\ req \in Request
    <2>1. Len(requests[k]) # 0
      BY <1>1, EmptySeq
    <2> QED BY <1>1, <2>1, LenProperties, HeadTailProperties
  <1>3. /\ req.call \in Calls /\ QuantityOK(req.call) /\ tx \in TxIDs
        /\ req.frame = Frame(tx, UnitID, RequestPDU(req.call))
        /\ pc # "idle" /\ req.n = n => k = conn
    BY <1>2 DEF Request, IInv, RequestsFaithful
  <1>4. /\ h.tx = tx /\ req.frame[mbapLen] = UnitID
        /\ Dispatched(done) /\ Frame(tx, UnitID, resp) \in Seq(Byte)
    <2> HIDE DEF tx
    <2> QED BY <1>1, <1>3, ServeFacts
  <1>5. /\ mem' = done.mem
        /\ requests' = [requests EXCEPT ![k] = Tail(requests[k])]
        /\ stream' = IF k = conn THEN stream \o Frame(tx, UnitID, resp) ELSE stream
        /\ answer' = IF pc # "idle" /\ req.n = n THEN resp ELSE answer
        /\ UNCHANGED <<conn, txID, pc, n, call, pduLen, dials, link, clean, last>>
    BY <1>4 DEF Serve, Handled, clientVars
  <1> HIDE DEF done
  <1>6. mem' \in Memory /\ resp \in Seq(Byte) /\ 1 <= Len(resp) /\ Len(resp) <= maxPDU
    BY <1>4, <1>5 DEF Dispatched
  <1> HIDE DEF req, tx, h, resp
  <1>7. RequestsFaithful' /\ requests' \in [Conns -> Seq(Request)]
    <2> DEFINE rest == Tail(requests[k])
    <2>1. /\ rest \in Seq(Request) /\ Len(rest) + 1 = Len(requests[k])
          /\ \A i \in 1..Len(rest) : rest[i] = requests[k][i + 1]
      BY <1>1, HeadTailProperties
    <2>2. requests' = [requests EXCEPT ![k] = rest]
      BY <1>5
    <2>3. UNCHANGED <<n, pc, conn, dials>>
      BY <1>5
    <2> HIDE DEF rest
    <2> QED BY <2>1, <2>2, <2>3, FewerRequests
  <1>8. stream' \in Seq(Byte) /\ answer' \in Seq(Byte)
    <2>1. stream \o Frame(tx, UnitID, resp) \in Seq(Byte)
      BY <1>1, <1>4, ConcatProperties
    <2> QED BY <1>1, <1>5, <1>6, <2>1
  <1>9. TypeOK'
    BY <1>5, <1>6, <1>7, <1>8 DEF IInv, TypeOK
  <1>10. InProgress'
    BY <1>5, <1>6 DEF IInv, InProgress
  <1>11. CleanExchange'
    <2> SUFFICES ASSUME clean, conn # 0
                 PROVE  (AtRest \/ Asked \/ Silence \/ Answering)'
      BY <1>5 DEF CleanExchange
    <2>1. AtRest \/ Asked \/ Silence \/ Answering
      BY DEF IInv, CleanExchange
    <2>2. CASE k # conn
      <3>1. conn \in Conns
        BY BoundsAssumption DEF IInv, TypeOK, Conns
      <3>2. requests'[conn] = requests[conn]
        BY <2>2, <3>1, <1>5 DEF IInv, TypeOK
      <3>3. stream' = stream /\ answer' = answer
        BY <2>2, <1>3, <1>5
      <3> QED BY <2>1, <3>2, <3>3, <1>5 DEF AtRest, Asked, Silence, Answering
    <2>3. CASE k = conn
      <3>1. Asked
        BY <1>1, <2>1, <2>3 DEF AtRest, Silence, Answering
      <3>2. req = [n |-> n, call |-> call, frame |-> Frame(txID, UnitID, RequestPDU(call))]
        BY <1>2, <2>3, <3>1 DEF Asked
      <3>3. tx = txID
        <4>1. call \in Calls /\ txID \in TxIDs /\ QuantityOK(call)
          BY <1>3, <3>2 DEF IInv, TypeOK
        <4> QED BY <4>1, <3>2, RequestReady DEF tx
      <3>4. answer' = resp
        BY <1>5, <3>1, <3>2 DEF Asked
      <3>5. answer' # <<>>
        BY <1>6, <3>4
      <3>6. stream' = Frame(txID, UnitID, resp)
        BY <1>4, <1>5, <2>3, <3>1, <3>3, ConcatEmptySeq DEF Asked
      <3>7. requests'[conn] = <<>>
        <4>1. requests'[conn] = Tail(requests[k])
          BY <1>5, <2>3 DEF IInv, TypeOK
        <4>2. Len(requests[k]) = 1
          BY <2>3, <3>1 DEF Asked
        <4>3. Len(Tail(requests[k])) = 0 /\ Tail(requests[k]) \in Seq(Request)
          BY <1>1, <4>2, HeadTailProperties
        <4> QED BY <4>1, <4>3, EmptySeq
      <3>8. Begins(stream', Frame(txID', UnitID, answer'))
        <4>1. Frame(txID, UnitID, resp) \in Seq(Byte)
          BY <1>4, <3>3
        <4>2. Begins(Frame(txID, UnitID, resp), Frame(txID, UnitID, resp))
          BY <4>1, BeginsWhole
        <4> QED BY <4>2, <1>5, <3>4, <3>6
      <3> QED BY <1>5, <3>1, <3>5, <3>7, <3>8 DEF Asked, Answering
    <2> QED BY <2>2, <2>3
  <1>12. OwnAnswer'
    BY <1>5 DEF IInv, OwnAnswer
  <1> QED BY <1>7, <1>9, <1>10, <1>11, <1>12 DEF IInv

(* The device stays silent: on a clean connection, on the call in progress. *)
LEMMA UnansweredKeeps ==
    ASSUME IInv, NEW k \in Conns, Unanswered(k), mem' \in Memory
    PROVE  IInv'
  <1>1. /\ requests[k] \in Seq(Request) /\ requests[k] # <<>>
        /\ requests' = [requests EXCEPT ![k] = Tail(requests[k])]
        /\ UNCHANGED <<conn, txID, pc, n, call, pduLen, dials, stream, link, answer, clean, last>>
    BY DEF Unanswered, clientVars, IInv, TypeOK
  <1>2. RequestsFaithful' /\ requests' \in [Conns -> Seq(Request)]
    <2> DEFINE rest == Tail(requests[k])
    <2>1. /\ rest \in Seq(Request) /\ Len(rest) + 1 = Len(requests[k])
          /\ \A i \in 1..Len(rest) : rest[i] = requests[k][i + 1]
      BY <1>1, HeadTailProperties
    <2>2. requests' = [requests EXCEPT ![k] = rest] /\ UNCHANGED <<n, pc, conn, dials>>
      BY <1>1
    <2> HIDE DEF rest
    <2> QED BY <2>1, <2>2, FewerRequests
  <1>3. TypeOK' /\ InProgress' /\ OwnAnswer'
    BY <1>1, <1>2 DEF IInv, TypeOK, InProgress, OwnAnswer
  <1>4. CleanExchange'
    <2> SUFFICES ASSUME clean, conn # 0
                 PROVE  (AtRest \/ Asked \/ Silence \/ Answering)'
      BY <1>1 DEF CleanExchange
    <2>1. AtRest \/ Asked \/ Silence \/ Answering
      BY DEF IInv, CleanExchange
    <2>2. CASE k # conn
      <3>1. conn \in Conns
        BY BoundsAssumption DEF IInv, TypeOK, Conns
      <3>2. requests'[conn] = requests[conn]
        BY <2>2, <3>1, <1>1 DEF IInv, TypeOK
      <3> QED BY <2>1, <3>2, <1>1 DEF AtRest, Asked, Silence, Answering
    <2>3. CASE k = conn
      <3>1. Asked
        BY <1>1, <2>1, <2>3 DEF AtRest, Silence, Answering
      <3>2. requests'[conn] = <<>>
        <4>1. requests'[conn] = Tail(requests[k])
          BY <1>1, <2>3 DEF IInv, TypeOK
        <4>2. Len(requests[k]) = 1
          BY <2>3, <3>1 DEF Asked
        <4>3. Len(Tail(requests[k])) = 0 /\ Tail(requests[k]) \in Seq(Request)
          BY <1>1, <4>2, HeadTailProperties
        <4> QED BY <4>1, <4>3, EmptySeq
      <3> QED BY <1>1, <3>1, <3>2 DEF Asked, Silence
    <2> QED BY <2>2, <2>3
  <1> QED BY <1>2, <1>3, <1>4 DEF IInv

LEMMA SilentKeeps ==
    ASSUME IInv, NEW k \in Conns, RequestLost(k) \/ AnswerLost(k)
    PROVE  IInv' /\ Unanswered(k)
  <1>1. Unanswered(k) /\ requests[k] # <<>>
    BY DEF RequestLost, AnswerLost, Unanswered
  <1>2. mem' \in Memory
    BY <1>1, HandledType DEF RequestLost, AnswerLost, IInv, TypeOK
  <1> QED BY <1>1, <1>2, UnansweredKeeps

(* A connection ends: what is lost was this call's or nobody's.            *)
LEMMA DropKeeps ==
    ASSUME IInv, NEW k \in Conns, Drop(k)
    PROVE  IInv'
  <1>1. /\ requests' = [requests EXCEPT ![k] = <<>>]
        /\ UNCHANGED <<conn, txID, pc, n, call, pduLen, dials, mem, answer, clean, last>>
    BY DEF Drop, clientVars
  <1>2. RequestsFaithful' /\ requests' \in [Conns -> Seq(Request)]
    <2> DEFINE none == <<>>
               d    == Len(requests[k])
    <2>1. none \in Seq(Request) /\ Len(none) + d = Len(requests[k]) /\ d \in Nat
      BY LenProperties DEF IInv, TypeOK
    <2>2. \A i \in 1..Len(none) : none[i] = requests[k][i + d]
      OBVIOUS
    <2>3. requests' = [requests EXCEPT ![k] = none]
      BY <1>1
    <2>4. UNCHANGED <<n, pc, conn, dials>>
      BY <1>1
    <2> HIDE DEF none, d
    <2> QED BY <2>1, <2>2, <2>3, <2>4, FewerRequests
  <1>3. \/ /\ k = conn /\ link' = "closed"
           /\ \E kept \in 0..Len(stream) : stream' = SubSeq(stream, 1, kept)
        \/ k # conn /\ link' = link /\ stream' = stream
    BY DEF Drop
  <1>4. /\ link' \in {"open", "closed", "broken"}
        /\ stream' \in Seq(Byte)
        /\ Len(stream') <= Len(stream)
        /\ \A i \in 1..Len(stream') : stream'[i] = stream[i]
    <2>1. stream \in Seq(Byte) /\ link \in {"open", "closed", "broken"}
      BY DEF IInv, TypeOK
    <2>2. ASSUME NEW kept \in 0..Len(stream), stream' = SubSeq(stream, 1, kept)
          PROVE  /\ stream' \in Seq(Byte) /\ Len(stream') <= Len(stream)
                 /\ \A i \in 1..Len(stream') : stream'[i] = stream[i]
      <3>1. kept \in Nat /\ kept <= Len(stream)
        BY <2>1, LenProperties
      <3> QED BY <2>1, <2>2, <3>1, FirstAndRest
    <2> QED BY <1>3, <2>1, <2>2, LenProperties
  <1>5. TypeOK'
    BY <1>1, <1>2, <1>4 DEF IInv, TypeOK
  <1>6. InProgress'
    BY <1>1 DEF IInv, InProgress
  <1>7. CleanExchange'
    <2> SUFFICES ASSUME clean, conn # 0
                 PROVE  (AtRest \/ Asked \/ Silence \/ Answering)'
      BY <1>1 DEF CleanExchange
    <2>1. AtRest \/ Asked \/ Silence \/ Answering
      BY DEF IInv, CleanExchange
    <2>2. conn \in Conns
      BY BoundsAssumption DEF IInv, TypeOK, Conns
    <2>3. CASE k # conn
      <3>1. requests'[conn] = requests[conn]
        BY <2>2, <2>3, <1>1 DEF IInv, TypeOK
      <3> QED BY <2>1, <2>3, <3>1, <1>1, <1>3 DEF AtRest, Asked, Silence, Answering
    <2>4. CASE k = conn
      <3>1. requests'[conn] = <<>> /\ link' = "closed"
        BY <2>4, <1>1, <1>3 DEF IInv, TypeOK
      <3>2. stream = <<>> => stream' = <<>>
        <4> SUFFICES ASSUME stream = <<>> PROVE stream' = <<>>
          OBVIOUS
        <4>1. Len(stream') = 0
          BY <1>4, LenProperties
        <4> QED BY <4>1, <1>4, EmptySeq
      <3>3. ASSUME NEW t \in Seq(Byte), Begins(stream, t)
            PROVE  Begins(stream', t)
        <4>1. Len(stream) \in Nat /\ Len(stream') \in Nat /\ Len(t) \in Nat
          BY <1>4, LenProperties DEF IInv, TypeOK
        <4>2. Len(stream) <= Len(t) /\ \A i \in 1..Len(stream) : stream[i] = t[i]
          BY <3>3 DEF Begins
        <4>3. Len(stream') <= Len(t)
          BY <1>4, <4>1, <4>2
        <4>4. ASSUME NEW i \in 1..Len(stream')
              PROVE  stream'[i] = t[i]
          <5>1. i \in 1..Len(stream)
            BY <1>4, <4>1
          <5> QED BY <5>1, <4>2, <1>4
        <4> QED BY <4>3, <4>4 DEF Begins
      <3>4. CASE AtRest
        BY <3>1, <3>2, <3>4, <1>1 DEF AtRest
      <3>5. CASE Asked \/ Silence
        BY <3>1, <3>2, <3>5, <1>1 DEF Asked, Silence
      <3>6. CASE Answering
        <4>1. answer \in Seq(Byte) /\ Frame(txID, UnitID, answer) \in Seq(Byte)
          <5>1. answer \in Seq(Byte) /\ Len(answer) <= maxPDU
            BY DEF IInv, TypeOK, InProgress
          <5>2. Len(answer) + 1 \in Nat /\ Len(answer) + 1 < 65536
            BY <5>1, LenProperties DEF maxPDU
          <5>3. Len(answer) + 1 \in Words
            BY <5>2, SmallWord
          <5>4. txID \in Words /\ UnitID \in Byte
            BY TxWord, UnitAssumption DEF IInv, TypeOK
          <5> QED BY <5>1, <5>3, <5>4, FrameShape
        <4> QED BY <4>1, <3>1, <3>3, <3>6, <1>1 DEF Answering
      <3> QED BY <2>1, <3>4, <3>5, <3>6
    <2> QED BY <2>3, <2>4
  <1>8. OwnAnswer'
    BY <1>1 DEF IInv, OwnAnswer
  <1> QED BY <1>2, <1>5, <1>6, <1>7, <1>8 DEF IInv

(***************************************************************************)
(* The theorems.                                                           *)
(***************************************************************************)
(* IInv holds in every reachable state of the client and its device.       *)
THEOREM Invariance == Spec => []IInv
  <1>1. ASSUME IInv, [Next]_vars
        PROVE  IInv'
    <2>1. CASE Connect \/ Close
      BY <1>1, <2>1, ConnectKeeps, CloseKeeps
    <2>2. ASSUME NEW c \in Calls,
                 RefuseCall(c) \/ SendRequest(c) \/ SendIntoClosed(c) \/ WriteError(c)
          PROVE  IInv'
      BY <1>1, <2>2, RefuseCallKeeps, SendRequestKeeps, SendIntoClosedKeeps, WriteErrorKeeps
    <2>3. CASE ReadHeader \/ ReadPDU \/ Timeout \/ ReadEOF
      BY <1>1, <2>3, ReadHeaderKeeps, ReadPDUKeeps, TimeoutKeeps, ReadEOFKeeps
    <2>4. ASSUME NEW k \in Conns, Serve(k) \/ RequestLost(k) \/ AnswerLost(k) \/ Drop(k)
          PROVE  IInv'
      BY <1>1, <2>4, ServeKeeps, SilentKeeps, DropKeeps
    <2>5. CASE UNCHANGED vars
      BY <1>1, <2>5 DEF vars, IInv, TypeOK, RequestsFaithful, InProgress, CleanExchange,
                        AtRest, Asked, Silence, Answering, OwnAnswer
    <2> QED BY <1>1, <2>1, <2>2, <2>3, <2>4, <2>5 DEF Next
  <1> QED BY <1>1, InitIInv, PTL DEF Spec

(* Every variable stays in its range: for every sequence of calls, drops,  *)
(* timeouts and late answers, what do reads and the device computes are    *)
(* bytes and words, and no length passes maxPDU.                           *)
THEOREM TypeCorrect == Spec => []TypeOK
  BY Invariance, PTL DEF IInv

(* On a connection on which no sent call has failed, what may be under way *)
(* is the current call's exchange and nothing else.                        *)
THEOREM CleanConnections == Spec => []CleanExchange
  BY Invariance, PTL DEF IInv

(* On such a connection every result is the device's answer to that call.  *)
THEOREM AnswersAreOwn == Spec => []OwnAnswer
  BY Invariance, PTL DEF IInv

(***************************************************************************)
(* What the answers mean, and whose they are.  A request on its way is the *)
(* only one with its number and, when it has the number of the last call,  *)
(* it is that call's; what the device has answered to the call in progress *)
(* is what the tables held for it at that moment; callers that do not      *)
(* reuse a connection after a failure are always on a clean one.           *)
(***************************************************************************)
OwnNumber == \A k \in Conns : \A i \in 1..Len(requests[k]) :
                requests[k][i].n = n => requests[k][i].call = call

Distinct == \A j, k \in Conns : \A i \in 1..Len(requests[j]), l \in 1..Len(requests[k]) :
               requests[j][i].n = requests[k][l].n => j = k /\ i = l

AnswerMeant == answer # <<>> => \E m \in Memory : Interpret(call, answer) = Meant(m, call)

KeptClean == ~ReuseAfterError /\ pc # "idle" => clean

MInv == OwnNumber /\ Distinct /\ AnswerMeant /\ KeptClean /\ FramingHolds

(* What the device makes of a request it takes up. *)
LEMMA HandledMeans ==
    ASSUME IInv, NEW k \in Conns, requests[k] # <<>>
    PROVE  \E r \in Request, resp \in Seq(Byte) :
              /\ 1 \in 1..Len(requests[k]) /\ r = requests[k][1] /\ r = Head(requests[k])
              /\ WellFormed(r.call) /\ QuantityOK(r.call)
              /\ Handled(k).mem \in Memory /\ Handled(k).mem = Written(mem, r.call)
              /\ Handled(k).resp = resp
              /\ resp # <<>> /\ Interpret(r.call, resp) = Meant(mem, r.call)
  <1> DEFINE req  == Head(requests[k])
             tx   == WordAt(req.frame, 1)
             h    == DecodeMBAP(req.frame)
             done == Dispatch(mem, SubSeq(req.frame, mbapLen + 1, mbapLen + h.len - 1))
  <1>1. requests[k] \in Seq(Request) /\ mem \in Memory
    BY DEF IInv, TypeOK
  <1>2. 1 \in 1..Len(requests[k]) /\ req = requests[k][1] /\ req \in Request
    <2>1. Len(requests[k]) # 0
      BY <1>1, EmptySeq
    <2> QED BY <1>1, <2>1, LenProperties, HeadTailProperties
  <1>3. /\ req.call \in Calls /\ QuantityOK(req.call) /\ tx \in TxIDs
        /\ req.frame = Frame(tx, UnitID, RequestPDU(req.call))
    BY <1>2 DEF Request, IInv, RequestsFaithful
  <1>4. done = Dispatch(mem, RequestPDU(req.call)) /\ Dispatched(done)
    <2> HIDE DEF tx
    <2> QED BY <1>1, <1>3, ServeFacts
  <1>5. Handled(k) = done
    BY DEF Handled
  <1> HIDE DEF done, req
  <1>6. WellFormed(req.call) /\ req.call.addr \in Addresses
    BY <1>3, CallsAssumption
  <1>7. /\ done.mem = Written(mem, req.call)
        /\ Interpret(req.call, done.resp) = Meant(mem, req.call)
    BY <1>1, <1>3, <1>4, <1>6, ExchangeMeans
  <1>8. done.resp \in Seq(Byte) /\ done.resp # <<>> /\ done.mem \in Memory
    BY <1>4, LenProperties DEF Dispatched
  <1>9. req = Head(requests[k])
    BY DEF req
  <1> QED BY <1>2, <1>3, <1>5, <1>6, <1>7, <1>8, <1>9

(* What it does with one it answers. *)
LEMMA ServeStep ==
    ASSUME IInv, NEW k \in Conns, Serve(k)
    PROVE  \E r \in Request, resp \in Seq(Byte) :
              /\ 1 \in 1..Len(requests[k]) /\ r = requests[k][1]
              /\ WellFormed(r.call) /\ QuantityOK(r.call)
              /\ mem' = Written(mem, r.call)
              /\ requests' = [requests EXCEPT ![k] = Tail(requests[k])]
              /\ resp # <<>> /\ Interpret(r.call, resp) = Meant(mem, r.call)
              /\ answer' = IF pc # "idle" /\ r.n = n THEN resp ELSE answer
              /\ UNCHANGED <<conn, txID, pc, n, call, pduLen, dials, link, clean, last>>
  <1>1. requests[k] # <<>>
    BY DEF Serve
  <1>2. PICK r \in Request, resp \in Seq(Byte) :
              /\ 1 \in 1..Len(requests[k]) /\ r = requests[k][1] /\ r = Head(requests[k])
              /\ WellFormed(r.call) /\ QuantityOK(r.call)
              /\ Handled(k).mem \in Memory /\ Handled(k).mem = Written(mem, r.call)
              /\ Handled(k).resp = resp
              /\ resp # <<>> /\ Interpret(r.call, resp) = Meant(mem, r.call)
    BY <1>1, HandledMeans
  <1>3. /\ mem' = Handled(k).mem
        /\ requests' = [requests EXCEPT ![k] = Tail(requests[k])]
        /\ answer' = IF pc # "idle" /\ r.n = n THEN resp ELSE answer
        /\ UNCHANGED <<conn, txID, pc, n, call, pduLen, dials, link, clean, last>>
    BY <1>2 DEF Serve, clientVars
  <1> QED BY <1>2, <1>3

(* What the caller is told is one of two things. *)
LEMMA MeantKind ==
    ASSUME NEW m, NEW c
    PROVE  /\ Meant(m, c).kind \in Answered
           /\ Meant(m, c) = Outcome(Meant(m, c).kind, Meant(m, c).vals)
  BY DEF Meant, Outcome, Answered

(* Taking requests off the front of a queue disturbs neither fact. *)
LEMMA QueueShrinks ==
    ASSUME IInv, OwnNumber, Distinct, NEW k \in Conns, NEW rest \in Seq(Request),
           NEW d \in Nat, Len(rest) + d = Len(requests[k]),
           \A i \in 1..Len(rest) : rest[i] = requests[k][i + d],
           requests' = [requests EXCEPT ![k] = rest], UNCHANGED <<n, call>>
    PROVE  OwnNumber' /\ Distinct'
  <1>1. requests \in [Conns -> Seq(Request)]
    BY DEF IInv, TypeOK
  <1>2. requests'[k] = rest /\ \A j \in Conns : j # k => requests'[j] = requests[j]
    BY <1>1
  <1>3. \A i \in 1..Len(rest) : i + d \in 1..Len(requests[k])
    <2>1. Len(rest) \in Nat /\ Len(requests[k]) \in Nat
      BY <1>1, LenProperties
    <2> QED BY <2>1
  <1> DEFINE shift(j) == IF j = k THEN d ELSE 0
  <1>4. ASSUME NEW j \in Conns, NEW i \in 1..Len(requests'[j])
        PROVE  /\ i + shift(j) \in 1..Len(requests[j])
               /\ requests'[j][i] = requests[j][i + shift(j)]
    <2>1. CASE j = k
      BY <2>1, <1>2, <1>3
    <2>2. CASE j # k
      <3>1. requests'[j] = requests[j] /\ i + 0 = i
        BY <2>2, <1>2
      <3> QED BY <2>2, <3>1
    <2> QED BY <2>1, <2>2
  <1> HIDE DEF shift
  <1>5. OwnNumber'
    <2> SUFFICES ASSUME NEW j \in Conns, NEW i \in 1..Len(requests'[j]), requests'[j][i].n = n
                 PROVE  requests'[j][i].call = call
      BY DEF OwnNumber
    <2>1. PICK x \in 1..Len(requests[j]) : requests'[j][i] = requests[j][x]
      BY <1>4
    <2> QED BY <2>1 DEF OwnNumber
  <1>6. Distinct'
    <2> SUFFICES ASSUME NEW j \in Conns, NEW m \in Conns, NEW i \in 1..Len(requests'[j]),
                        NEW l \in 1..Len(requests'[m]),
                        requests'[j][i].n = requests'[m][l].n
                 PROVE  j = m /\ i = l
      BY DEF Distinct
    <2>1. PICK x \in 1..Len(requests[j]) : x = i + shift(j) /\ requests'[j][i] = requests[j][x]
      BY <1>4
    <2>2. PICK y \in 1..Len(requests[m]) : y = l + shift(m) /\ requests'[m][l] = requests[m][y]
      BY <1>4
    <2>3. j = m /\ x = y
      <3>1. requests[j][x].n = requests[m][y].n
        BY <2>1, <2>2
      <3>2. j \in Conns /\ m \in Conns /\ x \in 1..Len(requests[j]) /\ y \in 1..Len(requests[m])
        OBVIOUS
      <3> QED BY ONLY <3>1, <3>2, Distinct DEF Distinct
    <2>4. shift(j) \in Nat /\ i \in Int /\ l \in Int
      BY DEF shift
    <2> QED BY <2>1, <2>2, <2>3, <2>4
  <1> QED BY <1>5, <1>6

(* Numbers on their way are numbers of calls made. *)
LEMMA NumbersUsed ==
    ASSUME IInv
    PROVE  \A k \in Conns : \A i \in 1..Len(requests[k]) :
             requests[k][i].n \in Nat /\ requests[k][i].n <= n
  <1> TAKE k \in Conns
  <1> TAKE i \in 1..Len(requests[k])
  <1>1. requests[k][i] \in Request
    BY ElementOfSeq DEF IInv, TypeOK
  <1> QED BY <1>1 DEF Request, IInv, RequestsFaithful

(* A call that sends nothing. *)
LEMMA NewNumber ==
    ASSUME IInv, Distinct, NEW c \in Calls, Begin(c), UNCHANGED requests
    PROVE  OwnNumber' /\ Distinct' /\ AnswerMeant'
  <1>1. \A k \in Conns : \A i \in 1..Len(requests[k]) : requests[k][i].n # n + 1
    <2>1. n \in Int
      BY DEF IInv, TypeOK
    <2> QED BY <2>1, NumbersUsed
  <1>2. OwnNumber'
    BY <1>1 DEF Begin, OwnNumber
  <1>3. Distinct' /\ AnswerMeant'
    BY DEF Begin, Distinct, AnswerMeant
  <1> QED BY <1>2, <1>3

(* A request that goes out takes the new number. *)
LEMMA QueueGrows ==
    ASSUME IInv, Distinct, NEW c \in Calls, SendRequest(c)
    PROVE  OwnNumber' /\ Distinct' /\ AnswerMeant'
  <1>1. PICK r : r = [n |-> n + 1, call |-> c,
                      frame |-> Frame(nextTxID, UnitID, RequestPDU(c))]
    OBVIOUS
  <1>2. requests' = [requests EXCEPT ![conn] = Append(requests[conn], r)]
    BY <1>1 DEF SendRequest
  <1>3. n' = n + 1 /\ call' = c /\ answer' = <<>> /\ conn # 0
    BY DEF SendRequest, CanSend, Begin
  <1>4. requests \in [Conns -> Seq(Request)] /\ conn \in Conns /\ n \in Int
    BY <1>3, BoundsAssumption DEF IInv, TypeOK, Conns
  <1>5. /\ \A j \in Conns : j # conn => requests'[j] = requests[j]
        /\ requests'[conn] = Append(requests[conn], r)
    BY <1>2, <1>4
  <1>6. /\ Len(requests'[conn]) = Len(requests[conn]) + 1
        /\ \A i \in 1..Len(requests[conn]) : requests'[conn][i] = requests[conn][i]
        /\ requests'[conn][Len(requests[conn]) + 1] = r
    <2>1. PICK q \in Seq(Request) : q = requests[conn]
      BY <1>4
    <2>2. \A i \in 1..Len(q) : Append(q, r)[i] = q[i]
      OBVIOUS
    <2>3. Len(Append(q, r)) = Len(q) + 1 /\ Append(q, r)[Len(q) + 1] = r
      OBVIOUS
    <2> QED BY <1>5, <2>1, <2>2, <2>3
  <1>7. \A k \in Conns : \A i \in 1..Len(requests[k]) : requests[k][i].n # n + 1
    BY <1>4, NumbersUsed
  <1>8. ASSUME NEW j \in Conns, NEW i \in 1..Len(requests'[j])
        PROVE  \/ i \in 1..Len(requests[j]) /\ requests'[j][i] = requests[j][i]
               \/ j = conn /\ i = Len(requests[conn]) + 1 /\ requests'[j][i] = r
    <2>1. CASE j # conn
      BY <2>1, <1>5
    <2>2. CASE j = conn
      <3>1. Len(requests[conn]) \in Nat
        BY <1>4, LenProperties
      <3>2. i \in 1..Len(requests[conn]) \/ i = Len(requests[conn]) + 1
        BY <2>2, <3>1, <1>6
      <3> QED BY <2>2, <3>2, <1>6
    <2> QED BY <2>1, <2>2
  <1>9. r.n = n + 1 /\ r.call = c
    BY <1>1
  <1>10. OwnNumber'
    BY <1>3, <1>7, <1>8, <1>9 DEF OwnNumber
  <1>11. Distinct'
    <2> SUFFICES ASSUME NEW j \in Conns, NEW m \in Conns, NEW i \in 1..Len(requests'[j]),
                        NEW l \in 1..Len(requests'[m]),
                        requests'[j][i].n = requests'[m][l].n
                 PROVE  j = m /\ i = l
      BY DEF Distinct
    <2>1. \/ i \in 1..Len(requests[j]) /\ requests'[j][i] = requests[j][i]
          \/ j = conn /\ i = Len(requests[conn]) + 1 /\ requests'[j][i] = r
      BY <1>8
    <2>2. \/ l \in 1..Len(requests[m]) /\ requests'[m][l] = requests[m][l]
          \/ m = conn /\ l = Len(requests[conn]) + 1 /\ requests'[m][l] = r
      BY <1>8
    <2>3. CASE i \in 1..Len(requests[j]) /\ requests'[j][i] = requests[j][i]
      <3>1. requests[j][i].n # n + 1
        BY <2>3, <1>7
      <3>2. l \in 1..Len(requests[m]) /\ requests'[m][l] = requests[m][l]
        BY <2>2, <2>3, <3>1, <1>9
      <3> QED BY <2>3, <3>2 DEF Distinct
    <2>4. CASE j = conn /\ i = Len(requests[conn]) + 1 /\ requests'[j][i] = r
      <3>1. l \in 1..Len(requests[m]) => requests[m][l].n # n + 1
        BY <1>7
      <3>2. m = conn /\ l = Len(requests[conn]) + 1
        BY <2>2, <2>4, <3>1, <1>9
      <3> QED BY <2>4, <3>2
    <2> QED BY <2>1, <2>3, <2>4
  <1>12. AnswerMeant'
    BY <1>3 DEF AnswerMeant
  <1> QED BY <1>10, <1>11, <1>12

(* A call that was sent ends without an answer: a reason other than the    *)
(* framing checks, or a connection that was not clean.                     *)
LEMMA FinishMeans ==
    ASSUME IInv, MInv, NEW outcome, Finish(outcome), UNCHANGED <<n, call, answer, requests>>,
           clean => outcome.kind \notin {"badHeader", "transaction", "wrongFunction", "decode"}
    PROVE  MInv'
  <1>1. OwnNumber' /\ Distinct' /\ AnswerMeant'
    BY DEF MInv, OwnNumber, Distinct, AnswerMeant
  <1>2. KeptClean'
    BY DEF Finish, KeptClean
  <1>3. FramingHolds'
    BY DEF Finish, Result, FramingHolds
  <1> QED BY <1>1, <1>2, <1>3 DEF MInv

LEMMA BeginMeans ==
    ASSUME IInv, MInv, NEW c \in Calls,
           RefuseCall(c) \/ SendRequest(c) \/ SendIntoClosed(c) \/ WriteError(c)
    PROVE  MInv'
  <1>1. Begin(c)
    BY DEF RefuseCall, SendRequest, SendIntoClosed, WriteError, CanSend
  <1>2. OwnNumber' /\ Distinct' /\ AnswerMeant'
    <2>1. CASE SendRequest(c)
      BY <2>1, QueueGrows DEF MInv
    <2>2. CASE requests' = requests
      BY <1>1, <2>2, NewNumber DEF MInv
    <2>3. SendRequest(c) \/ requests' = requests
      BY DEF RefuseCall, SendIntoClosed, WriteError
    <2> QED BY <2>1, <2>2, <2>3
  <1>3. KeptClean'
    <2>1. clean' = clean
      BY DEF RefuseCall, SendRequest, SendIntoClosed, WriteError
    <2> QED BY <1>1, <2>1 DEF Begin, KeptClean
  <1>4. FramingHolds'
    BY DEF RefuseCall, SendRequest, SendIntoClosed, WriteError, Result, Outcome,
           MInv, FramingHolds
  <1> QED BY <1>2, <1>3, <1>4 DEF MInv

(* The header of an answer that is at the front passes both checks of do. *)
LEMMA AnswerHeader ==
    ASSUME IInv, Answering, ReadHeader
    PROVE  /\ DecodeMBAP(stream).ok /\ DecodeMBAP(stream).tx = txID
           /\ pc' = "pdu"
           /\ UNCHANGED <<conn, dials, txID, n, call, link, requests,
                          mem, answer, clean, last>>
           /\ Answering'
  <1>1. stream \in Seq(Byte) /\ mbapLen <= Len(stream) /\ pc = "header" /\ mbapLen \in Nat
    BY DEF ReadHeader, IInv, TypeOK, mbapLen
  <1>2. requests[conn] = <<>> /\ answer # <<>> /\ Begins(stream, Frame(txID, UnitID, answer))
    BY <1>1 DEF Answering
  <1>3. answer \in Seq(Byte) /\ 1 <= Len(answer) /\ Len(answer) <= maxPDU
    <2>1. answer \in Seq(Byte) /\ Len(answer) <= maxPDU
      BY DEF IInv, TypeOK, InProgress
    <2>2. Len(answer) # 0
      BY <1>2, <2>1, EmptySeq
    <2> QED BY <2>1, <2>2, LenProperties
  <1>4. txID \in Words /\ UnitID \in Byte
    BY TxWord, UnitAssumption DEF IInv, TypeOK
  <1>5. stream' = SubSeq(stream, mbapLen + 1, Len(stream))
    BY DEF ReadHeader, Consume
  <1>6. /\ DecodeMBAP(stream).ok /\ DecodeMBAP(stream).tx = txID
        /\ DecodeMBAP(stream).len = Len(answer) + 1
        /\ Begins(stream', answer)
    BY <1>1, <1>2, <1>3, <1>4, <1>5, FrameDecodes
  <1>7. /\ pc' = "pdu" /\ pduLen' = DecodeMBAP(stream).len - 1
        /\ UNCHANGED <<conn, dials, txID, n, call, link, requests, mem, answer, clean, last>>
    BY <1>6 DEF ReadHeader
  <1>8. pduLen' = Len(answer)
    BY <1>3, <1>6, <1>7, LenProperties
  <1>9. Answering'
    BY <1>2, <1>6, <1>7, <1>8 DEF Answering
  <1> QED BY <1>6, <1>7, <1>9

(* Its PDU is the device's answer, and nothing is left behind it. *)
LEMMA AnswerPDU ==
    ASSUME IInv, Answering, ReadPDU
    PROVE  answer # <<>> /\ SubSeq(stream, 1, pduLen) = answer /\ stream' = <<>>
  <1>1. /\ stream \in Seq(Byte) /\ pduLen \in Nat /\ pduLen <= Len(stream)
        /\ pc = "pdu" /\ stream' = SubSeq(stream, pduLen + 1, Len(stream))
    BY DEF ReadPDU, IInv, TypeOK, InProgress, maxPDU, Consume
  <1>2. answer # <<>> /\ pduLen = Len(answer) /\ Begins(stream, answer)
    BY <1>1 DEF Answering
  <1>3. stream = answer
    BY <1>1, <1>2, BeginsWhole DEF IInv, TypeOK
  <1>4. stream' = <<>>
    <2>1. stream' \in Seq(Byte) /\ Len(stream') = Len(stream) - pduLen
      BY <1>1, FirstAndRest
    <2>2. Len(stream') = 0
      BY <2>1, <1>1, <1>2, <1>3
    <2> QED BY <2>1, <2>2, EmptySeq
  <1> QED BY <1>1, <1>2, <1>3, <1>4, SubSeqFull

(* On a clean connection the answer is at the front. *)
LEMMA CleanAnswer ==
    ASSUME IInv, clean, ReadHeader \/ ReadPDU
    PROVE  Answering
  <1>1. CASE ReadHeader
    <2>1. pc = "header" /\ conn # 0 /\ stream # <<>>
      BY <1>1 DEF ReadHeader, IInv, InProgress, mbapLen
    <2> QED BY <2>1 DEF IInv, CleanExchange, AtRest, Asked, Silence
  <1>2. CASE ReadPDU
    <2>1. pc = "pdu" /\ conn # 0
      BY <1>2 DEF ReadPDU, IInv, InProgress
    <2> QED BY <2>1 DEF IInv, CleanExchange, AtRest, Asked, Silence
  <1> QED BY <1>1, <1>2

LEMMA ReadMeansStep ==
    ASSUME IInv, MInv, ReadHeader \/ ReadPDU \/ Timeout \/ ReadEOF
    PROVE  MInv'
  <1>1. CASE ReadHeader
    <2>1. CASE clean
      BY <1>1, <2>1, CleanAnswer, AnswerHeader DEF MInv, OwnNumber,
                                                   Distinct, AnswerMeant, KeptClean, FramingHolds
    <2>2. CASE ~clean
      <3>1. CASE /\ pc' = "pdu"
                 /\ UNCHANGED <<conn, dials, txID, n, call, link, requests,
                                mem, answer, clean, last>>
        <4>1. pc = "header"
          BY <1>1 DEF ReadHeader
        <4> QED BY <3>1, <4>1 DEF MInv, OwnNumber, Distinct, AnswerMeant, KeptClean,
                                  FramingHolds
      <3>2. ASSUME NEW outcome, Finish(outcome)
            PROVE  MInv'
        BY <2>2, <3>2, FinishMeans DEF Finish
      <3> QED BY <1>1, <3>1, <3>2 DEF ReadHeader
    <2> QED BY <2>1, <2>2
  <1>2. CASE ReadPDU
    <2> DEFINE out == Interpret(call, SubSeq(stream, 1, pduLen))
    <2>1. Finish(out)
      BY <1>2 DEF ReadPDU
    <2>2. clean => out.kind \in Answered
      BY <1>2, CleanAnswer, AnswerPDU, MeantKind DEF MInv, AnswerMeant
    <2> HIDE DEF out
    <2>3. clean => out.kind \notin {"badHeader", "transaction", "wrongFunction", "decode"}
      BY <2>2 DEF Answered
    <2> QED BY <2>1, <2>3, FinishMeans DEF Finish
  <1>3. CASE Timeout
    <2>1. Finish(Outcome("timeout", <<>>))
      BY <1>3 DEF Timeout
    <2>2. Outcome("timeout", <<>>).kind = "timeout"
      BY DEF Outcome
    <2> QED BY <2>1, <2>2, FinishMeans DEF Finish
  <1>4. CASE ReadEOF
    <2>1. Finish(Outcome("eof", <<>>))
      BY <1>4 DEF ReadEOF
    <2>2. Outcome("eof", <<>>).kind = "eof"
      BY DEF Outcome
    <2> QED BY <2>1, <2>2, FinishMeans DEF Finish
  <1> QED BY <1>1, <1>2, <1>3, <1>4

LEMMA ServeMeans ==
    ASSUME IInv, MInv, NEW k \in Conns, Serve(k)
    PROVE  MInv'
  <1>1. PICK r \in Request, resp \in Seq(Byte) :
              /\ 1 \in 1..Len(requests[k]) /\ r = requests[k][1]
              /\ WellFormed(r.call) /\ QuantityOK(r.call)
              /\ mem' = Written(mem, r.call)
              /\ requests' = [requests EXCEPT ![k] = Tail(requests[k])]
              /\ resp # <<>> /\ Interpret(r.call, resp) = Meant(mem, r.call)
              /\ answer' = IF pc # "idle" /\ r.n = n THEN resp ELSE answer
              /\ UNCHANGED <<conn, txID, pc, n, call, pduLen, dials, link, clean, last>>
    BY ServeStep
  <1>2. PICK rest : rest = Tail(requests[k])
    OBVIOUS
  <1>3. requests[k] \in Seq(Request) /\ requests[k] # <<>>
    BY DEF Serve, IInv, TypeOK
  <1>4. /\ rest \in Seq(Request) /\ Len(rest) + 1 = Len(requests[k])
        /\ \A i \in 1..Len(rest) : rest[i] = requests[k][i + 1]
    BY <1>2, <1>3, HeadTailProperties
  <1>5. OwnNumber' /\ Distinct'
    <2>1. requests' = [requests EXCEPT ![k] = rest] /\ UNCHANGED <<n, call>>
      BY <1>1, <1>2
    <2>2. OwnNumber /\ Distinct
      BY DEF MInv
    <2> QED BY <1>4, <2>1, <2>2, QueueShrinks
  <1>6. AnswerMeant'
    <2>1. CASE pc # "idle" /\ r.n = n
      <3>1. r.call = call
        BY <1>1, <2>1 DEF MInv, OwnNumber
      <3>2. mem \in Memory
        BY DEF IInv, TypeOK
      <3> QED BY <1>1, <2>1, <3>1, <3>2 DEF AnswerMeant
    <2>2. CASE ~(pc # "idle" /\ r.n = n)
      BY <1>1, <2>2 DEF MInv, AnswerMeant
    <2> QED BY <2>1, <2>2
  <1>7. KeptClean' /\ FramingHolds'
    BY <1>1 DEF MInv, KeptClean, FramingHolds
  <1> QED BY <1>5, <1>6, <1>7 DEF MInv

LEMMA SilentMeans ==
    ASSUME IInv, MInv, NEW k \in Conns, RequestLost(k) \/ AnswerLost(k)
    PROVE  MInv'
  <1>1. /\ requests[k] \in Seq(Request) /\ requests[k] # <<>>
        /\ requests' = [requests EXCEPT ![k] = Tail(requests[k])]
        /\ UNCHANGED <<conn, txID, pc, n, call, pduLen, dials, stream, link, answer, clean, last>>
    BY DEF RequestLost, AnswerLost, Unanswered, clientVars, IInv, TypeOK
  <1>2. PICK rest : rest = Tail(requests[k])
    OBVIOUS
  <1>3. /\ rest \in Seq(Request) /\ Len(rest) + 1 = Len(requests[k])
        /\ \A i \in 1..Len(rest) : rest[i] = requests[k][i + 1]
    BY <1>1, <1>2, HeadTailProperties
  <1>4. OwnNumber' /\ Distinct'
    <2>1. requests' = [requests EXCEPT ![k] = rest] /\ UNCHANGED <<n, call>>
      BY <1>1, <1>2
    <2>2. OwnNumber /\ Distinct
      BY DEF MInv
    <2> QED BY <1>3, <2>1, <2>2, QueueShrinks
  <1>5. AnswerMeant' /\ KeptClean' /\ FramingHolds'
    BY <1>1 DEF MInv, AnswerMeant, KeptClean, FramingHolds
  <1> QED BY <1>4, <1>5 DEF MInv

LEMMA DropMeans ==
    ASSUME IInv, MInv, NEW k \in Conns, Drop(k)
    PROVE  MInv'
  <1>1. /\ requests' = [requests EXCEPT ![k] = <<>>]
        /\ UNCHANGED <<conn, txID, pc, n, call, pduLen, dials, mem, answer, clean, last>>
    BY DEF Drop, clientVars
  <1>2. OwnNumber' /\ Distinct'
    <2>1. PICK rest : rest = <<>>
      OBVIOUS
    <2>2. PICK d : d = Len(requests[k])
      OBVIOUS
    <2>3. rest \in Seq(Request) /\ d \in Nat /\ Len(rest) + d = Len(requests[k])
      BY <2>1, <2>2, LenProperties DEF IInv, TypeOK
    <2>4. \A i \in 1..Len(rest) : rest[i] = requests[k][i + d]
      BY <2>1
    <2>5. requests' = [requests EXCEPT ![k] = rest] /\ UNCHANGED <<n, call>>
      BY <1>1, <2>1
    <2> QED BY <2>3, <2>4, <2>5, QueueShrinks DEF MInv
  <1>3. AnswerMeant' /\ KeptClean' /\ FramingHolds'
    BY <1>1 DEF MInv, AnswerMeant, KeptClean, FramingHolds
  <1> QED BY <1>2, <1>3 DEF MInv

LEMMA MeansInvariance == Spec => [](IInv /\ MInv)
  <1>1. Init => MInv
    BY DEF Init, MInv, OwnNumber, Distinct, AnswerMeant, KeptClean, FramingHolds
  <1>2. ASSUME IInv, MInv, [Next]_vars
        PROVE  MInv'
    <2>1. CASE Connect \/ Close
      BY <1>2, <2>1 DEF Connect, Close, MInv, OwnNumber, Distinct, AnswerMeant, KeptClean,
                        FramingHolds
    <2>2. ASSUME NEW c \in Calls,
                 RefuseCall(c) \/ SendRequest(c) \/ SendIntoClosed(c) \/ WriteError(c)
          PROVE  MInv'
      BY <1>2, <2>2, BeginMeans
    <2>3. CASE ReadHeader \/ ReadPDU \/ Timeout \/ ReadEOF
      BY <1>2, <2>3, ReadMeansStep
    <2>4. ASSUME NEW k \in Conns, Serve(k) \/ RequestLost(k) \/ AnswerLost(k) \/ Drop(k)
          PROVE  MInv'
      BY <1>2, <2>4, ServeMeans, SilentMeans, DropMeans
    <2>5. CASE UNCHANGED vars
      BY <1>2, <2>5 DEF vars, MInv, OwnNumber, Distinct, AnswerMeant, KeptClean, FramingHolds
    <2> QED BY <1>2, <2>1, <2>2, <2>3, <2>4, <2>5 DEF Next
  <1> QED BY <1>1, <1>2, Invariance, PTL DEF Spec

(* On a connection on which no sent call has failed, no framing check of   *)
(* do ever fires: whatever the device holds and whatever is asked, header, *)
(* transaction number, function code and data fit the call (client.go, do; *)
(* pdu.go against mock/server.go).                                         *)
THEOREM FramingIsSound == Spec => []FramingHolds
  BY MeansInvariance, PTL DEF MInv

-----------------------------------------------------------------------------
(***************************************************************************)
(* The refinement: for callers that give a connection up after a failed    *)
(* call, every step of the client, the network and the device is a step of *)
(* RegisterBank, or none.                                                  *)
(***************************************************************************)

(* The register bank's words are the device's. *)
LEMMA BankWords ==
    /\ \A kind, vals : Bank!Outcome(kind, vals) = Outcome(kind, vals)
    /\ \A fc : Bank!TableOf(fc) = TableOf(fc)
    /\ \A t, a, q : Bank!Slice(t, a, q) = Slice(t, a, q)
    /\ \A m, t, a, v : Bank!Overwrite(m, t, a, v) = Overwrite(m, t, a, v)
    /\ Bank!Writes = Writes
    /\ Bank!exIllegalAddress = exIllegalAddress
  <1>1. \A kind, vals : Bank!Outcome(kind, vals) = Outcome(kind, vals)
    BY DEF Bank!Outcome, Outcome
  <1>2. /\ Bank!CoilWrites = CoilWrites /\ Bank!Writes = Writes
        /\ Bank!FuncReadCoils = FuncReadCoils
        /\ Bank!FuncReadDiscreteInputs = FuncReadDiscreteInputs
        /\ Bank!FuncReadInputRegisters = FuncReadInputRegisters
    BY DEF Bank!CoilWrites, CoilWrites, Bank!Writes, Writes,
           Bank!SingleWrites, SingleWrites, Bank!MultiWrites, MultiWrites,
           Bank!FuncWriteSingleCoil, FuncWriteSingleCoil,
           Bank!FuncWriteSingleRegister, FuncWriteSingleRegister,
           Bank!FuncWriteMultipleCoils, FuncWriteMultipleCoils,
           Bank!FuncWriteMultipleRegisters, FuncWriteMultipleRegisters,
           Bank!FuncReadCoils, FuncReadCoils,
           Bank!FuncReadDiscreteInputs, FuncReadDiscreteInputs,
           Bank!FuncReadInputRegisters, FuncReadInputRegisters
  <1>3. \A fc : Bank!TableOf(fc) = TableOf(fc)
    BY <1>2 DEF Bank!TableOf, TableOf
  <1>4. \A t, a, q : Bank!Slice(t, a, q) = Slice(t, a, q)
    BY DEF Bank!Slice, Slice
  <1>5. \A m, t, a, v : Bank!Overwrite(m, t, a, v) = Overwrite(m, t, a, v)
    BY DEF Bank!Overwrite, Overwrite, Bank!Addresses, Addresses
  <1>6. Bank!exIllegalAddress = exIllegalAddress
    BY DEF Bank!exIllegalAddress, exIllegalAddress
  <1> QED BY <1>1, <1>2, <1>3, <1>4, <1>5, <1>6

LEMMA BankMeans ==
    ASSUME NEW m, NEW c
    PROVE  Bank!After(m, c) = Written(m, c) /\ Bank!ReplyTo(m, c) = Meant(m, c)
  BY BankWords DEF Bank!After, Bank!ReplyTo, Bank!Fits, Written, Meant, InTable

LEMMA BankNothing ==
    /\ Bank!NoCall = [n |-> 0]
    /\ Bank!NoReply = Outcome("none", <<>>)
    /\ Bank!Failure = Outcome("failed", <<>>)
  BY BankWords DEF Bank!NoCall, Bank!NoReply, Bank!Failure

(* What is on its way, element by element. *)
LEMMA OnTheWayIs ==
    ASSUME NEW p
    PROVE  p \in OnTheWay <=> \E k \in Conns : \E i \in 1..Len(requests[k]) :
                                 p = [n |-> requests[k][i].n, call |-> requests[k][i].call]
  BY DEF OnTheWay

(* A result the caller is given, as the register bank knows it. *)
LEMMA ResultNow ==
    ASSUME NEW outcome, last' = Result(n, outcome) \/ last' = Result(n + 1, outcome),
           outcome = Outcome(outcome.kind, outcome.vals)
    PROVE  LastNow' = IF outcome.kind \in Answered \union {"none"} THEN outcome
                      ELSE Outcome("failed", <<>>)
  BY DEF LastNow, Result

LEMMA BusyNow ==
    ASSUME IInv, pc # "idle"
    PROVE  CallNow = [n |-> n, call |-> call] /\ CallNow # Bank!NoCall
  <1>1. CallNow = [n |-> n, call |-> call]
    BY DEF CallNow
  <1>2. [n |-> n, call |-> call] # [n |-> 0]
    <2>1. "call" \in DOMAIN [n |-> n, call |-> call] /\ "call" \notin DOMAIN [n |-> 0]
      OBVIOUS
    <2> QED BY <2>1
  <1> QED BY <1>1, <1>2, BankNothing

LEMMA BankInit == Init => Bank!Init
  <1> SUFFICES ASSUME Init PROVE Bank!Init
    OBVIOUS
  <1>1. OnTheWay = {}
    <2>1. \A k \in Conns : Len(requests[k]) = 0
      BY DEF Init
    <2> QED BY <2>1, OnTheWayIs
  <1>2. CallNow = Bank!NoCall /\ ReplyNow = Bank!NoReply /\ LastNow = Bank!NoReply
    BY BankNothing DEF Init, CallNow, ReplyNow, LastNow
  <1> QED BY <1>1, <1>2 DEF Init, Bank!Init

(* A call turned down before anything is sent is rejected. *)
LEMMA RejectStep ==
    ASSUME IInv, NEW c \in Calls, RefuseCall(c) \/ WriteError(c)
    PROVE  Bank!Reject
  <1>1. Begin(c) /\ pc' = pc /\ requests' = requests
    BY DEF RefuseCall, WriteError, CanSend
  <1>2. CallNow = Bank!NoCall /\ CallNow' = CallNow
    BY <1>1, BankNothing DEF Begin, CallNow
  <1>3. OnTheWay' = OnTheWay
    BY <1>1 DEF OnTheWay
  <1>4. ReplyNow' = Bank!NoReply
    BY <1>1, BankNothing DEF Begin, ReplyNow
  <1>5. LastNow' = Bank!Failure
    <2>1. \E kind \in {"notConnected", "limit", "write"} :
             last' = Result(n + 1, Outcome(kind, <<>>))
      BY DEF RefuseCall, WriteError
    <2>2. PICK kind \in {"notConnected", "limit", "write"} :
             last' = Result(n + 1, Outcome(kind, <<>>))
      BY <2>1
    <2>3. kind \notin Answered \union {"none"}
      BY DEF Answered
    <2>4. Outcome(kind, <<>>).kind = kind /\ Outcome(kind, <<>>).vals = <<>>
      BY DEF Outcome
    <2>5. LastNow' = Outcome("failed", <<>>)
      BY <2>2, <2>3, <2>4, ResultNow
    <2> QED BY <2>5, BankNothing
  <1> QED BY <1>1, <1>2, <1>3, <1>4, <1>5 DEF Begin, Bank!Reject

(* A call whose request goes out, or nowhere, is invoked. *)
LEMMA InvokeStep ==
    ASSUME IInv, NEW c \in Calls, SendRequest(c) \/ SendIntoClosed(c)
    PROVE  Bank!Invoke(c)
  <1>1. Begin(c) /\ pc' = "header" /\ last' = last
    BY DEF SendRequest, SendIntoClosed, CanSend
  <1>2. CallNow = Bank!NoCall /\ CallNow' = [n |-> n + 1, call |-> c]
    BY <1>1, BankNothing DEF Begin, CallNow
  <1>3. ReplyNow' = Bank!NoReply /\ LastNow' = LastNow
    BY <1>1, BankNothing DEF Begin, ReplyNow, LastNow
  <1>4. OnTheWay' \in {OnTheWay, OnTheWay \union {CallNow'}}
    <2>1. CASE requests' = requests
      BY <2>1 DEF OnTheWay
    <2>2. CASE SendRequest(c)
      <3>1. PICK r : r = [n |-> n + 1, call |-> c,
                          frame |-> Frame(nextTxID, UnitID, RequestPDU(c))]
        OBVIOUS
      <3>2. requests' = [requests EXCEPT ![conn] = Append(requests[conn], r)]
        BY <2>2, <3>1 DEF SendRequest
      <3>3. requests \in [Conns -> Seq(Request)] /\ conn \in Conns
        BY <2>2, BoundsAssumption DEF SendRequest, CanSend, IInv, TypeOK, Conns
      <3>4. PICK q \in Seq(Request) : q = requests[conn]
        BY <3>3
      <3>5. /\ \A j \in Conns : j # conn => requests'[j] = requests[j]
            /\ requests'[conn] = Append(q, r)
        BY <3>2, <3>3, <3>4
      <3>6. /\ Len(Append(q, r)) = Len(q) + 1 /\ Len(q) \in Nat
            /\ Append(q, r)[Len(q) + 1] = r
            /\ \A i \in 1..Len(q) : Append(q, r)[i] = q[i]
        OBVIOUS
      <3>7. [n |-> r.n, call |-> r.call] = CallNow'
        BY <1>2, <3>1
      <3>8. ASSUME NEW p, p \in OnTheWay
            PROVE  p \in OnTheWay'
        <4>1. PICK k \in Conns : \E i \in 1..Len(requests[k]) :
                      p = [n |-> requests[k][i].n, call |-> requests[k][i].call]
          BY <3>8, OnTheWayIs
        <4>2. PICK i \in 1..Len(requests[k]) :
                      p = [n |-> requests[k][i].n, call |-> requests[k][i].call]
          BY <4>1
        <4>3. i \in 1..Len(requests'[k]) /\ requests'[k][i] = requests[k][i]
          <5>1. CASE k # conn
            BY <5>1, <3>5
          <5>2. CASE k = conn
            BY <5>2, <3>4, <3>5, <3>6
          <5> QED BY <5>1, <5>2
        <4> QED BY <4>2, <4>3 DEF OnTheWay
      <3>9. CallNow' \in OnTheWay'
        <4>1. /\ Len(q) + 1 \in 1..Len(requests'[conn])
              /\ requests'[conn][Len(q) + 1] = r
          BY <3>5, <3>6
        <4> QED BY <3>3, <3>7, <4>1 DEF OnTheWay
      <3>10. ASSUME NEW p, p \in OnTheWay', p # CallNow'
             PROVE  p \in OnTheWay
        <4>1. PICK k \in Conns : \E i \in 1..Len(requests'[k]) :
                      p = [n |-> requests'[k][i].n, call |-> requests'[k][i].call]
          BY <3>10 DEF OnTheWay
        <4>2. PICK i \in 1..Len(requests'[k]) :
                      p = [n |-> requests'[k][i].n, call |-> requests'[k][i].call]
          BY <4>1
        <4>3. i \in 1..Len(requests[k]) /\ requests'[k][i] = requests[k][i]
          <5>1. CASE k # conn
            BY <5>1, <3>5
          <5>2. CASE k = conn
            <6>1. i \in 1..(Len(q) + 1)
              BY <5>2, <3>5, <3>6
            <6>2. i # Len(q) + 1
              BY <5>2, <3>5, <3>6, <3>7, <3>10, <4>2
            <6>3. i \in 1..Len(q)
              BY <6>1, <6>2, <3>6
            <6> QED BY <5>2, <6>3, <3>4, <3>5, <3>6
          <5> QED BY <5>1, <5>2
        <4> QED BY <4>2, <4>3, OnTheWayIs
      <3> QED BY <3>8, <3>9, <3>10
    <2> QED BY <2>1, <2>2 DEF SendIntoClosed
  <1> QED BY <1>1, <1>2, <1>3, <1>4 DEF Begin, Bank!Invoke

(* A call that was sent ends: with the register bank's reply, or failed.   *)
LEMMA FailStep ==
    ASSUME IInv, pc # "idle", NEW outcome, Finish(outcome),
           outcome = Outcome(outcome.kind, outcome.vals),
           outcome.kind \notin Answered \union {"none"}
    PROVE  Bank!Fail
  <1>1. CallNow # Bank!NoCall /\ CallNow' = Bank!NoCall
    BY BusyNow, BankNothing DEF Finish, CallNow
  <1>2. LastNow' = Bank!Failure
    BY ResultNow, BankNothing DEF Finish
  <1> QED BY <1>1, <1>2 DEF Finish, OnTheWay, ReplyNow, Bank!Fail

LEMMA ReturnStep ==
    ASSUME IInv, MInv, clean, ReadPDU
    PROVE  Bank!Return
  <1>1. PICK out : out = Interpret(call, answer)
    OBVIOUS
  <1>2. answer # <<>> /\ Finish(out)
    BY <1>1, CleanAnswer, AnswerPDU DEF ReadPDU
  <1>3. out.kind \in Answered /\ out = Outcome(out.kind, out.vals)
    BY <1>1, <1>2, MeantKind DEF MInv, AnswerMeant
  <1>4. ReplyNow = out /\ ReplyNow' = ReplyNow
    BY <1>1, <1>2 DEF Finish, ReplyNow
  <1>5. out # Bank!NoReply
    BY <1>3, BankNothing DEF Outcome, Answered
  <1>6. LastNow' = out
    BY <1>2, <1>3, ResultNow DEF Finish
  <1>7. CallNow # Bank!NoCall /\ CallNow' = Bank!NoCall
    BY <1>2, BusyNow, BankNothing DEF ReadPDU, Finish, CallNow
  <1> QED BY <1>2, <1>4, <1>5, <1>6, <1>7 DEF Finish, OnTheWay, Bank!Return

LEMMA ReadStep ==
    ASSUME IInv, MInv, ~ReuseAfterError, ReadHeader \/ ReadPDU \/ Timeout \/ ReadEOF
    PROVE  [Bank!Next]_(Bank!bankVars)
  <1>1. pc # "idle" /\ clean
    BY DEF ReadHeader, ReadPDU, Timeout, ReadEOF, MInv, KeptClean
  <1>2. CASE ReadHeader
    <2>1. /\ pc = "header" /\ pc' = "pdu"
          /\ UNCHANGED <<n, call, requests, mem, answer, last>>
      BY <1>1, <1>2, CleanAnswer, AnswerHeader DEF ReadHeader
    <2> QED BY <2>1 DEF Bank!bankVars, CallNow, OnTheWay, ReplyNow, LastNow
  <1>3. CASE ReadPDU
    BY <1>1, <1>3, ReturnStep DEF Bank!Next
  <1>4. CASE Timeout \/ ReadEOF
    <2>1. PICK kind \in {"timeout", "eof"} : Finish(Outcome(kind, <<>>))
      BY <1>4 DEF Timeout, ReadEOF
    <2>2. /\ Outcome(kind, <<>>).kind = kind /\ Outcome(kind, <<>>).vals = <<>>
          /\ kind \notin Answered \union {"none"}
      BY DEF Outcome, Answered
    <2> QED BY <1>1, <2>1, <2>2, FailStep DEF Bank!Next
  <1> QED BY <1>2, <1>3, <1>4

(* A request that is taken up is not on its way any more, and only that. *)
LEMMA OneLess ==
    ASSUME IInv, Distinct, NEW k \in Conns, requests[k] # <<>>, 1 \in 1..Len(requests[k]),
           NEW p, p = [n |-> requests[k][1].n, call |-> requests[k][1].call],
           requests' = [requests EXCEPT ![k] = Tail(requests[k])]
    PROVE  p \in OnTheWay /\ OnTheWay' = OnTheWay \ {p}
  <1>1. p \in OnTheWay /\ p.n = requests[k][1].n
    BY OnTheWayIs
  <1>2. requests \in [Conns -> Seq(Request)] /\ requests[k] # <<>>
    BY DEF IInv, TypeOK
  <1>3. PICK q \in Seq(Request) : q = requests[k]
    BY <1>2
  <1>4. /\ \A j \in Conns : j # k => requests'[j] = requests[j]
        /\ requests'[k] = Tail(q)
    BY <1>2, <1>3
  <1>5. /\ Len(Tail(q)) + 1 = Len(q) /\ Len(Tail(q)) \in Nat
        /\ \A i \in 1..Len(Tail(q)) : Tail(q)[i] = q[i + 1]
    BY <1>2, <1>3, HeadTailProperties, LenProperties
  <1>6. ASSUME NEW x, x \in OnTheWay'
         PROVE  x \in OnTheWay /\ x # p
    <2>1. PICK j \in Conns : \E i \in 1..Len(requests'[j]) :
                  x = [n |-> requests'[j][i].n, call |-> requests'[j][i].call]
      BY <1>6 DEF OnTheWay
    <2>2. PICK i \in 1..Len(requests'[j]) :
                  x = [n |-> requests'[j][i].n, call |-> requests'[j][i].call]
      BY <2>1
    <2>3. PICK l \in 1..Len(requests[j]) :
                  requests'[j][i] = requests[j][l] /\ ~(j = k /\ l = 1)
      <3>1. CASE j # k
        BY <3>1, <1>4
      <3>2. CASE j = k
        <4>1. i \in 1..Len(Tail(q))
          BY <3>2, <1>4
        <4>2. i + 1 \in 1..Len(q) /\ i + 1 # 1
          BY <4>1, <1>5
        <4>3. requests'[j][i] = q[i + 1]
          BY <3>2, <4>1, <1>4, <1>5
        <4> QED BY <3>2, <4>2, <4>3, <1>3
      <3> QED BY <3>1, <3>2
    <2>4. x \in OnTheWay
      BY <2>2, <2>3, OnTheWayIs
    <2>5. requests[j][l].n # requests[k][1].n
      <3>1. Distinct /\ l \in 1..Len(requests[j]) /\ 1 \in 1..Len(requests[k])
        OBVIOUS
      <3> QED BY <2>3, <3>1 DEF Distinct
    <2>6. x.n = requests[j][l].n
      BY <2>2, <2>3
    <2> QED BY <2>4, <2>5, <2>6, <1>1
  <1>7. ASSUME NEW x, x \in OnTheWay, x # p
         PROVE  x \in OnTheWay'
    <2>1. PICK j \in Conns : \E i \in 1..Len(requests[j]) :
                  x = [n |-> requests[j][i].n, call |-> requests[j][i].call]
      BY <1>7, OnTheWayIs
    <2>2. PICK i \in 1..Len(requests[j]) :
                  x = [n |-> requests[j][i].n, call |-> requests[j][i].call]
      BY <2>1
    <2>3. PICK l \in 1..Len(requests'[j]) : requests'[j][l] = requests[j][i]
      <3>1. CASE j # k
        BY <3>1, <1>4
      <3>2. CASE j = k
        <4>1. i # 1
          BY <3>2, <2>2, <1>7
        <4>2. i \in 1..Len(q)
          BY <3>2, <1>3
        <4>3. i - 1 \in 1..Len(Tail(q)) /\ (i - 1) + 1 = i
          BY <4>1, <4>2, <1>5
        <4>4. Tail(q)[i - 1] = q[i]
          BY <4>3, <1>5
        <4> QED BY <3>2, <4>3, <4>4, <1>3, <1>4
      <3> QED BY <3>1, <3>2
    <2>4. PICK S : S = { [n |-> requests'[j][b].n, call |-> requests'[j][b].call] :
                           b \in 1..Len(requests'[j]) }
      OBVIOUS
    <2>5. x \in S
      BY <2>2, <2>3, <2>4
    <2>6. S \in { { [n |-> requests'[a][b].n, call |-> requests'[a][b].call] :
                     b \in 1..Len(requests'[a]) } : a \in Conns }
      BY <2>4
    <2> QED BY <2>5, <2>6 DEF OnTheWay
  <1> QED BY <1>1, <1>6, <1>7

(* The device takes a request up: the call takes effect, once. *)
LEMMA ApplyStep ==
    ASSUME IInv, MInv, NEW k \in Conns, Serve(k)
    PROVE  Bank!Apply
  <1>1. PICK r \in Request, resp \in Seq(Byte) :
              /\ 1 \in 1..Len(requests[k]) /\ r = requests[k][1]
              /\ WellFormed(r.call) /\ QuantityOK(r.call)
              /\ mem' = Written(mem, r.call)
              /\ requests' = [requests EXCEPT ![k] = Tail(requests[k])]
              /\ resp # <<>> /\ Interpret(r.call, resp) = Meant(mem, r.call)
              /\ answer' = IF pc # "idle" /\ r.n = n THEN resp ELSE answer
              /\ UNCHANGED <<conn, txID, pc, n, call, pduLen, dials, link, clean, last>>
    BY ServeStep
  <1>2. PICK p : p = [n |-> r.n, call |-> r.call]
    OBVIOUS
  <1>3. p.n = r.n /\ p.call = r.call
    BY <1>2
  <1>4. p \in OnTheWay /\ OnTheWay' = OnTheWay \ {p}
    <2>1. requests[k] # <<>>
      BY DEF Serve
    <2> QED BY <1>1, <1>2, <2>1, OneLess DEF MInv
  <1>5. UNCHANGED <<CallNow, LastNow, n>>
    BY <1>1 DEF CallNow, LastNow
  <1>6. mem' = Bank!After(mem, p.call)
    BY <1>1, <1>3, BankMeans
  <1>7. \/ p = CallNow /\ ReplyNow' = Bank!ReplyTo(mem, p.call)
        \/ ReplyNow' = ReplyNow
    <2>1. CASE pc # "idle" /\ r.n = n
      <3>1. r.call = call
        BY <1>1, <2>1 DEF MInv, OwnNumber
      <3>2. p = CallNow
        BY <1>2, <2>1, <3>1 DEF CallNow
      <3>3. ReplyNow' = Meant(mem, r.call)
        BY <1>1, <2>1, <3>1 DEF ReplyNow
      <3> QED BY <1>3, <3>2, <3>3, BankMeans
    <2>2. CASE ~(pc # "idle" /\ r.n = n)
      <3>1. p # CallNow
        <4>1. CASE pc = "idle"
          <5>1. CallNow = [n |-> 0]
            BY <4>1 DEF CallNow
          <5>2. "call" \in DOMAIN p /\ "call" \notin DOMAIN [n |-> 0]
            BY <1>2
          <5> QED BY <5>1, <5>2
        <4>2. CASE pc # "idle"
          <5>1. CallNow.n = n
            BY <4>2 DEF CallNow
          <5> QED BY <1>3, <2>2, <4>2, <5>1
        <4> QED BY <4>1, <4>2
      <3> QED BY <1>1, <2>2, <3>1 DEF ReplyNow
    <2> QED BY <2>1, <2>2
  <1> QED BY <1>4, <1>5, <1>6, <1>7 DEF Bank!Apply

(* The device is silent: the call takes effect, or is lost, without a reply. *)
LEMMA SilentStep ==
    ASSUME IInv, MInv, NEW k \in Conns, RequestLost(k) \/ AnswerLost(k)
    PROVE  Bank!Apply \/ Bank!Lose
  <1>1. /\ requests[k] # <<>>
        /\ requests' = [requests EXCEPT ![k] = Tail(requests[k])]
        /\ UNCHANGED <<conn, txID, pc, n, call, pduLen, dials, stream, link, answer, clean, last>>
    BY DEF RequestLost, AnswerLost, Unanswered, clientVars
  <1>2. PICK r \in Request, resp \in Seq(Byte) :
              /\ 1 \in 1..Len(requests[k]) /\ r = requests[k][1] /\ r = Head(requests[k])
              /\ WellFormed(r.call) /\ QuantityOK(r.call)
              /\ Handled(k).mem \in Memory /\ Handled(k).mem = Written(mem, r.call)
              /\ Handled(k).resp = resp
              /\ resp # <<>> /\ Interpret(r.call, resp) = Meant(mem, r.call)
    BY <1>1, HandledMeans
  <1>3. PICK p : p = [n |-> r.n, call |-> r.call]
    OBVIOUS
  <1>4. p \in OnTheWay /\ OnTheWay' = OnTheWay \ {p} /\ p.call = r.call
    BY <1>1, <1>2, <1>3, OneLess DEF MInv
  <1>5. UNCHANGED <<CallNow, ReplyNow, LastNow, n>>
    BY <1>1 DEF CallNow, ReplyNow, LastNow
  <1>6. CASE RequestLost(k)
    <2>1. mem' = mem
      BY <1>6 DEF RequestLost
    <2>2. {p} \in SUBSET OnTheWay
      BY <1>4
    <2> QED BY <1>4, <1>5, <2>1, <2>2 DEF Bank!Lose
  <1>7. CASE AnswerLost(k)
    <2>1. mem' = Bank!After(mem, p.call)
      BY <1>2, <1>4, <1>7, BankMeans DEF AnswerLost
    <2> QED BY <1>4, <1>5, <2>1 DEF Bank!Apply
  <1> QED BY <1>6, <1>7

(* A connection ends: what it carried is lost. *)
LEMMA LoseStep ==
    ASSUME IInv, NEW k \in Conns, Drop(k)
    PROVE  Bank!Lose
  <1>1. /\ requests' = [requests EXCEPT ![k] = <<>>]
        /\ UNCHANGED <<conn, txID, pc, n, call, pduLen, dials, mem, answer, clean, last>>
    BY DEF Drop, clientVars
  <1>2. /\ \A j \in Conns : j # k => requests'[j] = requests[j]
        /\ requests'[k] = <<>>
    BY <1>1 DEF IInv, TypeOK
  <1>3. ASSUME NEW x, x \in OnTheWay'
        PROVE  x \in OnTheWay
    <2>1. PICK j \in Conns : \E i \in 1..Len(requests'[j]) :
                  x = [n |-> requests'[j][i].n, call |-> requests'[j][i].call]
      BY <1>3 DEF OnTheWay
    <2>2. j # k
      BY <2>1, <1>2
    <2> QED BY <2>1, <2>2, <1>2, OnTheWayIs
  <1>4. PICK S : S = OnTheWay \ OnTheWay'
    OBVIOUS
  <1>5. S \in SUBSET OnTheWay /\ OnTheWay' = OnTheWay \ S
    BY <1>3, <1>4
  <1>6. UNCHANGED <<mem, n, CallNow, ReplyNow, LastNow>>
    BY <1>1 DEF CallNow, ReplyNow, LastNow
  <1> QED BY <1>5, <1>6 DEF Bank!Lose

(* Callers that give a connection up after a failed call work with a       *)
(* register bank: a call that returns a result took effect exactly once,   *)
(* between its start and its end, and the result is what the tables held   *)
(* for it at that moment; one that failed takes effect at most once, maybe *)
(* later.  For every set of calls and every number of connections, drops,  *)
(* timeouts and late requests (client.go against mock/server.go).          *)
THEOREM ClientIsRegisterBank == ~ReuseAfterError => (Spec => ImplementsRegisterBank)
  <1> SUFFICES ASSUME ~ReuseAfterError
               PROVE  Spec => ImplementsRegisterBank
    OBVIOUS
  <1>1. ASSUME IInv, MInv, [Next]_vars
        PROVE  [Bank!Next]_(Bank!bankVars)
    <2>1. CASE Connect \/ Close
      BY <2>1 DEF Connect, Close, Bank!bankVars, CallNow, OnTheWay, ReplyNow, LastNow
    <2>2. ASSUME NEW c \in Calls, RefuseCall(c) \/ WriteError(c)
          PROVE  Bank!Next
      BY <1>1, <2>2, RejectStep DEF Bank!Next
    <2>3. ASSUME NEW c \in Calls, SendRequest(c) \/ SendIntoClosed(c)
          PROVE  Bank!Next
      BY <1>1, <2>3, InvokeStep DEF Bank!Next
    <2>4. CASE ReadHeader \/ ReadPDU \/ Timeout \/ ReadEOF
      BY <1>1, <2>4, ReadStep
    <2>5. ASSUME NEW k \in Conns, Serve(k) \/ RequestLost(k) \/ AnswerLost(k) \/ Drop(k)
          PROVE  Bank!Next
      BY <1>1, <2>5, ApplyStep, SilentStep, LoseStep DEF Bank!Next
    <2>6. CASE UNCHANGED vars
      BY <2>6 DEF vars, Bank!bankVars, CallNow, OnTheWay, ReplyNow, LastNow
    <2> QED BY <1>1, <2>1, <2>2, <2>3, <2>4, <2>5, <2>6 DEF Next
  <1> QED BY <1>1, BankInit, MeansInvariance, PTL DEF Spec, ImplementsRegisterBank, Bank!Spec

-----------------------------------------------------------------------------
(***************************************************************************)
(* After a failure.  What is left of the failed call's exchange is read    *)
(* by the next call, and what that leaves by the one after it, always from *)
(* where the last read stopped: in the middle of a frame, as a rule.  What *)
(* is read there as a header is in truth a piece of an answer, and it can  *)
(* have the right number only if the answers happen to hold such bytes.    *)
(***************************************************************************)

(* From its i-th byte on, s reads as a header that do would accept, but    *)
(* for the number; or it would, if what comes after s were such.           *)
HeaderAt(s, i) ==
    s[i + 2] = 0 /\ s[i + 3] = 0 /\ s[i + 4] = 0 /\ s[i + 5] \in 2..254

MayBeHeader(s, i) == /\ s[i + 2] = 0 /\ s[i + 3] = 0
                     /\ i + 4 <= Len(s) => s[i + 4] = 0
                     /\ i + 5 <= Len(s) => s[i + 5] \in 2..254

(* An answer, with the unit byte before it, is unmistakable when no number *)
(* a call can have stands in it where that of a header would.              *)
Unmistakable(pdu) ==
    LET b == <<UnitID>> \o pdu
    IN  \A i \in 1..(Len(b) - 3) : MayBeHeader(b, i) => WordAt(b, i) \notin 1..MaxCalls

(* No answer the device could give now can be mistaken.                    *)
AnswersUnmistakable ==
    \A c \in Calls : QuantityOK(c) => Unmistakable(Dispatch(mem, RequestPDU(c)).resp)

Old(w, m) == w <= m \/ w > MaxCalls

(* Whatever reads as a header in s has a number up to m, or one no call    *)
(* has; and so it will be when a frame follows s.                          *)
OnlyOld(s, m)      == \A i \in 1..(Len(s) - 5) : HeaderAt(s, i) => Old(WordAt(s, i), m)
OnlyOldSoFar(s, m) == \A i \in 1..(Len(s) - 3) : MayBeHeader(s, i) => Old(WordAt(s, i), m)

(***************************************************************************)
(* Bytes.                                                                  *)
(***************************************************************************)
LEMMA FieldBytes ==
    ASSUME NEW s \in Seq(Byte), 7 <= Len(s)
    PROVE  \E a \in 0..255, b \in 0..255, c \in 0..255, d \in 0..255 :
              a = s[3] /\ b = s[4] /\ c = s[5] /\ d = s[6]
  <1>1. 3 \in 1..Len(s) /\ 4 \in 1..Len(s) /\ 5 \in 1..Len(s) /\ 6 \in 1..Len(s)
    BY LenProperties
  <1>2. s[3] \in Byte /\ s[4] \in Byte /\ s[5] \in Byte /\ s[6] \in Byte
    BY <1>1, ElementOfSeq
  <1> QED BY <1>2, Zenon DEF Byte

LEMMA HeaderRead ==
    ASSUME NEW s \in Seq(Byte), mbapLen <= Len(s), DecodeMBAP(s).ok
    PROVE  HeaderAt(s, 1) /\ DecodeMBAP(s).tx = WordAt(s, 1)
  <1>1. 7 <= Len(s)
    BY DEF mbapLen
  <1>2. PICK a \in 0..255, b \in 0..255, c \in 0..255, d \in 0..255 :
           a = s[3] /\ b = s[4] /\ c = s[5] /\ d = s[6]
    BY <1>1, FieldBytes
  <1>3. a * 256 + b = 0 /\ c * 256 + d >= 2 /\ c * 256 + d - 1 <= 253
    BY <1>2 DEF DecodeMBAP, WordAt, protocolID, maxPDU
  <1>4. a = 0 /\ b = 0 /\ c = 0 /\ d \in 2..254
    BY <1>3
  <1>5. HeaderAt(s, 1)
    <2>1. s[1 + 2] = 0 /\ s[1 + 3] = 0 /\ s[1 + 4] = 0 /\ s[1 + 5] \in 2..254
      <3>1. 1 + 2 = 3 /\ 1 + 3 = 4 /\ 1 + 4 = 5 /\ 1 + 5 = 6
        OBVIOUS
      <3>2. s[3] = 0 /\ s[4] = 0 /\ s[5] = 0 /\ s[6] \in 2..254
        BY <1>2, <1>4
      <3> QED BY <3>1, <3>2, Zenon
    <2> QED BY <2>1, Zenon DEF HeaderAt
  <1> QED BY <1>5 DEF DecodeMBAP

(* The bytes of a frame. *)
LEMMA FrameBytes ==
    ASSUME NEW tx \in Words, NEW pdu \in Seq(Byte), 1 <= Len(pdu), Len(pdu) <= maxPDU
    PROVE  LET f == Frame(tx, UnitID, pdu)
           IN  /\ f \in Seq(Byte) /\ Len(f) = 7 + Len(pdu)
               /\ f[3] = 0 /\ f[4] = 0 /\ f[5] = 0 /\ f[6] = Len(pdu) + 1
               /\ WordAt(f, 1) = tx
               /\ f[7] = UnitID
               /\ \A i \in 1..Len(pdu) : f[7 + i] = pdu[i]
  <1> DEFINE f == Frame(tx, UnitID, pdu)
  <1>1. Len(pdu) \in Nat /\ Len(pdu) + 1 \in Words /\ Len(pdu) <= 253
    <2>1. Len(pdu) + 1 \in Nat /\ Len(pdu) + 1 < 65536 /\ Len(pdu) <= 253
      BY LenProperties DEF maxPDU
    <2> QED BY <2>1, SmallWord
  <1>2. /\ f \in Seq(Byte) /\ Len(f) = 7 + Len(pdu) /\ f[7] = UnitID
        /\ WordAt(f, 1) = tx /\ WordAt(f, 3) = 0 /\ WordAt(f, 5) = Len(pdu) + 1
        /\ \A i \in 1..Len(pdu) : f[7 + i] = pdu[i]
    BY <1>1, UnitAssumption, FrameShape DEF mbapLen, protocolID
  <1> HIDE DEF f
  <1>3. PICK a \in 0..255, b \in 0..255, c \in 0..255, d \in 0..255 :
           a = f[3] /\ b = f[4] /\ c = f[5] /\ d = f[6]
    <2>1. 7 <= Len(f)
      BY <1>1, <1>2
    <2> QED BY <1>2, <2>1, FieldBytes
  <1>4. PICK l \in Nat : l = Len(pdu) /\ l <= 253
    BY <1>1, Zenon
  <1>5. a * 256 + b = 0 /\ c * 256 + d = l + 1
    <2>1. WordAt(f, 3) = f[3] * 256 + f[4] /\ WordAt(f, 5) = f[5] * 256 + f[6]
      BY DEF WordAt
    <2>2. WordAt(f, 3) = a * 256 + b /\ WordAt(f, 5) = c * 256 + d
      BY <2>1, <1>3, Zenon
    <2> QED BY <2>2, <1>2, <1>4
  <1>6. a = 0 /\ b = 0 /\ c = 0 /\ d = l + 1
    BY <1>4, <1>5
  <1> QED BY <1>2, <1>3, <1>4, <1>6 DEF f

LEMMA PrefixedBytes ==
    ASSUME NEW pdu \in Seq(Byte)
    PROVE  LET b == <<UnitID>> \o pdu
           IN  /\ Len(b) = Len(pdu) + 1 /\ b[1] = UnitID
               /\ \A i \in 1..Len(pdu) : b[i + 1] = pdu[i]
  <1> DEFINE b == <<UnitID>> \o pdu
  <1>1. <<UnitID>> \in Seq(Byte) /\ Len(<<UnitID>>) = 1 /\ <<UnitID>>[1] = UnitID
    BY UnitAssumption
  <1>2. /\ Len(b) = 1 + Len(pdu)
        /\ \A i \in 1..Len(b) : b[i] = IF i <= 1 THEN <<UnitID>>[i] ELSE pdu[i - 1]
    BY <1>1, ConcatProperties
  <1>3. Len(pdu) \in Nat
    BY LenProperties
  <1> HIDE DEF b
  <1>4. ASSUME NEW i \in 1..Len(pdu)
        PROVE  b[i + 1] = pdu[i]
    <2>1. i + 1 \in 1..Len(b) /\ ~(i + 1 <= 1) /\ (i + 1) - 1 = i
      BY <1>2, <1>3
    <2> QED BY <2>1, <1>2
  <1>5. b[1] = UnitID
    <2>1. 1 \in 1..Len(b)
      BY <1>2, <1>3
    <2> QED BY <2>1, <1>1, <1>2
  <1> QED BY <1>2, <1>3, <1>4, <1>5 DEF b

(* In a frame whose answer is unmistakable only the frame's own header     *)
(* reads as one.                                                           *)
Plain(pdu) == pdu[1] # 0 /\ Unmistakable(pdu)

LEMMA FrameOnlyOld ==
    ASSUME NEW tx \in Words, NEW pdu \in Seq(Byte), 1 <= Len(pdu), Len(pdu) <= maxPDU,
           Plain(pdu), NEW m \in Nat, tx <= m
    PROVE  OnlyOldSoFar(Frame(tx, UnitID, pdu), m)
  <1> DEFINE f == Frame(tx, UnitID, pdu)
             b == <<UnitID>> \o pdu
  <1>1. /\ f \in Seq(Byte) /\ Len(f) = 7 + Len(pdu)
        /\ f[3] = 0 /\ f[4] = 0 /\ f[5] = 0 /\ f[6] = Len(pdu) + 1
        /\ WordAt(f, 1) = tx /\ f[7] = UnitID
        /\ \A i \in 1..Len(pdu) : f[7 + i] = pdu[i]
    BY FrameBytes
  <1>2. /\ b \in Seq(Byte) /\ Len(b) = 1 + Len(pdu)
        /\ \A i \in 1..Len(b) : b[i] = f[6 + i]
    <2>1. <<UnitID>> \in Seq(Byte) /\ Len(<<UnitID>>) = 1 /\ <<UnitID>>[1] = UnitID
      BY UnitAssumption
    <2>2. /\ b \in Seq(Byte) /\ Len(b) = 1 + Len(pdu)
          /\ \A i \in 1..Len(b) : b[i] = IF i <= 1 THEN <<UnitID>>[i] ELSE pdu[i - 1]
      BY <2>1, ConcatProperties
    <2>3. Len(pdu) \in Nat
      BY LenProperties
    <2> HIDE DEF f, b
    <2>4. ASSUME NEW i \in 1..Len(b)
          PROVE  b[i] = f[6 + i]
      <3>1. CASE i = 1
        BY <3>1, <2>1, <2>2, <1>1
      <3>2. CASE i # 1
        <4>1. i - 1 \in 1..Len(pdu) /\ 7 + (i - 1) = 6 + i /\ ~(i <= 1)
          BY <3>2, <2>2, <2>3
        <4> QED BY <4>1, <2>2, <1>1
      <3> QED BY <3>1, <3>2
    <2> QED BY <2>2, <2>4
  <1>3. /\ pdu[1] # 0
        /\ \A i \in 1..(Len(b) - 3) : MayBeHeader(b, i) => WordAt(b, i) \notin 1..MaxCalls
    BY DEF Plain, Unmistakable
  <1>4. Len(pdu) \in Nat
    BY LenProperties
  <1> HIDE DEF f, b
  <1>5. ASSUME NEW i \in 1..(Len(f) - 3), MayBeHeader(f, i)
        PROVE  Old(WordAt(f, i), m)
    <2>1. f[i + 2] = 0 /\ f[i + 3] = 0
      BY <1>5 DEF MayBeHeader
    <2>2. CASE i = 1
      BY <2>2, <1>1 DEF Old
    <2>3. CASE i \in 2..4
      <3>1. i + 2 = 6 \/ i + 3 = 6 \/ (i = 2 /\ i + 4 = 6)
        BY <2>3
      <3>2. f[6] # 0
        BY <1>1, <1>4
      <3>3. i # 2
        <4>1. 2 + 4 <= Len(f) /\ 2 + 4 = 6
          BY <1>1, <1>4
        <4> QED BY <1>5, <3>2, <4>1 DEF MayBeHeader
      <3> QED BY <2>1, <2>3, <3>2, <3>3
    <2>4. CASE i \in 5..6
      <3>1. f[8] = pdu[1]
        BY <1>1, <1>4
      <3>2. i + 2 = 8 \/ i + 3 = 8
        BY <2>4
      <3> QED BY <2>1, <3>1, <3>2, <1>3
    <2>5. CASE i >= 7
      <3>1. PICK j \in Nat : j = i - 6
        BY <2>5
      <3>2. j \in 1..(Len(b) - 3) /\ i = 6 + j
        BY <2>5, <3>1, <1>1, <1>2, <1>4
      <3>3. /\ b[j] = f[i] /\ b[j + 1] = f[i + 1] /\ b[j + 2] = f[i + 2] /\ b[j + 3] = f[i + 3]
            /\ j + 4 <= Len(b) => b[j + 4] = f[i + 4] /\ i + 4 <= Len(f)
            /\ j + 5 <= Len(b) => b[j + 5] = f[i + 5] /\ i + 5 <= Len(f)
        <4>1. ASSUME NEW x \in 0..5, j + x <= Len(b)
              PROVE  b[j + x] = f[i + x] /\ i + x <= Len(f)
          <5>1. j + x \in 1..Len(b) /\ 6 + (j + x) = i + x /\ i + x <= Len(f)
            BY <4>1, <3>2, <1>1, <1>2, <1>4
          <5>2. b[j + x] = f[6 + (j + x)]
            BY <5>1, <1>2
          <5> QED BY <5>1, <5>2
        <4>2. j <= Len(b) /\ j + 1 <= Len(b) /\ j + 2 <= Len(b) /\ j + 3 <= Len(b)
          BY <3>2, <1>2, <1>4
        <4>3. j + 0 = j /\ i + 0 = i
          BY <3>2
        <4> QED BY <4>1, <4>2, <4>3
      <3>4. MayBeHeader(b, j)
        BY <1>5, <3>3 DEF MayBeHeader
      <3>5. WordAt(b, j) \notin 1..MaxCalls /\ WordAt(b, j) = WordAt(f, i)
        BY <1>3, <3>2, <3>3, <3>4 DEF WordAt
      <3>6. WordAt(f, i) \in Nat
        <4>1. i \in Nat /\ 1 <= i /\ i + 1 <= Len(f)
          BY <1>1, <1>4
        <4> QED BY <4>1, <1>1, WordAtType DEF Words
      <3> QED BY <3>5, <3>6, BoundsAssumption DEF Old
    <2> QED BY <2>2, <2>3, <2>4, <2>5, <1>1, <1>4
  <1> QED BY <1>5 DEF OnlyOldSoFar, f

(* The bytes of an answer, once its header is read, hold no new number.    *)
LEMMA AnswerOnlyOld ==
    ASSUME NEW pdu \in Seq(Byte), Plain(pdu), NEW m \in Nat
    PROVE  OnlyOldSoFar(pdu, m)
  <1> DEFINE b == <<UnitID>> \o pdu
  <1>1. \A i \in 1..(Len(b) - 3) : MayBeHeader(b, i) => WordAt(b, i) \notin 1..MaxCalls
    BY DEF Plain, Unmistakable
  <1>2. Len(b) = Len(pdu) + 1 /\ \A i \in 1..Len(pdu) : b[i + 1] = pdu[i]
    BY PrefixedBytes
  <1> HIDE DEF b
  <1>3. Len(pdu) \in Nat
    BY LenProperties
  <1> SUFFICES ASSUME NEW i \in 1..(Len(pdu) - 3), MayBeHeader(pdu, i)
               PROVE  Old(WordAt(pdu, i), m)
    BY DEF OnlyOldSoFar
  <1>4. PICK j \in Nat : j = i + 1
    BY <1>3
  <1>5. ASSUME NEW x \in 0..5, i + x <= Len(pdu)
        PROVE  b[j + x] = pdu[i + x]
    <2>1. i + x \in 1..Len(pdu) /\ (i + x) + 1 = j + x
      BY <1>3, <1>4, <1>5
    <2> QED BY <2>1, <1>2
  <1>6. /\ b[j] = pdu[i] /\ b[j + 1] = pdu[i + 1] /\ b[j + 2] = pdu[i + 2] /\ b[j + 3] = pdu[i + 3]
        /\ j + 4 <= Len(b) => b[j + 4] = pdu[i + 4] /\ i + 4 <= Len(pdu)
        /\ j + 5 <= Len(b) => b[j + 5] = pdu[i + 5] /\ i + 5 <= Len(pdu)
    <2>1. i + 0 <= Len(pdu) /\ i + 1 <= Len(pdu) /\ i + 2 <= Len(pdu) /\ i + 3 <= Len(pdu)
      BY <1>3
    <2>2. /\ j + 4 <= Len(b) => i + 4 <= Len(pdu)
          /\ j + 5 <= Len(b) => i + 5 <= Len(pdu)
      BY <1>2, <1>3, <1>4
    <2>3. j + 0 = j /\ i + 0 = i
      BY <1>3, <1>4
    <2> QED BY <2>1, <2>2, <2>3, <1>5
  <1>7. MayBeHeader(b, j) /\ j \in 1..(Len(b) - 3)
    <2>1. j \in 1..(Len(b) - 3)
      BY <1>2, <1>3, <1>4
    <2> QED BY <2>1, <1>6 DEF MayBeHeader
  <1>8. WordAt(pdu, i) \notin 1..MaxCalls
    BY <1>1, <1>6, <1>7 DEF WordAt
  <1>9. WordAt(pdu, i) \in Nat
    <2>1. i \in Nat /\ 1 <= i /\ i + 1 <= Len(pdu)
      BY <1>3
    <2> QED BY <2>1, WordAtType DEF Words
  <1> QED BY <1>8, <1>9, BoundsAssumption DEF Old

(***************************************************************************)
(* What reading, losing and appending do to the numbers in a stream.       *)
(***************************************************************************)
LEMMA WordNat ==
    ASSUME NEW s \in Seq(Byte), NEW i \in 1..(Len(s) - 3)
    PROVE  WordAt(s, i) \in Nat
  <1>1. Len(s) \in Nat
    BY LenProperties
  <1>2. i \in Nat /\ 1 <= i /\ i + 1 <= Len(s)
    BY <1>1
  <1> QED BY <1>2, WordAtType DEF Words

(* A number that is old stays so. *)
LEMMA StaysOld ==
    ASSUME NEW s \in Seq(Byte), NEW m \in Int, NEW p \in Int, m <= p
    PROVE  /\ OnlyOld(s, m) => OnlyOld(s, p)
           /\ OnlyOldSoFar(s, m) => OnlyOldSoFar(s, p)
  <1>1. \A i \in 1..(Len(s) - 3) : Old(WordAt(s, i), m) => Old(WordAt(s, i), p)
    <2> TAKE i \in 1..(Len(s) - 3)
    <2>1. PICK w \in Nat : w = WordAt(s, i)
      BY WordNat, Zenon
    <2>2. w <= m => w <= p
      OBVIOUS
    <2> QED BY <2>1, <2>2, Zenon DEF Old
  <1>2. OnlyOldSoFar(s, m) => OnlyOldSoFar(s, p)
    BY <1>1, Zenon DEF OnlyOldSoFar
  <1>3. \A i \in 1..(Len(s) - 5) : i \in 1..(Len(s) - 3)
    BY LenProperties
  <1>4. OnlyOld(s, m) => OnlyOld(s, p)
    BY <1>1, <1>3, Zenon DEF OnlyOld
  <1> QED BY <1>2, <1>4

(* A header that is all there is one that may be. *)
LEMMA WholeHeader ==
    ASSUME NEW s \in Seq(Byte), NEW m
    PROVE  OnlyOldSoFar(s, m) => OnlyOld(s, m)
  <1>1. \A i \in 1..(Len(s) - 5) : i \in 1..(Len(s) - 3)
    BY LenProperties
  <1>2. \A i \in 1..(Len(s) - 5) : HeaderAt(s, i) => MayBeHeader(s, i)
    BY Zenon DEF HeaderAt, MayBeHeader
  <1> QED BY <1>1, <1>2, Zenon DEF OnlyOld, OnlyOldSoFar

(* What is left after the first bytes are read. *)
LEMMA RestOnlyOld ==
    ASSUME NEW s \in Seq(Byte), NEW k \in Nat, k <= Len(s), NEW m
    PROVE  LET rest == SubSeq(s, k + 1, Len(s))
           IN  /\ OnlyOld(s, m) => OnlyOld(rest, m)
               /\ OnlyOldSoFar(s, m) => OnlyOldSoFar(rest, m)
  <1>1. PICK t \in Seq(Byte) : t = SubSeq(s, k + 1, Len(s))
    BY FirstAndRest
  <1>2. Len(t) = Len(s) - k /\ \A i \in 1..(Len(s) - k) : t[i] = s[k + i]
    BY <1>1, FirstAndRest
  <1>3. Len(s) \in Nat /\ Len(t) \in Nat
    BY LenProperties
  <1>4. ASSUME NEW i \in 1..(Len(t) - 3)
        PROVE  \E j \in 1..(Len(s) - 3) :
                  /\ j + 5 <= Len(s) <=> i + 5 <= Len(t)
                  /\ HeaderAt(t, i) /\ i + 5 <= Len(t) => HeaderAt(s, j)
                  /\ MayBeHeader(t, i) => MayBeHeader(s, j)
                  /\ WordAt(t, i) = WordAt(s, j)
    <2>1. PICK j \in Nat : j = k + i
      BY <1>3
    <2>2. /\ j \in 1..(Len(s) - 3)
          /\ j + 4 <= Len(s) <=> i + 4 <= Len(t)
          /\ j + 5 <= Len(s) <=> i + 5 <= Len(t)
      BY <1>2, <1>3, <2>1
    <2>3. ASSUME NEW x \in 0..5, i + x <= Len(t)
          PROVE  t[i + x] = s[j + x]
      <3>1. i + x \in 1..(Len(s) - k) /\ k + (i + x) = j + x
        BY <2>1, <2>3, <1>2, <1>3
      <3> QED BY <3>1, <1>2
    <2>4. /\ t[i] = s[j] /\ t[i + 1] = s[j + 1] /\ t[i + 2] = s[j + 2] /\ t[i + 3] = s[j + 3]
          /\ i + 4 <= Len(t) => t[i + 4] = s[j + 4]
          /\ i + 5 <= Len(t) => t[i + 5] = s[j + 5]
      <3>1. i + 0 <= Len(t) /\ i + 1 <= Len(t) /\ i + 2 <= Len(t) /\ i + 3 <= Len(t)
        BY <1>3
      <3>2. i + 0 = i /\ j + 0 = j
        BY <2>1, <1>3
      <3> QED BY <3>1, <3>2, <2>3
    <2>5. i + 5 <= Len(t) => i + 4 <= Len(t)
      BY <1>3
    <2>6. HeaderAt(t, i) /\ i + 5 <= Len(t) => HeaderAt(s, j)
      BY <2>4, <2>5, Zenon DEF HeaderAt
    <2>7. MayBeHeader(t, i) => MayBeHeader(s, j)
      BY <2>2, <2>4, Zenon DEF MayBeHeader
    <2>8. WordAt(t, i) = WordAt(s, j)
      BY <2>4, Zenon DEF WordAt
    <2> QED BY <2>2, <2>6, <2>7, <2>8, Zenon
  <1>5. OnlyOldSoFar(s, m) => OnlyOldSoFar(t, m)
    BY <1>4, Zenon DEF OnlyOldSoFar
  <1>6. /\ \A i \in 1..(Len(t) - 5) : i \in 1..(Len(t) - 3) /\ i + 5 <= Len(t)
        /\ \A j \in 1..(Len(s) - 3) : j + 5 <= Len(s) => j \in 1..(Len(s) - 5)
    BY <1>3
  <1>7. OnlyOld(s, m) => OnlyOld(t, m)
    BY <1>4, <1>6, Zenon DEF OnlyOld
  <1> QED BY <1>1, <1>5, <1>7, Zenon

(* What is left after the last bytes are lost. *)
LEMMA StartOnlyOld ==
    ASSUME NEW s \in Seq(Byte), NEW t \in Seq(Byte), Begins(t, s), NEW m
    PROVE  OnlyOld(s, m) => OnlyOld(t, m)
  <1>1. Len(s) \in Nat /\ Len(t) \in Nat
    BY LenProperties
  <1>2. Len(t) <= Len(s) /\ \A i \in 1..Len(t) : t[i] = s[i]
    BY DEF Begins
  <1> SUFFICES ASSUME OnlyOld(s, m), NEW i \in 1..(Len(t) - 5), HeaderAt(t, i)
               PROVE  Old(WordAt(t, i), m)
    BY DEF OnlyOld
  <1>3. /\ i \in 1..(Len(s) - 5)
        /\ i \in 1..Len(t) /\ i + 1 \in 1..Len(t) /\ i + 2 \in 1..Len(t)
        /\ i + 3 \in 1..Len(t) /\ i + 4 \in 1..Len(t) /\ i + 5 \in 1..Len(t)
    BY <1>1, <1>2
  <1>4. /\ t[i] = s[i] /\ t[i + 1] = s[i + 1] /\ t[i + 2] = s[i + 2] /\ t[i + 3] = s[i + 3]
        /\ t[i + 4] = s[i + 4] /\ t[i + 5] = s[i + 5]
    BY <1>2, <1>3
  <1>5. HeaderAt(s, i) /\ WordAt(t, i) = WordAt(s, i)
    BY <1>4, Zenon DEF HeaderAt, WordAt
  <1> QED BY <1>3, <1>5, Zenon DEF OnlyOld

(* Where a frame begins within what reads as a header there is a zero      *)
(* where its length would be.                                              *)
LEMMA FrameFollows ==
    ASSUME NEW s \in Seq(Byte), NEW f \in Seq(Byte), 8 <= Len(f),
           f[3] = 0, f[4] = 0, f[5] = 0, NEW m, OnlyOldSoFar(s, m)
    PROVE  \A i \in 1..Len(s) : MayBeHeader(s \o f, i) => Old(WordAt(s \o f, i), m)
  <1>1. PICK t \in Seq(Byte) : t = s \o f
    BY ConcatProperties
  <1>2. Len(t) = Len(s) + Len(f)
    BY <1>1, ConcatProperties
  <1>3. Len(s) \in Nat /\ Len(f) \in Nat
    BY LenProperties
  <1>4. \A i \in 1..Len(s) : t[i] = s[i]
    <2>1. \A i \in 1..(Len(s) + Len(f)) : t[i] = IF i <= Len(s) THEN s[i] ELSE f[i - Len(s)]
      BY <1>1, ConcatProperties
    <2> QED BY <2>1, <1>3
  <1>5. \A i \in 1..Len(f) : t[Len(s) + i] = f[i]
    <2>1. \A i \in 1..(Len(s) + Len(f)) : t[i] = IF i <= Len(s) THEN s[i] ELSE f[i - Len(s)]
      BY <1>1, ConcatProperties
    <2> TAKE i \in 1..Len(f)
    <2>2. /\ Len(s) + i \in 1..(Len(s) + Len(f)) /\ ~(Len(s) + i <= Len(s))
          /\ (Len(s) + i) - Len(s) = i
      BY <1>3
    <2> QED BY <2>1, <2>2
  <1>6. t[Len(s) + 3] = 0 /\ t[Len(s) + 4] = 0 /\ t[Len(s) + 5] = 0
    <2>1. 3 \in 1..Len(f) /\ 4 \in 1..Len(f) /\ 5 \in 1..Len(f)
      BY <1>3
    <2> QED BY <2>1, <1>5
  <1>7. ASSUME NEW i \in 1..Len(s), MayBeHeader(t, i)
        PROVE  Old(WordAt(t, i), m)
    <2>1. i <= Len(s) - 3
      <3> SUFFICES ASSUME ~(i <= Len(s) - 3) PROVE FALSE
        OBVIOUS
      <3>1. i + 5 = Len(s) + 3 \/ i + 5 = Len(s) + 4 \/ i + 5 = Len(s) + 5
        <4>1. i \in Int /\ i <= Len(s) /\ Len(s) < i + 3
          BY <1>3
        <4> QED BY <4>1, <1>3
      <3>2. i + 5 <= Len(t)
        BY <1>2, <1>3
      <3>3. t[i + 5] \in 2..254
        BY <1>7, <3>2 DEF MayBeHeader
      <3>4. t[i + 5] = 0
        BY <3>1, <1>6
      <3> QED BY <3>3, <3>4
    <2>2. ASSUME NEW x \in 0..5, i + x <= Len(s)
          PROVE  t[i + x] = s[i + x]
      <3>1. i + x \in 1..Len(s)
        BY <2>2, <1>3
      <3> QED BY <3>1, <1>4
    <2>3. /\ t[i] = s[i] /\ t[i + 1] = s[i + 1] /\ t[i + 2] = s[i + 2] /\ t[i + 3] = s[i + 3]
          /\ i + 4 <= Len(s) => t[i + 4] = s[i + 4]
          /\ i + 5 <= Len(s) => t[i + 5] = s[i + 5]
      <3>1. i + 0 <= Len(s) /\ i + 1 <= Len(s) /\ i + 2 <= Len(s) /\ i + 3 <= Len(s)
        BY <2>1, <1>3
      <3>2. i + 0 = i
        BY <1>3
      <3> QED BY <3>1, <3>2, <2>2
    <2>4. /\ i + 4 <= Len(s) => i + 4 <= Len(t)
          /\ i + 5 <= Len(s) => i + 5 <= Len(t)
      BY <1>2, <1>3
    <2>5. MayBeHeader(s, i) /\ WordAt(t, i) = WordAt(s, i)
      BY <1>7, <2>3, <2>4, Zenon DEF MayBeHeader, WordAt
    <2>6. i \in 1..(Len(s) - 3)
      BY <2>1, <1>3
    <2> QED BY <2>5, <2>6, Zenon DEF OnlyOldSoFar
  <1> QED BY <1>1, <1>7, Zenon

LEMMA FramesJoin ==
    ASSUME NEW s \in Seq(Byte), NEW f \in Seq(Byte), 8 <= Len(f),
           f[3] = 0, f[4] = 0, f[5] = 0, NEW m, OnlyOldSoFar(s, m), OnlyOldSoFar(f, m)
    PROVE  OnlyOldSoFar(s \o f, m)
  <1>1. PICK t \in Seq(Byte) : t = s \o f
    BY ConcatProperties
  <1>2. Len(t) = Len(s) + Len(f)
    BY <1>1, ConcatProperties
  <1>3. Len(s) \in Nat /\ Len(f) \in Nat
    BY LenProperties
  <1>4. \A i \in 1..Len(f) : t[Len(s) + i] = f[i]
    <2>1. \A i \in 1..(Len(s) + Len(f)) : t[i] = IF i <= Len(s) THEN s[i] ELSE f[i - Len(s)]
      BY <1>1, ConcatProperties
    <2> TAKE i \in 1..Len(f)
    <2>2. /\ Len(s) + i \in 1..(Len(s) + Len(f)) /\ ~(Len(s) + i <= Len(s))
          /\ (Len(s) + i) - Len(s) = i
      BY <1>3
    <2> QED BY <2>1, <2>2
  <1>5. ASSUME NEW i \in 1..(Len(t) - 3), MayBeHeader(t, i)
        PROVE  Old(WordAt(t, i), m)
    <2>1. CASE i <= Len(s)
      <3>1. i \in 1..Len(s)
        BY <2>1, <1>2, <1>3
      <3> QED BY <3>1, <1>1, <1>5, FrameFollows, Zenon
    <2>2. CASE ~(i <= Len(s))
      <3>1. PICK j \in Nat : j = i - Len(s)
        <4>1. i - Len(s) \in Nat
          BY <2>2, <1>2, <1>3
        <4> QED BY <4>1, Zenon
      <3>2. /\ j \in 1..(Len(f) - 3) /\ i = Len(s) + j
            /\ j + 4 <= Len(f) => i + 4 <= Len(t)
            /\ j + 5 <= Len(f) => i + 5 <= Len(t)
        BY <2>2, <3>1, <1>2, <1>3
      <3>3. ASSUME NEW x \in 0..5, j + x <= Len(f)
            PROVE  t[i + x] = f[j + x]
        <4>1. j + x \in 1..Len(f) /\ Len(s) + (j + x) = i + x
          BY <3>2, <3>3, <1>3
        <4> QED BY <4>1, <1>4
      <3>4. /\ t[i] = f[j] /\ t[i + 1] = f[j + 1] /\ t[i + 2] = f[j + 2] /\ t[i + 3] = f[j + 3]
            /\ j + 4 <= Len(f) => t[i + 4] = f[j + 4]
            /\ j + 5 <= Len(f) => t[i + 5] = f[j + 5]
        <4>1. j + 0 <= Len(f) /\ j + 1 <= Len(f) /\ j + 2 <= Len(f) /\ j + 3 <= Len(f)
          BY <3>2, <1>3
        <4>2. i + 0 = i /\ j + 0 = j
          BY <3>2, <1>3
        <4> QED BY <4>1, <4>2, <3>3
      <3>5. MayBeHeader(f, j) /\ WordAt(t, i) = WordAt(f, j)
        BY <1>5, <3>2, <3>4, Zenon DEF MayBeHeader, WordAt
      <3> QED BY <3>2, <3>5, Zenon DEF OnlyOldSoFar
    <2> QED BY <2>1, <2>2
  <1> QED BY <1>1, <1>5, Zenon DEF OnlyOldSoFar

LEMMA NothingOld ==
    ASSUME NEW s, s = <<>>, NEW m
    PROVE  OnlyOld(s, m) /\ OnlyOldSoFar(s, m)
  <1>1. Len(s) - 5 < 1 /\ Len(s) - 3 < 1 /\ Len(s) - 5 \in Int /\ Len(s) - 3 \in Int
    OBVIOUS
  <1>2. \A i \in 1..(Len(s) - 5) : FALSE
    BY <1>1
  <1>3. \A i \in 1..(Len(s) - 3) : FALSE
    BY <1>1
  <1> QED BY <1>2, <1>3 DEF OnlyOld, OnlyOldSoFar

(***************************************************************************)
(* The inductive invariant.  The numbers handed out grow with the calls    *)
(* and so do those of the requests.  On a connection on which a sent call  *)
(* has failed, and in the middle of a call, its own request is still under *)
(* way and everything before it is old; or nothing is under way any more   *)
(* and the bytes at the front, where the next header is read, are not this *)
(* call's; or nothing was left of the earlier calls when the device        *)
(* answered, and the answer is at the front.                               *)
(***************************************************************************)
TxOf(r) == WordAt(r.frame, 1)

NumbersGrow == /\ txID <= n
               /\ \A k \in Conns : \A i \in 1..Len(requests[k]) : TxOf(requests[k][i]) <= txID

AnswerPlain == answer # <<>> => Plain(answer)

HungUpEmpty == conn # 0 /\ link # "open" => requests[conn] = <<>>

WholeWhileOpen == clean /\ conn # 0 /\ link = "open" /\ answer # <<>> =>
                     /\ pc = "header" => stream = Frame(txID, UnitID, answer)
                     /\ pc = "pdu" => stream = answer

Between == /\ pc = "idle"
           /\ OnlyOld(stream, txID)
           /\ link = "open" => OnlyOldSoFar(stream, txID)

Waiting == /\ pc = "header" /\ link = "open"
           /\ requests[conn] # <<>>
           /\ requests[conn][Len(requests[conn])].n = n
           /\ TxOf(requests[conn][Len(requests[conn])]) = txID
           /\ \A i \in 1..(Len(requests[conn]) - 1) : TxOf(requests[conn][i]) <= txID - 1
           /\ OnlyOldSoFar(stream, txID - 1)

Behind == /\ pc = "header"
          /\ requests[conn] = <<>>
          /\ OnlyOld(stream, txID)
          /\ link = "open" => OnlyOldSoFar(stream, txID)
          /\ Len(stream) >= 6 /\ HeaderAt(stream, 1) => Old(WordAt(stream, 1), txID - 1)

InStep == /\ Answering
          /\ link = "open" => /\ pc = "header" => stream = Frame(txID, UnitID, answer)
                              /\ pc = "pdu" => stream = answer

AfterFailure == ~clean /\ conn # 0 => Between \/ Waiting \/ Behind \/ InStep

AInv == /\ NumbersGrow /\ AnswerPlain /\ HungUpEmpty /\ WholeWhileOpen
        /\ AfterFailure /\ NoForeignAnswer

LEMMA InitAInv == Init => AInv
  <1> SUFFICES ASSUME Init PROVE AInv
    OBVIOUS
  <1>1. NumbersGrow
    BY DEF Init, NumbersGrow
  <1> QED BY <1>1 DEF Init, AInv, AnswerPlain, HungUpEmpty, WholeWhileOpen, AfterFailure,
                      NoForeignAnswer, Answered

(* A call that was sent ends without an answer. *)
LEMMA FailedBehind ==
    ASSUME IInv, AInv, pc # "idle", NEW outcome, Finish(outcome),
           outcome.kind \notin Answered, OnlyOld(stream', txID),
           link = "open" => OnlyOldSoFar(stream', txID)
    PROVE  AInv'
  <1>1. /\ pc' = "idle" /\ last' = Result(n, outcome) /\ ~clean'
        /\ UNCHANGED <<conn, dials, txID, n, call, link, requests, mem, answer>>
    BY DEF Finish
  <1>2. NumbersGrow' /\ AnswerPlain' /\ HungUpEmpty'
    BY <1>1 DEF AInv, NumbersGrow, AnswerPlain, HungUpEmpty
  <1>3. WholeWhileOpen'
    BY <1>1 DEF WholeWhileOpen
  <1>4. AfterFailure'
    BY <1>1 DEF Between, AfterFailure
  <1>5. NoForeignAnswer'
    BY <1>1 DEF NoForeignAnswer, Result
  <1> QED BY <1>2, <1>3, <1>4, <1>5 DEF AInv

(* An answer that is at the front holds no number but the call's. *)
LEMMA InStepOld ==
    ASSUME IInv, AInv, InStep
    PROVE  /\ OnlyOld(stream, txID)
           /\ link = "open" => OnlyOldSoFar(stream, txID)
  <1>1. /\ stream \in Seq(Byte) /\ txID \in Nat /\ txID \in Words
        /\ answer \in Seq(Byte) /\ pc \in {"header", "pdu"}
    <2>1. txID \in TxIDs
      BY DEF IInv, TypeOK
    <2>2. txID \in Words
      BY <2>1, TxWord
    <2> QED BY <2>1, <2>2 DEF IInv, TypeOK, TxIDs, InStep, Answering
  <1>2. answer # <<>> /\ Plain(answer) /\ 1 <= Len(answer) /\ Len(answer) <= maxPDU
    <2>1. answer # <<>> /\ Len(answer) <= maxPDU
      BY DEF InStep, Answering, IInv, InProgress
    <2>2. Len(answer) # 0
      BY <1>1, <2>1, EmptySeq
    <2> QED BY <1>1, <2>1, <2>2, LenProperties DEF AInv, AnswerPlain
  <1>3. PICK whole \in Seq(Byte) :
              /\ OnlyOldSoFar(whole, txID) /\ OnlyOld(whole, txID)
              /\ Begins(stream, whole)
              /\ link = "open" => stream = whole
    <2>1. CASE pc = "header"
      <3>1. PICK f : f = Frame(txID, UnitID, answer)
        OBVIOUS
      <3>2. f \in Seq(Byte)
        BY <1>1, <1>2, <3>1, FrameBytes
      <3>3. OnlyOldSoFar(f, txID)
        BY <1>1, <1>2, <3>1, FrameOnlyOld
      <3>4. OnlyOld(f, txID)
        BY <3>2, <3>3, WholeHeader
      <3>5. Begins(stream, f) /\ (link = "open" => stream = f)
        BY <2>1, <3>1 DEF InStep, Answering
      <3> QED BY <3>2, <3>3, <3>4, <3>5
    <2>2. CASE pc = "pdu"
      <3>1. OnlyOldSoFar(answer, txID)
        BY <1>1, <1>2, AnswerOnlyOld
      <3>2. OnlyOld(answer, txID)
        BY <1>1, <3>1, WholeHeader
      <3>3. Begins(stream, answer) /\ (link = "open" => stream = answer)
        BY <2>2 DEF InStep, Answering
      <3> QED BY <1>1, <3>1, <3>2, <3>3
    <2> QED BY <1>1, <2>1, <2>2
  <1>4. OnlyOld(stream, txID)
    BY <1>1, <1>3, StartOnlyOld
  <1> QED BY <1>3, <1>4

(* What there is to read in the middle of a call. *)
LEMMA InTheMiddle ==
    ASSUME IInv, AInv, pc # "idle"
    PROVE  /\ OnlyOld(stream, txID)
           /\ link = "open" => OnlyOldSoFar(stream, txID)
  <1>1. stream \in Seq(Byte) /\ txID \in Nat /\ conn # 0
    BY DEF IInv, TypeOK, InProgress, TxIDs
  <1>2. CASE Waiting
    <2>1. txID - 1 \in Int /\ txID \in Int /\ txID - 1 <= txID
      BY <1>1
    <2>2. OnlyOldSoFar(stream, txID - 1)
      BY <1>2 DEF Waiting
    <2>3. OnlyOldSoFar(stream, txID)
      BY <1>1, <2>1, <2>2, StaysOld
    <2> QED BY <1>1, <2>3, WholeHeader
  <1>3. CASE Behind
    BY <1>3 DEF Behind
  <1>4. CASE InStep
    BY <1>4, InStepOld
  <1>5. CASE clean
    <2>1. Asked \/ Silence \/ Answering
      BY <1>1, <1>5 DEF IInv, CleanExchange, AtRest
    <2>2. CASE Asked \/ Silence
      <3>1. stream = <<>>
        BY <2>2 DEF Asked, Silence
      <3> QED BY <3>1, NothingOld
    <2>3. CASE Answering
      <3>1. InStep
        BY <1>1, <1>5, <2>3 DEF Answering, InStep, AInv, WholeWhileOpen
      <3> QED BY <3>1, InStepOld
    <2> QED BY <2>1, <2>2, <2>3
  <1> QED BY <1>1, <1>2, <1>3, <1>4, <1>5 DEF AInv, AfterFailure, Between

LEMMA TimeoutBehind ==
    ASSUME IInv, AInv, Timeout
    PROVE  AInv'
  <1>1. PICK taken \in 0..(Wanted - 1) : taken <= Len(stream) /\ Consume(taken)
    BY DEF Timeout
  <1>2. pc # "idle" /\ Finish(Outcome("timeout", <<>>))
    BY DEF Timeout
  <1>3. taken \in Nat /\ stream \in Seq(Byte)
    <2>1. Wanted \in Nat /\ stream \in Seq(Byte)
      BY DEF Wanted, mbapLen, maxPDU, IInv, TypeOK
    <2> QED BY <2>1
  <1>4. PICK rest \in Seq(Byte) : rest = SubSeq(stream, taken + 1, Len(stream))
    BY <1>1, <1>3, FirstAndRest
  <1>5. stream' = rest
    BY <1>1, <1>4 DEF Consume
  <1>6. /\ OnlyOld(stream, txID) => OnlyOld(rest, txID)
        /\ OnlyOldSoFar(stream, txID) => OnlyOldSoFar(rest, txID)
    BY <1>1, <1>3, <1>4, RestOnlyOld
  <1>7. /\ OnlyOld(stream', txID)
        /\ link = "open" => OnlyOldSoFar(stream', txID)
    BY <1>2, <1>5, <1>6, InTheMiddle
  <1>8. Outcome("timeout", <<>>).kind \notin Answered
    BY DEF Outcome, Answered
  <1> QED BY <1>2, <1>7, <1>8, FailedBehind

LEMMA ReadEOFBehind ==
    ASSUME IInv, AInv, ReadEOF
    PROVE  AInv'
  <1>1. /\ pc # "idle" /\ Finish(Outcome("eof", <<>>))
        /\ stream' = <<>> /\ link # "open"
    BY DEF ReadEOF
  <1>2. OnlyOld(stream', txID)
    BY <1>1, NothingOld
  <1>3. Outcome("eof", <<>>).kind \notin Answered
    BY DEF Outcome, Answered
  <1> QED BY <1>1, <1>2, <1>3, FailedBehind

(* What is read as a header with this call's number is the header of the   *)
(* answer to this call.                                                    *)
LEMMA OwnHeader ==
    ASSUME IInv, AInv, ReadHeader, DecodeMBAP(stream).ok, DecodeMBAP(stream).tx = txID
    PROVE  InStep
  <1>1. /\ stream \in Seq(Byte) /\ mbapLen <= Len(stream) /\ pc = "header" /\ conn # 0
        /\ txID \in Nat /\ n \in 0..MaxCalls
    BY DEF ReadHeader, IInv, TypeOK, InProgress, TxIDs
  <1>2. 7 <= Len(stream) /\ Len(stream) \in Nat
    BY <1>1, LenProperties DEF mbapLen
  <1>3. HeaderAt(stream, 1) /\ WordAt(stream, 1) = txID
    BY <1>1, HeaderRead
  <1>4. 1 \in 1..(Len(stream) - 3)
    BY <1>2
  <1>5. ~Old(txID, txID - 1)
    <2>1. txID <= n
      BY DEF AInv, NumbersGrow
    <2> QED BY <1>1, <2>1, BoundsAssumption DEF Old
  <1>6. ~Waiting
    <2> SUFFICES ASSUME Waiting PROVE FALSE
      OBVIOUS
    <2>1. OnlyOldSoFar(stream, txID - 1)
      BY DEF Waiting
    <2>2. MayBeHeader(stream, 1)
      BY <1>3, Zenon DEF HeaderAt, MayBeHeader
    <2> QED BY <1>3, <1>4, <1>5, <2>1, <2>2, Zenon DEF OnlyOldSoFar
  <1>7. ~Behind
    <2> SUFFICES ASSUME Behind PROVE FALSE
      OBVIOUS
    <2>1. Len(stream) >= 6
      BY <1>2
    <2> QED BY <1>3, <1>5, <2>1, Zenon DEF Behind
  <1>8. CASE clean
    BY <1>1, <1>8, CleanAnswer DEF Answering, InStep, AInv, WholeWhileOpen
  <1> QED BY <1>1, <1>6, <1>7, <1>8 DEF AInv, AfterFailure, Between

LEMMA ReadHeaderBehind ==
    ASSUME IInv, AInv, ReadHeader
    PROVE  AInv'
  <1>1. /\ stream \in Seq(Byte) /\ mbapLen <= Len(stream) /\ pc = "header" /\ conn # 0
        /\ stream' = SubSeq(stream, mbapLen + 1, Len(stream)) /\ mbapLen \in Nat
    BY DEF ReadHeader, IInv, TypeOK, InProgress, Consume, mbapLen
  <1>2. CASE DecodeMBAP(stream).ok /\ DecodeMBAP(stream).tx = txID
    <2>1. InStep
      BY <1>2, OwnHeader
    <2>2. /\ pc' = "pdu"
          /\ UNCHANGED <<conn, dials, txID, n, call, link, requests,
                         mem, answer, clean, last>>
          /\ Answering'
      BY <2>1, AnswerHeader DEF InStep
    <2>3. ASSUME link = "open"
          PROVE  stream' = answer
      <3>1. stream = Frame(txID, UnitID, answer)
        BY <1>1, <2>1, <2>3 DEF InStep
      <3>2. /\ answer \in Seq(Byte) /\ 1 <= Len(answer) /\ Len(answer) <= maxPDU
            /\ txID \in Words /\ UnitID \in Byte
        <4>1. answer \in Seq(Byte) /\ Len(answer) <= maxPDU /\ txID \in TxIDs /\ answer # <<>>
          BY <2>1 DEF IInv, TypeOK, InProgress, InStep, Answering
        <4>2. Len(answer) # 0
          BY <4>1, EmptySeq
        <4> QED BY <4>1, <4>2, LenProperties, TxWord, UnitAssumption
      <3>3. Begins(stream, stream)
        BY <1>1, BeginsWhole
      <3>4. Begins(stream', answer)
        BY <1>1, <3>1, <3>2, <3>3, FrameDecodes
      <3>5. stream' \in Seq(Byte) /\ Len(stream') = Len(stream) - mbapLen
        BY <1>1, FirstAndRest
      <3>6. Len(stream) = 7 + Len(answer)
        BY <3>1, <3>2, FrameBytes
      <3>7. Len(answer) <= Len(stream')
        BY <3>2, <3>5, <3>6, LenProperties DEF mbapLen
      <3> QED BY <3>2, <3>4, <3>5, <3>7, BeginsWhole
    <2>4. InStep' /\ WholeWhileOpen'
      BY <2>2, <2>3 DEF InStep, WholeWhileOpen
    <2> QED BY <2>2, <2>4 DEF AInv, NumbersGrow, AnswerPlain, HungUpEmpty, AfterFailure,
                              NoForeignAnswer
  <1>3. CASE ~(DecodeMBAP(stream).ok /\ DecodeMBAP(stream).tx = txID)
    <2>1. PICK kind \in {"badHeader", "transaction"} : Finish(Outcome(kind, <<>>))
      BY <1>3 DEF ReadHeader
    <2>2. Outcome(kind, <<>>).kind \notin Answered
      BY DEF Outcome, Answered
    <2>3. /\ OnlyOld(stream', txID)
          /\ link = "open" => OnlyOldSoFar(stream', txID)
      BY <1>1, InTheMiddle, RestOnlyOld
    <2> QED BY <1>1, <2>1, <2>2, <2>3, FailedBehind
  <1> QED BY <1>2, <1>3

LEMMA ReadPDUBehind ==
    ASSUME IInv, MInv, AInv, ReadPDU
    PROVE  AInv'
  <1>1. pc = "pdu" /\ conn # 0
    BY DEF ReadPDU, IInv, InProgress
  <1>2. Answering
    <2>1. CASE ~clean
      BY <1>1, <2>1 DEF AInv, AfterFailure, Between, Waiting, Behind, InStep
    <2> QED BY <2>1, CleanAnswer
  <1>3. PICK out : out = Interpret(call, answer)
    OBVIOUS
  <1>4. Finish(out) /\ answer # <<>> /\ stream' = <<>>
    BY <1>2, <1>3, AnswerPDU DEF ReadPDU
  <1>5. out.kind \in Answered /\ out = Outcome(out.kind, out.vals)
    BY <1>3, <1>4, MeantKind DEF MInv, AnswerMeant
  <1>6. /\ pc' = "idle" /\ last' = Result(n, out) /\ clean' = clean
        /\ UNCHANGED <<conn, dials, txID, n, call, link, requests, mem, answer>>
    BY <1>4, <1>5 DEF Finish, IInv, TypeOK
  <1>7. NumbersGrow' /\ AnswerPlain' /\ HungUpEmpty' /\ WholeWhileOpen'
    BY <1>6 DEF AInv, NumbersGrow, AnswerPlain, HungUpEmpty, WholeWhileOpen
  <1>8. AfterFailure'
    <2>1. OnlyOld(stream', txID') /\ OnlyOldSoFar(stream', txID')
      BY <1>4, NothingOld
    <2> QED BY <1>6, <2>1 DEF AfterFailure, Between
  <1>9. NoForeignAnswer'
    BY <1>3, <1>4, <1>5, <1>6 DEF NoForeignAnswer, Result
  <1> QED BY <1>7, <1>8, <1>9 DEF AInv

(***************************************************************************)
(* The other actions.                                                      *)
(***************************************************************************)
LEMMA ConnectBehind ==
    ASSUME IInv, AInv, Connect
    PROVE  AInv'
  BY DEF Connect, AInv, NumbersGrow, AnswerPlain, HungUpEmpty, WholeWhileOpen, AfterFailure,
         NoForeignAnswer

LEMMA CloseBehind ==
    ASSUME IInv, AInv, Close
    PROVE  AInv'
  BY DEF Close, AInv, NumbersGrow, AnswerPlain, HungUpEmpty, WholeWhileOpen, AfterFailure,
         NoForeignAnswer

(* The number of a call is one more than that of the one before. *)
LEMMA NextNumber ==
    ASSUME IInv, AInv, MaxCalls < TxMod, NEW c \in Calls, Begin(c)
    PROVE  /\ nextTxID = txID + 1 /\ nextTxID \in Nat /\ txID \in Nat
           /\ nextTxID <= n + 1 /\ n' = n + 1 /\ n \in Nat
  <1>1. txID \in Nat /\ n \in Nat /\ n < MaxCalls /\ txID <= n
    BY DEF IInv, TypeOK, TxIDs, AInv, NumbersGrow, Begin
  <1>2. txID + 1 < TxMod /\ txID + 1 \in Nat
    BY <1>1, BoundsAssumption, TxModAssumption
  <1>3. (txID + 1) % TxMod = txID + 1
    BY <1>2, TxModAssumption
  <1> QED BY <1>1, <1>2, <1>3 DEF nextTxID, Begin

(* A call that ends before anything is sent. *)
LEMMA UnsentBehind ==
    ASSUME IInv, AInv, MaxCalls < TxMod, NEW c \in Calls, RefuseCall(c) \/ WriteError(c)
    PROVE  AInv'
  <1>1. /\ Begin(c) /\ UNCHANGED <<pc, requests, clean>>
        /\ txID' \in {txID, nextTxID}
        /\ link' = link \/ (link # "open" /\ link' # "open")
        /\ \E kind \in {"notConnected", "limit", "write"} :
             last' = Result(n + 1, Outcome(kind, <<>>))
    BY DEF RefuseCall, WriteError, CanSend
  <1>2. /\ pc = "idle" /\ answer' = <<>> /\ UNCHANGED <<conn, stream>>
    BY <1>1 DEF Begin
  <1>3. /\ txID \in Int /\ txID' \in Int /\ txID <= txID' /\ txID' <= n'
        /\ stream \in Seq(Byte)
    <2>1. txID <= n /\ stream \in Seq(Byte)
      BY DEF AInv, NumbersGrow, IInv, TypeOK
    <2> QED BY <1>1, <2>1, NextNumber
  <1>4. NumbersGrow'
    <2>1. ASSUME NEW k \in Conns, NEW i \in 1..Len(requests[k])
          PROVE  TxOf(requests[k][i]) <= txID'
      <3>1. TxOf(requests[k][i]) \in Nat /\ TxOf(requests[k][i]) <= txID
        BY DEF AInv, NumbersGrow, IInv, RequestsFaithful, TxOf, TxIDs
      <3> QED BY <3>1, <1>3
    <2> QED BY <1>1, <1>3, <2>1 DEF NumbersGrow, TxOf
  <1>5. AnswerPlain' /\ HungUpEmpty' /\ WholeWhileOpen'
    BY <1>1, <1>2 DEF AInv, AnswerPlain, HungUpEmpty, WholeWhileOpen
  <1>6. AfterFailure'
    <2> SUFFICES ASSUME ~clean, conn # 0 PROVE Between'
      BY <1>1, <1>2 DEF AfterFailure
    <2>1. Between
      BY <1>2 DEF AInv, AfterFailure, Waiting, Behind, InStep, Answering
    <2>2. /\ OnlyOld(stream, txID) => OnlyOld(stream, txID')
          /\ OnlyOldSoFar(stream, txID) => OnlyOldSoFar(stream, txID')
      BY <1>3, StaysOld
    <2> QED BY <1>1, <1>2, <2>1, <2>2 DEF Between
  <1>7. NoForeignAnswer'
    BY <1>1 DEF NoForeignAnswer, Result, Outcome, Answered
  <1> QED BY <1>4, <1>5, <1>6, <1>7 DEF AInv

LEMMA SendIntoClosedBehind ==
    ASSUME IInv, AInv, MaxCalls < TxMod, NEW c \in Calls, SendIntoClosed(c)
    PROVE  AInv'
  <1>1. /\ Begin(c) /\ UNCHANGED <<requests, clean, link, last>>
        /\ txID' = nextTxID /\ pc' = "header" /\ link = "closed" /\ conn # 0
    BY DEF SendIntoClosed, CanSend
  <1>2. pc = "idle" /\ answer' = <<>> /\ UNCHANGED <<conn, stream>>
    BY <1>1 DEF Begin
  <1>3. /\ txID \in Int /\ txID' = txID + 1 /\ txID' \in Int /\ txID <= txID' /\ txID' <= n'
        /\ stream \in Seq(Byte)
    <2>1. stream \in Seq(Byte)
      BY DEF IInv, TypeOK
    <2> QED BY <1>1, <2>1, NextNumber
  <1>4. NumbersGrow'
    <2>1. ASSUME NEW k \in Conns, NEW i \in 1..Len(requests[k])
          PROVE  TxOf(requests[k][i]) <= txID'
      <3>1. TxOf(requests[k][i]) \in Nat /\ TxOf(requests[k][i]) <= txID
        BY DEF AInv, NumbersGrow, IInv, RequestsFaithful, TxOf, TxIDs
      <3> QED BY <3>1, <1>3
    <2> QED BY <1>1, <1>3, <2>1 DEF NumbersGrow, TxOf
  <1>5. AnswerPlain' /\ HungUpEmpty' /\ WholeWhileOpen' /\ NoForeignAnswer'
    BY <1>1, <1>2 DEF AInv, AnswerPlain, HungUpEmpty, WholeWhileOpen, NoForeignAnswer
  <1>6. AfterFailure'
    <2> SUFFICES ASSUME ~clean PROVE Behind'
      BY <1>1 DEF AfterFailure
    <2>1. OnlyOld(stream, txID)
      BY <1>1, <1>2 DEF AInv, AfterFailure, Between, Waiting, Behind, InStep, Answering
    <2>2. OnlyOld(stream, txID')
      BY <1>3, <2>1, StaysOld
    <2>3. Len(stream) >= 6 /\ HeaderAt(stream, 1) => Old(WordAt(stream, 1), txID)
      <3>1. Len(stream) >= 6 => 1 \in 1..(Len(stream) - 5)
        BY <1>3, LenProperties
      <3> QED BY <2>1, <3>1, Zenon DEF OnlyOld
    <2>4. txID' - 1 = txID
      BY <1>3
    <2>5. requests[conn] = <<>>
      BY <1>1 DEF AInv, HungUpEmpty
    <2>6. stream' = stream /\ requests'[conn'] = requests[conn] /\ link' # "open"
      BY <1>1, <1>2
    <2>7. OnlyOld(stream', txID')
      BY <2>2, <2>6, Zenon
    <2>8. Len(stream') >= 6 /\ HeaderAt(stream', 1) => Old(WordAt(stream', 1), txID' - 1)
      BY <2>3, <2>4, <2>6, Zenon
    <2> QED BY <1>1, <2>5, <2>6, <2>7, <2>8 DEF Behind
  <1> QED BY <1>4, <1>5, <1>6 DEF AInv

LEMMA SendRequestBehind ==
    ASSUME IInv, AInv, MaxCalls < TxMod, NEW c \in Calls, SendRequest(c)
    PROVE  AInv'
  <1>1. PICK r : r = [n |-> n + 1, call |-> c,
                      frame |-> Frame(nextTxID, UnitID, RequestPDU(c))]
    OBVIOUS
  <1>2. /\ Begin(c) /\ UNCHANGED <<clean, link, last>> /\ QuantityOK(c) /\ conn # 0
        /\ txID' = nextTxID /\ pc' = "header" /\ link = "open"
        /\ requests' = [requests EXCEPT ![conn] = Append(requests[conn], r)]
    BY <1>1 DEF SendRequest, CanSend
  <1>3. pc = "idle" /\ answer' = <<>> /\ UNCHANGED <<conn, stream>>
    BY <1>2 DEF Begin
  <1>4. /\ txID \in Int /\ txID' = txID + 1 /\ txID' \in Int /\ txID <= txID' /\ txID' <= n'
        /\ txID' - 1 = txID /\ stream \in Seq(Byte)
    <2>1. stream \in Seq(Byte)
      BY DEF IInv, TypeOK
    <2> QED BY <1>2, <2>1, NextNumber
  <1>5. requests \in [Conns -> Seq(Request)] /\ conn \in Conns
    BY <1>2, BoundsAssumption DEF IInv, TypeOK, Conns
  <1>6. PICK q \in Seq(Request) : q = requests[conn]
    BY <1>5
  <1>7. /\ \A j \in Conns : j # conn => requests'[j] = requests[j]
        /\ requests'[conn] = Append(q, r)
    BY <1>2, <1>5, <1>6
  <1>8. /\ Len(Append(q, r)) = Len(q) + 1 /\ Append(q, r)[Len(q) + 1] = r
        /\ \A i \in 1..Len(q) : Append(q, r)[i] = q[i]
        /\ Len(q) \in Nat /\ Append(q, r) # <<>>
    OBVIOUS
  <1>9. TxOf(r) = txID'
    <2>1. nextTxID \in TxIDs
      BY NextTxID DEF IInv, TypeOK
    <2>2. WordAt(Frame(nextTxID, UnitID, RequestPDU(c)), 1) = nextTxID
      BY <1>2, <2>1, RequestReady
    <2> QED BY <1>1, <1>2, <2>2 DEF TxOf
  <1>10. ASSUME NEW k \in Conns, NEW i \in 1..Len(requests[k])
         PROVE  TxOf(requests[k][i]) <= txID /\ TxOf(requests[k][i]) <= txID'
    <2>1. TxOf(requests[k][i]) \in Nat /\ TxOf(requests[k][i]) <= txID
      BY DEF AInv, NumbersGrow, IInv, RequestsFaithful, TxOf, TxIDs
    <2> QED BY <2>1, <1>4
  <1>11. NumbersGrow'
    <2>1. ASSUME NEW k \in Conns, NEW i \in 1..Len(requests'[k])
          PROVE  TxOf(requests'[k][i]) <= txID'
      <3>1. CASE k # conn
        BY <3>1, <1>7, <1>10
      <3>2. CASE k = conn
        <4>1. i \in 1..Len(q) \/ i = Len(q) + 1
          BY <3>2, <1>7, <1>8
        <4>2. CASE i \in 1..Len(q)
          BY <3>2, <4>2, <1>6, <1>7, <1>8, <1>10
        <4>3. CASE i = Len(q) + 1
          BY <3>2, <4>3, <1>4, <1>7, <1>8, <1>9
        <4> QED BY <4>1, <4>2, <4>3
      <3> QED BY <3>1, <3>2
    <2> QED BY <1>4, <2>1 DEF NumbersGrow, TxOf
  <1>12. AnswerPlain' /\ HungUpEmpty' /\ WholeWhileOpen' /\ NoForeignAnswer'
    BY <1>2, <1>3 DEF AInv, AnswerPlain, HungUpEmpty, WholeWhileOpen, NoForeignAnswer
  <1>13. AfterFailure'
    <2> SUFFICES ASSUME ~clean PROVE Waiting'
      BY <1>2 DEF AfterFailure
    <2>1. OnlyOldSoFar(stream, txID)
      BY <1>2, <1>3 DEF AInv, AfterFailure, Between, Waiting, Behind, InStep, Answering
    <2>2. OnlyOldSoFar(stream', txID' - 1)
      BY <1>3, <1>4, <2>1, Zenon
    <2>3. requests'[conn'][Len(requests'[conn'])] = r /\ r.n = n'
      <3>1. n' = n + 1
        BY <1>2 DEF Begin
      <3> QED BY <3>1, <1>1, <1>3, <1>7, <1>8
    <2>4. \A i \in 1..(Len(requests'[conn']) - 1) : TxOf(requests'[conn'][i]) <= txID' - 1
      <3> TAKE i \in 1..(Len(requests'[conn']) - 1)
      <3>1. i \in 1..Len(q) /\ requests'[conn'][i] = q[i]
        BY <1>3, <1>7, <1>8
      <3> QED BY <3>1, <1>4, <1>5, <1>6, <1>10
    <2>5. requests'[conn'] # <<>> /\ link' = "open"
      BY <1>2, <1>3, <1>7, <1>8
    <2> QED BY <1>2, <1>9, <2>2, <2>3, <2>4, <2>5 DEF Waiting, TxOf
  <1> QED BY <1>11, <1>12, <1>13 DEF AInv

(* What the device answers, and where it goes. *)
LEMMA AnswerSent ==
    ASSUME IInv, AnswersUnmistakable, NEW k \in Conns, Serve(k)
    PROVE  \E r \in Request, resp \in Seq(Byte) :
              /\ 1 \in 1..Len(requests[k]) /\ r = requests[k][1]
              /\ TxOf(r) \in TxIDs
              /\ 1 <= Len(resp) /\ Len(resp) <= maxPDU /\ Plain(resp)
              /\ requests' = [requests EXCEPT ![k] = Tail(requests[k])]
              /\ stream' = IF k = conn THEN stream \o Frame(TxOf(r), UnitID, resp) ELSE stream
              /\ answer' = IF pc # "idle" /\ r.n = n THEN resp ELSE answer
              /\ pc # "idle" /\ r.n = n => k = conn
              /\ UNCHANGED <<conn, txID, pc, n, call, pduLen, dials, link, clean, last>>
  <1> DEFINE req  == Head(requests[k])
             tx   == WordAt(req.frame, 1)
             h    == DecodeMBAP(req.frame)
             done == Dispatch(mem, SubSeq(req.frame, mbapLen + 1, mbapLen + h.len - 1))
  <1>1. requests[k] \in Seq(Request) /\ requests[k] # <<>> /\ mem \in Memory
    BY DEF Serve, IInv, TypeOK
  <1>2. 1 \in 1..Len(requests[k]) /\ req = requests[k][1] /\ req \in Request
    <2>1. Len(requests[k]) # 0
      BY <1>1, EmptySeq
    <2> QED BY <1>1, <2>1, LenProperties, HeadTailProperties
  <1>3. /\ req.call \in Calls /\ QuantityOK(req.call) /\ tx \in TxIDs
        /\ req.frame = Frame(tx, UnitID, RequestPDU(req.call))
        /\ pc # "idle" /\ req.n = n => k = conn
    BY <1>2 DEF Request, IInv, RequestsFaithful
  <1>4. /\ h.tx = tx /\ req.frame[mbapLen] = UnitID
        /\ done = Dispatch(mem, RequestPDU(req.call)) /\ Dispatched(done)
    <2> HIDE DEF tx
    <2> QED BY <1>1, <1>3, ServeFacts
  <1>5. /\ requests' = [requests EXCEPT ![k] = Tail(requests[k])]
        /\ stream' = IF k = conn THEN stream \o Frame(tx, UnitID, done.resp) ELSE stream
        /\ answer' = IF pc # "idle" /\ req.n = n THEN done.resp ELSE answer
        /\ UNCHANGED <<conn, txID, pc, n, call, pduLen, dials, link, clean, last>>
    BY <1>4 DEF Serve, Handled, clientVars
  <1>6. tx = TxOf(req)
    BY DEF TxOf
  <1> HIDE DEF done, req, tx, h
  <1>7. done.resp \in Seq(Byte) /\ 1 <= Len(done.resp) /\ Len(done.resp) <= maxPDU
    BY <1>4 DEF Dispatched
  <1>8. Unmistakable(done.resp)
    BY <1>3, <1>4 DEF AnswersUnmistakable
  <1>9. done.resp[1] # 0
    <2>1. WellFormed(req.call) /\ req.call.addr \in Addresses
      BY <1>3, CallsAssumption
    <2>2. Interpret(req.call, done.resp).kind \in {"ok", "exception"}
      BY <1>1, <1>3, <1>4, <2>1, ExchangeMeans, MeantKind DEF Answered
    <2>3. IsException(done.resp) \/ done.resp[1] = req.call.fc
      <3>1. Outcome("wrongFunction", <<>>).kind \notin {"ok", "exception"}
        BY DEF Outcome
      <3>2. ASSUME ~IsException(done.resp), done.resp[1] # req.call.fc
            PROVE  Interpret(req.call, done.resp) = Outcome("wrongFunction", <<>>)
        BY <3>2, Zenon DEF Interpret
      <3> QED BY <2>2, <3>1, <3>2
    <2>4. req.call.fc # 0
      <3>1. req.call.fc \in {1, 2, 3, 4, 5, 6, 15, 16}
        BY <1>3, <2>1, CallFields
      <3> QED BY <3>1
    <2>5. CASE IsException(done.resp)
      <3>1. PICK b \in Byte : b = done.resp[1]
        <4>1. 1 \in 1..Len(done.resp)
          BY <1>7, LenProperties
        <4> QED BY <4>1, <1>7, ElementOfSeq
      <3>2. b >= 128
        BY <2>5, <3>1 DEF IsException, exceptionBit
      <3>3. b # 0
        BY <3>2
      <3> QED BY <3>1, <3>3
    <2> QED BY <2>3, <2>4, <2>5
  <1> QED BY <1>2, <1>3, <1>5, <1>6, <1>7, <1>8, <1>9 DEF Plain

(* A request is taken up: the others keep their order. *)
LEMMA TakenUp ==
    ASSUME IInv, AInv, NEW k \in Conns, requests[k] # <<>>,
           requests' = [requests EXCEPT ![k] = Tail(requests[k])],
           UNCHANGED <<conn, txID, n, link>>
    PROVE  NumbersGrow' /\ HungUpEmpty'
  <1>1. requests \in [Conns -> Seq(Request)]
    BY DEF IInv, TypeOK
  <1>2. PICK q \in Seq(Request) : q = requests[k]
    BY <1>1
  <1>3. PICK rest \in Seq(Request) : rest = Tail(q)
    BY <1>2, HeadTailProperties
  <1>4. /\ \A j \in Conns : j # k => requests'[j] = requests[j]
        /\ requests'[k] = rest
    BY <1>1, <1>2, <1>3
  <1>5. /\ Len(rest) + 1 = Len(q) /\ Len(rest) \in Nat
        /\ \A i \in 1..Len(rest) : rest[i] = q[i + 1]
    BY <1>2, <1>3, HeadTailProperties, LenProperties
  <1>6. NumbersGrow'
    <2>1. ASSUME NEW j \in Conns, NEW i \in 1..Len(requests'[j])
          PROVE  TxOf(requests'[j][i]) <= txID
      <3>1. CASE j # k
        BY <3>1, <1>4 DEF AInv, NumbersGrow
      <3>2. CASE j = k
        <4>1. i + 1 \in 1..Len(q) /\ rest[i] = q[i + 1]
          BY <3>2, <1>4, <1>5
        <4> QED BY <3>2, <4>1, <1>2, <1>4 DEF AInv, NumbersGrow
      <3> QED BY <3>1, <3>2
    <2> QED BY <2>1 DEF AInv, NumbersGrow, TxOf
  <1>7. conn # 0 => conn \in Conns
    BY BoundsAssumption DEF IInv, TypeOK, Conns
  <1>8. k = conn /\ conn # 0 => link = "open"
    BY DEF AInv, HungUpEmpty
  <1>9. HungUpEmpty'
    BY <1>4, <1>7, <1>8 DEF AInv, HungUpEmpty
  <1> QED BY <1>6, <1>9

LEMMA ServeBehind ==
    ASSUME IInv, AInv, AnswersUnmistakable, NEW k \in Conns, Serve(k)
    PROVE  AInv'
  <1>1. PICK r \in Request, resp \in Seq(Byte) :
              /\ 1 \in 1..Len(requests[k]) /\ r = requests[k][1]
              /\ TxOf(r) \in TxIDs
              /\ 1 <= Len(resp) /\ Len(resp) <= maxPDU /\ Plain(resp)
              /\ requests' = [requests EXCEPT ![k] = Tail(requests[k])]
              /\ stream' = IF k = conn THEN stream \o Frame(TxOf(r), UnitID, resp) ELSE stream
              /\ answer' = IF pc # "idle" /\ r.n = n THEN resp ELSE answer
              /\ pc # "idle" /\ r.n = n => k = conn
              /\ UNCHANGED <<conn, txID, pc, n, call, pduLen, dials, link, clean, last>>
    BY AnswerSent
  <1>2. requests \in [Conns -> Seq(Request)]
    BY DEF IInv, TypeOK
  <1>3. PICK q \in Seq(Request) : q = requests[k]
    BY <1>2
  <1>4. PICK rest \in Seq(Request) : rest = Tail(q)
    <2>1. q # <<>>
      BY <1>3 DEF Serve
    <2> QED BY <2>1, HeadTailProperties
  <1>5. /\ \A j \in Conns : j # k => requests'[j] = requests[j]
        /\ requests'[k] = rest
    BY <1>1, <1>2, <1>3, <1>4
  <1>6. /\ Len(rest) + 1 = Len(q) /\ Len(rest) \in Nat
        /\ \A i \in 1..Len(rest) : rest[i] = q[i + 1]
    BY <1>1, <1>3, <1>4, HeadTailProperties, LenProperties
  <1>7. /\ stream \in Seq(Byte) /\ txID \in Nat /\ TxOf(r) \in Nat /\ TxOf(r) \in Words
        /\ TxOf(r) <= txID /\ q # <<>>
    <2>1. TxOf(r) <= txID
      BY <1>1 DEF AInv, NumbersGrow
    <2>2. q # <<>>
      BY <1>3 DEF Serve
    <2> QED BY <1>1, <2>1, <2>2, TxWord DEF IInv, TypeOK, TxIDs
  <1>8. NumbersGrow' /\ HungUpEmpty'
    BY <1>1, <1>3, <1>7, TakenUp
  <1>9. AnswerPlain'
    BY <1>1 DEF AInv, AnswerPlain
  <1>10. conn # 0 => conn \in Conns
    BY BoundsAssumption DEF IInv, TypeOK, Conns
  <1>12. NoForeignAnswer'
    BY <1>1 DEF AInv, NoForeignAnswer
  <1>13. CASE k # conn
    <2>1. UNCHANGED <<conn, txID, pc, n, link, clean, stream, answer>>
      BY <1>1, <1>13
    <2>2. conn # 0 => requests'[conn] = requests[conn]
      BY <1>5, <1>10, <1>13
    <2>3. WholeWhileOpen'
      BY <2>1 DEF AInv, WholeWhileOpen
    <2>4. AfterFailure'
      <3> SUFFICES ASSUME ~clean, conn # 0
                   PROVE  (Between \/ Waiting \/ Behind \/ InStep)'
        BY <2>1 DEF AfterFailure
      <3>1. Between \/ Waiting \/ Behind \/ InStep
        BY DEF AInv, AfterFailure
      <3>2. Between => Between'
        BY <2>1, <2>2 DEF Between
      <3>3. Waiting => Waiting'
        BY <2>1, <2>2 DEF Waiting, TxOf
      <3>4. Behind => Behind'
        BY <2>1, <2>2 DEF Behind
      <3>5. InStep => InStep'
        BY <1>1, <2>1, <2>2 DEF InStep, Answering
      <3> QED BY <3>1, <3>2, <3>3, <3>4, <3>5
    <2> QED BY <1>8, <1>9, <1>12, <2>3, <2>4 DEF AInv
  <1>14. CASE k = conn
    <2>1. PICK f : f = Frame(TxOf(r), UnitID, resp)
      OBVIOUS
    <2>2. PICK t : t = stream \o f
      OBVIOUS
    <2>3. /\ stream' = t /\ requests'[conn] = rest /\ requests[conn] = q /\ link = "open"
          /\ conn # 0
      <3>1. conn # 0
        BY <1>14 DEF Conns
      <3> QED BY <1>1, <1>3, <1>5, <1>7, <1>14, <2>1, <2>2, <3>1 DEF AInv, HungUpEmpty
    <2>4. /\ f \in Seq(Byte) /\ Len(f) = 7 + Len(resp) /\ 8 <= Len(f)
          /\ f[3] = 0 /\ f[4] = 0 /\ f[5] = 0
      <3>1. /\ f \in Seq(Byte) /\ Len(f) = 7 + Len(resp)
            /\ f[3] = 0 /\ f[4] = 0 /\ f[5] = 0
        BY <1>1, <1>7, <2>1, FrameBytes
      <3> QED BY <3>1, <1>1, LenProperties
    <2>5. t \in Seq(Byte) /\ Len(t) = Len(stream) + Len(f) /\ t # <<>>
      <3>1. t \in Seq(Byte) /\ Len(t) = Len(stream) + Len(f)
        BY <1>7, <2>2, <2>4, ConcatProperties
      <3>2. Len(t) # 0
        BY <3>1, <1>7, <2>4, LenProperties
      <3> QED BY <3>1, <3>2
    <2>6. ASSUME NEW m \in Nat, TxOf(r) <= m, OnlyOldSoFar(stream, m)
          PROVE  OnlyOldSoFar(t, m) /\ OnlyOld(t, m)
      <3>1. OnlyOldSoFar(f, m)
        BY <2>6, <1>1, <1>7, <2>1, FrameOnlyOld
      <3>2. OnlyOldSoFar(t, m)
        BY <3>1, <2>6, <1>7, <2>2, <2>4, FramesJoin
      <3> QED BY <3>2, <2>5, WholeHeader
    <2>7. WholeWhileOpen'
      <3> SUFFICES ASSUME clean, pc # "idle"
                   PROVE  pc = "header" /\ answer' = resp /\ stream' = Frame(txID, UnitID, resp)
        BY <1>1, <2>3 DEF WholeWhileOpen
      <3>1. Asked
        BY <2>3, <1>7 DEF IInv, CleanExchange, AtRest, Silence, Answering
      <3>2. r = [n |-> n, call |-> call, frame |-> Frame(txID, UnitID, RequestPDU(call))]
        BY <3>1, <1>1, <1>14 DEF Asked
      <3>3. TxOf(r) = txID
        <4>1. call \in Calls /\ txID \in TxIDs /\ QuantityOK(call)
          <5>1. QuantityOK(r.call)
            BY <1>1 DEF IInv, RequestsFaithful
          <5> QED BY <3>2, <5>1 DEF IInv, TypeOK
        <4> QED BY <4>1, <3>2, RequestReady DEF TxOf
      <3>4. t = f
        BY <3>1, <2>2, <2>4, ConcatEmptySeq DEF Asked
      <3> QED BY <3>1, <3>2, <3>3, <3>4, <1>1, <2>1, <2>3 DEF Asked
    <2>8. AfterFailure'
      <3> SUFFICES ASSUME ~clean
                   PROVE  (Between \/ Waiting \/ Behind \/ InStep)'
        BY <1>1 DEF AfterFailure
      <3>1. Between \/ Waiting
        BY <2>3, <1>7 DEF AInv, AfterFailure, Behind, InStep, Answering
      <3>2. CASE Between
        <4>1. OnlyOldSoFar(t, txID) /\ OnlyOld(t, txID)
          BY <3>2, <2>3, <2>6, <1>7 DEF Between
        <4>2. OnlyOldSoFar(stream', txID') /\ OnlyOld(stream', txID')
          BY <4>1, <1>1, <2>3, Zenon
        <4>3. pc' = "idle"
          BY <3>2, <1>1 DEF Between
        <4> QED BY <4>2, <4>3 DEF Between
      <3>3. CASE Waiting /\ rest # <<>>
        <4>1. Len(rest) >= 1 /\ 1 \in 1..(Len(q) - 1)
          <5>1. Len(rest) # 0
            BY <3>3, EmptySeq
          <5> QED BY <5>1, <1>6
        <4>2. TxOf(r) <= txID - 1
          BY <4>1, <3>3, <1>1, <1>3, <2>3 DEF Waiting
        <4>3. txID - 1 \in Nat
          BY <4>2, <1>7
        <4>4. OnlyOldSoFar(t, txID - 1)
          BY <4>2, <4>3, <3>3, <2>6 DEF Waiting
        <4>5. OnlyOldSoFar(stream', txID' - 1)
          BY <4>4, <1>1, <2>3, Zenon
        <4>6. \A i \in 1..(Len(requests'[conn']) - 1) : TxOf(requests'[conn'][i]) <= txID' - 1
          <5> TAKE i \in 1..(Len(requests'[conn']) - 1)
          <5>1. i \in 1..Len(rest) /\ i + 1 \in 1..(Len(q) - 1)
            BY <1>1, <1>6, <2>3
          <5>2. requests'[conn'][i] = q[i + 1]
            BY <5>1, <1>1, <1>6, <2>3
          <5> QED BY <5>1, <5>2, <3>3, <1>1, <2>3 DEF Waiting
        <4>7. /\ pc' = "header" /\ link' = "open" /\ requests'[conn'] # <<>>
          BY <3>3, <1>1, <2>3 DEF Waiting
        <4>8. /\ requests'[conn'][Len(requests'[conn'])].n = n'
              /\ TxOf(requests'[conn'][Len(requests'[conn'])]) = txID'
          <5>1. requests'[conn'][Len(requests'[conn'])] = requests[conn][Len(requests[conn])]
            BY <4>1, <1>1, <1>6, <2>3
          <5> QED BY <5>1, <3>3, <1>1 DEF Waiting
        <4> QED BY <4>5, <4>6, <4>7, <4>8 DEF Waiting, TxOf
      <3>4. CASE Waiting /\ rest = <<>> /\ stream = <<>>
        <4>1. r.n = n /\ TxOf(r) = txID
          <5>1. Len(q) = 1
            BY <3>4, <1>6
          <5>2. requests[conn][Len(requests[conn])] = r
            BY <5>1, <1>1, <1>3, <2>3
          <5> QED BY <5>2, <3>4 DEF Waiting
        <4>2. pc' = "header" /\ requests'[conn'] = <<>> /\ answer' = resp
          BY <3>4, <4>1, <1>1, <2>3 DEF Waiting
        <4>3. stream' = Frame(txID, UnitID, resp) /\ stream' \in Seq(Byte)
          <5>1. t = f
            BY <3>4, <2>2, <2>4, ConcatEmptySeq
          <5> QED BY <5>1, <4>1, <2>1, <2>3, <2>4
        <4>4. Begins(stream', stream')
          BY <4>3, BeginsWhole
        <4>5. Answering'
          <5>1. answer' # <<>>
            BY <4>2, <1>1, EmptySeq
          <5>2. Begins(stream', Frame(txID', UnitID, answer'))
            BY <4>2, <4>3, <4>4, <1>1
          <5> QED BY <5>1, <5>2, <4>2 DEF Answering
        <4> QED BY <4>2, <4>3, <4>5, <1>1 DEF InStep
      <3>5. CASE Waiting /\ rest = <<>> /\ stream # <<>>
        <4>1. stream # <<>>
          BY <3>5
        <4>2. OnlyOldSoFar(stream, txID - 1)
          BY <3>5 DEF Waiting
        <4>3. OnlyOldSoFar(stream, txID)
          <5>1. txID - 1 \in Int /\ txID \in Int /\ txID - 1 <= txID
            BY <1>7
          <5> QED BY <5>1, <4>2, <1>7, StaysOld
        <4>4. OnlyOldSoFar(stream', txID') /\ OnlyOld(stream', txID')
          BY <4>3, <1>1, <1>7, <2>3, <2>6
        <4>5. Len(stream') >= 9 /\ 1 \in 1..Len(stream)
          <5>1. Len(stream) # 0
            BY <4>1, <1>7, EmptySeq
          <5> QED BY <5>1, <1>7, <2>3, <2>4, <2>5, LenProperties
        <4>6. HeaderAt(stream', 1) => Old(WordAt(stream', 1), txID' - 1)
          <5>1. HeaderAt(t, 1) => MayBeHeader(t, 1)
            BY Zenon DEF HeaderAt, MayBeHeader
          <5>2. MayBeHeader(t, 1) => Old(WordAt(t, 1), txID - 1)
            BY <4>2, <4>5, <1>7, <2>2, <2>4, FrameFollows
          <5> QED BY <5>1, <5>2, <1>1, <2>3, Zenon
        <4>7. pc' = "header" /\ requests'[conn'] = <<>>
          BY <3>5, <1>1, <2>3 DEF Waiting
        <4> QED BY <4>4, <4>5, <4>6, <4>7 DEF Behind
      <3> QED BY <3>1, <3>2, <3>3, <3>4, <3>5
    <2> QED BY <1>8, <1>9, <1>12, <2>7, <2>8 DEF AInv
  <1> QED BY <1>13, <1>14

(* The device stays silent: the request is gone and nothing comes of it. *)
LEMMA SilentBehind ==
    ASSUME IInv, AInv, NEW k \in Conns, RequestLost(k) \/ AnswerLost(k)
    PROVE  AInv'
  <1>1. /\ requests[k] # <<>>
        /\ requests' = [requests EXCEPT ![k] = Tail(requests[k])]
        /\ UNCHANGED <<conn, txID, pc, n, call, pduLen, dials, stream, link, answer, clean, last>>
    BY DEF RequestLost, AnswerLost, Unanswered, clientVars
  <1>2. NumbersGrow' /\ HungUpEmpty'
    BY <1>1, TakenUp
  <1>3. AnswerPlain' /\ WholeWhileOpen' /\ NoForeignAnswer'
    BY <1>1 DEF AInv, AnswerPlain, WholeWhileOpen, NoForeignAnswer
  <1>4. requests \in [Conns -> Seq(Request)] /\ txID \in Nat /\ stream \in Seq(Byte)
    BY DEF IInv, TypeOK, TxIDs
  <1>5. conn # 0 => conn \in Conns
    BY BoundsAssumption DEF IInv, TypeOK, Conns
  <1>6. AfterFailure'
    <2> SUFFICES ASSUME ~clean, conn # 0
                 PROVE  (Between \/ Waiting \/ Behind \/ InStep)'
      BY <1>1 DEF AfterFailure
    <2>1. Between \/ Waiting \/ Behind \/ InStep
      BY DEF AInv, AfterFailure
    <2>2. CASE k # conn
      <3>1. requests'[conn] = requests[conn]
        BY <2>2, <1>1, <1>4, <1>5
      <3>2. Between => Between'
        BY <1>1 DEF Between
      <3>3. Waiting => Waiting'
        BY <3>1, <1>1 DEF Waiting, TxOf
      <3>4. Behind => Behind'
        BY <3>1, <1>1 DEF Behind
      <3>5. InStep => InStep'
        BY <3>1, <1>1 DEF InStep, Answering
      <3> QED BY <2>1, <3>2, <3>3, <3>4, <3>5
    <2>3. CASE k = conn
      <3>1. PICK q \in Seq(Request) : q = requests[conn]
        BY <2>3, <1>4
      <3>2. PICK rest \in Seq(Request) : rest = Tail(q)
        BY <2>3, <3>1, <1>1, HeadTailProperties
      <3>3. requests'[conn'] = rest /\ q # <<>>
        BY <2>3, <3>1, <3>2, <1>1, <1>4
      <3>4. /\ Len(rest) + 1 = Len(q) /\ Len(rest) \in Nat
            /\ \A i \in 1..Len(rest) : rest[i] = q[i + 1]
        BY <3>2, <3>3, HeadTailProperties, LenProperties
      <3>5. Between \/ Waiting
        BY <2>1, <3>1, <3>3 DEF Behind, InStep, Answering
      <3>6. Between => Between'
        BY <1>1 DEF Between
      <3>7. CASE Waiting /\ rest # <<>>
        <4>1. Len(rest) # 0
          BY <3>7, EmptySeq
        <4>2. requests'[conn'][Len(requests'[conn'])] = requests[conn][Len(requests[conn])]
          BY <4>1, <3>1, <3>3, <3>4
        <4>3. \A i \in 1..(Len(requests'[conn']) - 1) : TxOf(requests'[conn'][i]) <= txID' - 1
          <5> TAKE i \in 1..(Len(requests'[conn']) - 1)
          <5>1. i \in 1..Len(rest) /\ i + 1 \in 1..(Len(q) - 1)
            BY <3>3, <3>4
          <5>2. requests'[conn'][i] = q[i + 1]
            BY <5>1, <3>3, <3>4
          <5> QED BY <5>1, <5>2, <3>1, <3>7, <1>1 DEF Waiting
        <4>4. requests'[conn'] # <<>>
          BY <3>3, <3>7
        <4> QED BY <4>2, <4>3, <4>4, <3>7, <1>1 DEF Waiting, TxOf
      <3>8. CASE Waiting /\ rest = <<>>
        <4>1. OnlyOldSoFar(stream, txID - 1) /\ pc = "header"
          BY <3>8 DEF Waiting
        <4>2. txID - 1 \in Int /\ txID \in Int /\ txID - 1 <= txID
          BY <1>4
        <4>3. OnlyOldSoFar(stream, txID)
          BY <4>1, <4>2, <1>4, StaysOld
        <4>4. OnlyOld(stream, txID) /\ OnlyOld(stream, txID - 1)
          BY <4>1, <4>3, <1>4, WholeHeader
        <4>5. Len(stream) >= 6 /\ HeaderAt(stream, 1) => Old(WordAt(stream, 1), txID - 1)
          <5>1. Len(stream) >= 6 => 1 \in 1..(Len(stream) - 5)
            BY <1>4, LenProperties
          <5> QED BY <4>4, <5>1, Zenon DEF OnlyOld
        <4> QED BY <4>1, <4>3, <4>4, <4>5, <3>3, <3>8, <1>1 DEF Behind
      <3> QED BY <3>5, <3>6, <3>7, <3>8
    <2> QED BY <2>2, <2>3
  <1> QED BY <1>2, <1>3, <1>6 DEF AInv

LEMMA DropBehind ==
    ASSUME IInv, AInv, NEW k \in Conns, Drop(k)
    PROVE  AInv'
  <1>1. /\ requests' = [requests EXCEPT ![k] = <<>>]
        /\ UNCHANGED <<conn, txID, pc, n, call, pduLen, dials, mem, answer, clean, last>>
    BY DEF Drop, clientVars
  <1>2. /\ \A j \in Conns : j # k => requests'[j] = requests[j]
        /\ requests'[k] = <<>>
    BY <1>1 DEF IInv, TypeOK
  <1>3. NumbersGrow'
    <2>1. ASSUME NEW j \in Conns, NEW i \in 1..Len(requests'[j])
          PROVE  requests'[j] = requests[j]
      <3>1. j # k
        BY <1>2
      <3> QED BY <3>1, <1>2
    <2> QED BY <1>1, <2>1 DEF AInv, NumbersGrow, TxOf
  <1>4. AnswerPlain' /\ NoForeignAnswer'
    BY <1>1 DEF AInv, AnswerPlain, NoForeignAnswer
  <1>5. conn # 0 => conn \in Conns
    BY BoundsAssumption DEF IInv, TypeOK, Conns
  <1>6. CASE k # conn
    <2>1. link' = link /\ stream' = stream
      BY <1>6 DEF Drop
    <2>2. conn # 0 => requests'[conn] = requests[conn]
      BY <1>2, <1>5, <1>6
    <2>3. HungUpEmpty' /\ WholeWhileOpen'
      BY <1>1, <2>1, <2>2 DEF AInv, HungUpEmpty, WholeWhileOpen
    <2>4. AfterFailure'
      <3> SUFFICES ASSUME ~clean, conn # 0
                   PROVE  (Between \/ Waiting \/ Behind \/ InStep)'
        BY <1>1 DEF AfterFailure
      <3>1. Between \/ Waiting \/ Behind \/ InStep
        BY DEF AInv, AfterFailure
      <3>2. Between => Between'
        BY <1>1, <2>1, <2>2 DEF Between
      <3>3. Waiting => Waiting'
        BY <1>1, <2>1, <2>2 DEF Waiting, TxOf
      <3>4. Behind => Behind'
        BY <1>1, <2>1, <2>2 DEF Behind
      <3>5. InStep => InStep'
        BY <1>1, <2>1, <2>2 DEF InStep, Answering
      <3> QED BY <3>1, <3>2, <3>3, <3>4, <3>5
    <2> QED BY <1>3, <1>4, <2>3, <2>4 DEF AInv
  <1>7. CASE k = conn
    <2>1. link' = "closed" /\ requests'[conn'] = <<>>
      BY <1>1, <1>2, <1>7 DEF Drop
    <2>2. HungUpEmpty' /\ WholeWhileOpen'
      BY <2>1 DEF HungUpEmpty, WholeWhileOpen
    <2>3. stream \in Seq(Byte) /\ stream' \in Seq(Byte) /\ Begins(stream', stream) /\ txID \in Nat
      <3>1. PICK kept \in 0..Len(stream) : stream' = SubSeq(stream, 1, kept)
        BY <1>7 DEF Drop
      <3>2. stream \in Seq(Byte) /\ txID \in Nat
        BY DEF IInv, TypeOK, TxIDs
      <3>3. kept \in Nat /\ kept <= Len(stream)
        BY <3>1, <3>2, LenProperties
      <3> QED BY <3>1, <3>2, <3>3, FirstAndRest DEF Begins
    <2>4. AfterFailure'
      <3> SUFFICES ASSUME ~clean, conn # 0
                   PROVE  (Between \/ Behind \/ InStep)'
        BY <1>1 DEF AfterFailure
      <3>1. CASE Between
        <4>1. OnlyOld(stream', txID')
          BY <3>1, <1>1, <2>3, StartOnlyOld DEF Between
        <4> QED BY <3>1, <4>1, <1>1, <2>1 DEF Between
      <3>2. CASE Waiting \/ Behind
        <4>1. OnlyOld(stream, txID)
          <5>1. pc # "idle"
            BY <3>2 DEF Waiting, Behind
          <5> QED BY <5>1, InTheMiddle
        <4>2. OnlyOld(stream', txID')
          BY <4>1, <1>1, <2>3, StartOnlyOld
        <4>3. Len(stream) >= 6 /\ HeaderAt(stream, 1) => Old(WordAt(stream, 1), txID - 1)
          <5>1. CASE Waiting
            <6>1. OnlyOld(stream, txID - 1)
              BY <5>1, <2>3, WholeHeader DEF Waiting
            <6>2. Len(stream) >= 6 => 1 \in 1..(Len(stream) - 5)
              BY <2>3, LenProperties
            <6> QED BY <6>1, <6>2, Zenon DEF OnlyOld
          <5>2. CASE Behind
            BY <5>2, Zenon DEF Behind
          <5> QED BY <3>2, <5>1, <5>2
        <4>4. Len(stream') >= 6 /\ HeaderAt(stream', 1) => Old(WordAt(stream', 1), txID' - 1)
          <5> SUFFICES ASSUME Len(stream') >= 6, HeaderAt(stream', 1)
                       PROVE  Old(WordAt(stream', 1), txID' - 1)
            OBVIOUS
          <5>1. /\ Len(stream) >= 6
                /\ stream'[1] = stream[1] /\ stream'[1 + 1] = stream[1 + 1]
                /\ stream'[1 + 2] = stream[1 + 2] /\ stream'[1 + 3] = stream[1 + 3]
                /\ stream'[1 + 4] = stream[1 + 4] /\ stream'[1 + 5] = stream[1 + 5]
            <6>1. /\ Len(stream') <= Len(stream)
                  /\ \A i \in 1..Len(stream') : stream'[i] = stream[i]
              BY <2>3 DEF Begins
            <6>2. /\ 1 \in 1..Len(stream') /\ 1 + 1 \in 1..Len(stream')
                  /\ 1 + 2 \in 1..Len(stream') /\ 1 + 3 \in 1..Len(stream')
                  /\ 1 + 4 \in 1..Len(stream') /\ 1 + 5 \in 1..Len(stream')
              BY <2>3, LenProperties
            <6>3. Len(stream) >= 6
              BY <6>1, <2>3, LenProperties
            <6> QED BY <6>1, <6>2, <6>3
          <5>2. HeaderAt(stream, 1) /\ WordAt(stream', 1) = WordAt(stream, 1)
            BY <5>1, Zenon DEF HeaderAt, WordAt
          <5> QED BY <5>1, <5>2, <4>3, <1>1, Zenon
        <4>5. pc' = "header"
          BY <3>2, <1>1 DEF Waiting, Behind
        <4> QED BY <4>2, <4>4, <4>5, <2>1 DEF Behind
      <3>3. CASE InStep
        <4>1. \A whole : Begins(stream, whole) => Begins(stream', whole)
          <5> TAKE whole
          <5>1. Len(stream') \in Nat /\ Len(stream) \in Nat
            BY <2>3, LenProperties
          <5> QED BY <5>1, <2>3 DEF Begins
        <4>2. Answering'
          BY <3>3, <4>1, <1>1, <2>1 DEF InStep, Answering
        <4> QED BY <4>2, <2>1 DEF InStep
      <3> QED BY <3>1, <3>2, <3>3 DEF AInv, AfterFailure
    <2> QED BY <1>3, <1>4, <2>2, <2>4 DEF AInv
  <1> QED BY <1>6, <1>7

LEMMA NeverCaughtUp == MaxCalls < TxMod => (Spec /\ []AnswersUnmistakable => []AInv)
  <1> SUFFICES ASSUME MaxCalls < TxMod
               PROVE  Spec /\ []AnswersUnmistakable => []AInv
    OBVIOUS
  <1>1. ASSUME IInv, MInv, AInv, AnswersUnmistakable, [Next]_vars
        PROVE  AInv'
    <2>1. CASE Connect \/ Close
      BY <1>1, <2>1, ConnectBehind, CloseBehind
    <2>2. ASSUME NEW c \in Calls,
                 RefuseCall(c) \/ SendRequest(c) \/ SendIntoClosed(c) \/ WriteError(c)
          PROVE  AInv'
      BY <1>1, <2>2, UnsentBehind, SendRequestBehind, SendIntoClosedBehind
    <2>3. CASE ReadHeader \/ ReadPDU \/ Timeout \/ ReadEOF
      BY <1>1, <2>3, ReadHeaderBehind, ReadPDUBehind, TimeoutBehind, ReadEOFBehind
    <2>4. ASSUME NEW k \in Conns, Serve(k) \/ RequestLost(k) \/ AnswerLost(k) \/ Drop(k)
          PROVE  AInv'
      BY <1>1, <2>4, ServeBehind, SilentBehind, DropBehind
    <2>5. CASE UNCHANGED vars
      BY <1>1, <2>5 DEF vars, AInv, NumbersGrow, AnswerPlain, HungUpEmpty, WholeWhileOpen,
                        AfterFailure, NoForeignAnswer, Between, Waiting, Behind, InStep, Answering,
                        TxOf
    <2> QED BY <1>1, <2>1, <2>2, <2>3, <2>4, <2>5 DEF Next
  <1> QED BY <1>1, InitAInv, MeansInvariance, PTL DEF Spec

(* Whatever failed before on a connection, a call that returns data, an    *)
(* acknowledgement or an exception returns what the device answered to     *)
(* that very call.  do reads on from where a failed call stopped, and what *)
(* it then reads as a header has the number of the call in progress only   *)
(* when that header belongs to the call (client.go, do).  Two conditions,  *)
(* neither of which can be spared: the numbers have not wrapped yet, and   *)
(* no answer holds bytes that can be taken for a header with the number of *)
(* a call.                                                                 *)
THEOREM NoForeignAnswers ==
    MaxCalls < TxMod => (Spec /\ []AnswersUnmistakable => []NoForeignAnswer)
  BY NeverCaughtUp, PTL DEF AInv
=============================================================================
