---------------------------- MODULE ModbusClient ----------------------------
(***************************************************************************)
(* internal/modbus/client.go talking to one device over TCP.               *)
(*                                                                         *)
(* The client is synchronous: its mutex makes every call, Connect and      *)
(* Close one critical section, so callers are a single sequence of calls.  *)
(* Inside a call the network, the deadline and the device interleave       *)
(* freely: the client is between calls (idle), in the first io.ReadFull    *)
(* (header) or in the second (pdu).                                        *)
(*                                                                         *)
(* stream is every byte the device sent on the current connection that the *)
(* client has not read.  How many of them have arrived is not kept: a read *)
(* may complete at any time after the bytes were sent, and a timeout may   *)
(* come first whatever was sent.                                           *)
(*                                                                         *)
(* The device serves every connection with a goroutine of its own          *)
(* (internal/mock/server.go, handle): requests[k] is what connection k has *)
(* carried to it and it has not taken up.                                  *)
(***************************************************************************)
EXTENDS MockDevice

CONSTANTS Calls,            \* the calls a caller may make
          MaxCalls,         \* how many calls are made (bound)
          MaxDials,         \* how many connections are dialled (bound)
          TxMod,            \* transaction numbers wrap at TxMod; 65536 in the code
          UnitID,           \* the Modbus unit identifier
          InitMem,          \* the device's tables at the start
          ReuseAfterError   \* do callers keep a connection after a failed call?

(* The address of a call is a cell of the device: both have 16 bits. *)
ASSUME CallsAssumption   == \A c \in Calls : WellFormed(c) /\ c.addr \in Addresses
ASSUME BoundsAssumption  == MaxCalls \in Nat /\ MaxDials \in Nat
ASSUME TxModAssumption   == TxMod \in Nat /\ 0 < TxMod /\ TxMod <= 65536
ASSUME UnitAssumption    == UnitID \in Byte
ASSUME InitMemAssumption == InitMem \in Memory
ASSUME ReuseAssumption   == ReuseAfterError \in BOOLEAN

VARIABLES conn,      \* the current connection, 0 when c.conn is nil
          dials,     \* connections dialled so far
          txID,      \* the last transaction number handed out
          pc,        \* idle, header or pdu
          n,         \* the number of the last call made
          call,      \* that call
          pduLen,    \* in the pdu phase, the bytes the header announced
          stream,    \* bytes the device sent that the client has not read
          link,      \* the current connection: open; closed by the device; broken,
                     \* once the client's socket has noticed on a write
          requests,  \* per connection, the frames on their way to the device
          mem,       \* the device's tables
          answer,    \* ghost: what the device answered to the call in progress
          clean,     \* ghost: no call whose request was sent has failed on
                     \* the current connection
          last       \* the result of the last call

clientVars == <<conn, txID, pc, n, call, pduLen>>
linkVars   == <<dials, stream, link, requests>>
vars       == <<conn, dials, txID, pc, n, call, pduLen, stream, link,
                requests, mem, answer, clean, last>>

Conns == 1..MaxDials

(* The results a call can have that leave its connection as good as it     *)
(* was.  A call that fails before anything is sent does so too.            *)
Answered == {"ok", "exception"}

Init == /\ conn = 0
        /\ dials = 0
        /\ txID = 0
        /\ pc = "idle"
        /\ n = 0
        /\ call \in Calls
        /\ pduLen = 0
        /\ stream = <<>>
        /\ link = "open"
        /\ requests = [k \in Conns |-> <<>>]
        /\ mem = InitMem
        /\ answer = <<>>
        /\ clean = TRUE
        /\ last = [n |-> 0, kind |-> "none", vals |-> <<>>, fresh |-> TRUE]

(***************************************************************************)
(* Connect and Close.  Connect does not look at c.conn: an open connection *)
(* is simply forgotten.  Either way the device's handler of the old        *)
(* connection goes on with what it was sent.                               *)
(***************************************************************************)
Connect ==
    /\ pc = "idle"
    /\ dials < MaxDials
    /\ dials' = dials + 1
    /\ conn' = dials + 1
    /\ stream' = <<>>
    /\ link' = "open"
    /\ clean' = TRUE
    /\ UNCHANGED <<txID, pc, n, call, pduLen, requests, mem, answer, last>>

Close ==
    /\ pc = "idle"
    /\ conn # 0
    /\ conn' = 0
    /\ stream' = <<>>
    /\ UNCHANGED <<dials, txID, pc, n, call, pduLen, link, requests,
                   mem, answer, clean, last>>

(***************************************************************************)
(* A call up to and including conn.Write.                                  *)
(***************************************************************************)
Result(num, outcome) ==
    [n |-> num, kind |-> outcome.kind, vals |-> outcome.vals, fresh |-> clean]

Begin(c) ==
    /\ pc = "idle"
    /\ n < MaxCalls
    /\ ReuseAfterError \/ clean
    /\ n' = n + 1
    /\ call' = c
    /\ answer' = <<>>
    /\ UNCHANGED <<conn, dials, pduLen, stream, mem>>

(* The quantity check and the nil check come before anything is sent. *)
RefuseCall(c) ==
    /\ Begin(c)
    /\ ~QuantityOK(c) \/ conn = 0
    /\ last' = Result(n + 1, Outcome(IF QuantityOK(c) THEN "notConnected" ELSE "limit", <<>>))
    /\ UNCHANGED <<txID, pc, link, requests, clean>>

CanSend(c) == Begin(c) /\ QuantityOK(c) /\ conn # 0

TxIDs    == {tx \in Nat : tx < TxMod}
nextTxID == (txID + 1) % TxMod

(* The frame goes out whole in one Write. *)
SendRequest(c) ==
    /\ CanSend(c)
    /\ link = "open"
    /\ txID' = nextTxID
    /\ requests' = [requests EXCEPT ![conn] = Append(@,
                      [n |-> n + 1, call |-> c,
                       frame |-> Frame(nextTxID, UnitID, RequestPDU(c))])]
    /\ pc' = "header"
    /\ UNCHANGED <<link, clean, last>>

(* The first Write after the peer closed is accepted by the local socket   *)
(* and goes nowhere.                                                       *)
SendIntoClosed(c) ==
    /\ CanSend(c)
    /\ link = "closed"
    /\ txID' = nextTxID
    /\ pc' = "header"
    /\ UNCHANGED <<link, requests, clean, last>>

(* After that it fails, and goes on failing.  (On an open connection it    *)
(* does not: the deadline was set just before, and a frame of this size    *)
(* fits the socket's buffer.)                                              *)
WriteError(c) ==
    /\ CanSend(c)
    /\ link # "open"
    /\ link' = "broken"
    /\ txID' = nextTxID
    /\ last' = Result(n + 1, Outcome("write", <<>>))
    /\ UNCHANGED <<pc, requests, clean>>

(***************************************************************************)
(* The rest of a call: read the header, then the PDU, then interpret it.   *)
(***************************************************************************)
Finish(outcome) ==
    /\ pc' = "idle"
    /\ last' = Result(n, outcome)
    /\ clean' = (clean /\ outcome.kind \in Answered)
    /\ UNCHANGED <<conn, dials, txID, n, call, link, requests, mem, answer>>

Consume(count) == stream' = SubSeq(stream, count + 1, Len(stream))

(* Mutant: the transaction number of the response is not compared. *)
ReadHeaderUnchecked ==
    /\ pc = "header"
    /\ Len(stream) >= mbapLen
    /\ DecodeMBAP(stream).ok
    /\ Consume(mbapLen)
    /\ pc' = "pdu"
    /\ pduLen' = DecodeMBAP(stream).len - 1
    /\ UNCHANGED <<conn, dials, txID, n, call, link, requests, mem, answer, clean, last>>

(* A header that is not Modbus, or carries another transaction number,     *)
(* ends the call there: the PDU that follows it stays unread.              *)
ReadHeader ==
    /\ pc = "header"
    /\ Len(stream) >= mbapLen
    /\ Consume(mbapLen)
    /\ LET h == DecodeMBAP(stream)
       IN  \/ /\ ~h.ok
              /\ Finish(Outcome("badHeader", <<>>))
              /\ pduLen' = pduLen
           \/ /\ h.ok /\ h.tx # txID
              /\ Finish(Outcome("transaction", <<>>))
              /\ pduLen' = pduLen
           \/ /\ h.ok /\ h.tx = txID
              /\ pc' = "pdu"
              /\ pduLen' = h.len - 1
              /\ UNCHANGED <<conn, dials, txID, n, call, link, requests,
                             mem, answer, clean, last>>

ReadPDU ==
    /\ pc = "pdu"
    /\ Len(stream) >= pduLen
    /\ Consume(pduLen)
    /\ pduLen' = 0
    /\ Finish(Interpret(call, SubSeq(stream, 1, pduLen)))

(* How many bytes the io.ReadFull in progress wants. *)
Wanted == IF pc = "header" THEN mbapLen ELSE pduLen

(* Mutant: the deadline covers the first read only. *)
TimeoutHeaderOnly ==
    /\ pc = "header"
    /\ \E taken \in 0..(Wanted - 1) : taken <= Len(stream) /\ Consume(taken)
    /\ pduLen' = 0
    /\ Finish(Outcome("timeout", <<>>))

(* Mutant: a request that got no answer in time is sent once more. *)
TimeoutRetries ==
    /\ pc = "header"
    /\ conn # 0 /\ link = "open"
    /\ Len(requests[conn]) < 2
    /\ requests' = [requests EXCEPT ![conn] = Append(@,
                      [n |-> n, call |-> call,
                       frame |-> Frame(txID, UnitID, RequestPDU(call))])]
    /\ UNCHANGED <<clientVars, dials, stream, link, mem, answer, clean, last>>

(* Mutant: a call whose request was sent counts as done when time is up. *)
TimeoutOptimistic ==
    /\ pc # "idle"
    /\ UNCHANGED stream
    /\ pduLen' = 0
    /\ Finish(Outcome("ok", <<>>))

(* The deadline passes.  The bytes io.ReadFull had already taken from the  *)
(* socket are gone with it.                                                *)
Timeout ==
    /\ pc # "idle"
    /\ \E taken \in 0..(Wanted - 1) : taken <= Len(stream) /\ Consume(taken)
    /\ pduLen' = 0
    /\ Finish(Outcome("timeout", <<>>))

(* The peer has closed and everything it sent is read. *)
ReadEOF ==
    /\ pc # "idle"
    /\ link # "open"
    /\ Len(stream) < Wanted
    /\ stream' = <<>>
    /\ pduLen' = 0
    /\ Finish(Outcome("eof", <<>>))

(***************************************************************************)
(* The device and the network.                                             *)
(***************************************************************************)

(* What the device makes of the next request of connection k. *)
Handled(k) ==
    LET frame == Head(requests[k]).frame
    IN  Dispatch(mem, SubSeq(frame, mbapLen + 1, mbapLen + DecodeMBAP(frame).len - 1))

(* One turn of the loop in handle: take a frame, dispatch, write the       *)
(* response.  On a connection the client has left the response goes        *)
(* nowhere.                                                                *)
Serve(k) ==
    /\ requests[k] # <<>>
    /\ LET req  == Head(requests[k])
           tx   == DecodeMBAP(req.frame).tx
           unit == req.frame[mbapLen]
           resp == Handled(k).resp
       IN  /\ mem' = Handled(k).mem
           /\ requests' = [requests EXCEPT ![k] = Tail(@)]
           /\ stream' = IF k = conn THEN stream \o Frame(tx, unit, resp) ELSE stream
           /\ answer' = IF pc # "idle" /\ req.n = n THEN resp ELSE answer
    /\ UNCHANGED <<clientVars, dials, link, clean, last>>

(* A device, or a gateway before it, that takes a request up and stays     *)
(* silent: it never passed the request on, or the answer got lost on its   *)
(* far side.  The connection stays open, and of this exchange nothing is   *)
(* left on it.                                                             *)
Unanswered(k) ==
    /\ requests[k] # <<>>
    /\ requests' = [requests EXCEPT ![k] = Tail(@)]
    /\ UNCHANGED <<clientVars, dials, stream, link, answer, clean, last>>

RequestLost(k) == Unanswered(k) /\ UNCHANGED mem
AnswerLost(k)  == Unanswered(k) /\ mem' = Handled(k).mem

(* The handler ends and closes its connection (an injected drop, a device  *)
(* restart), or the connection breaks.  What it had not taken up is lost,  *)
(* and of what it had sent any suffix may be lost too.                     *)
Drop(k) ==
    /\ k <= dials
    /\ requests' = [requests EXCEPT ![k] = <<>>]
    /\ IF k = conn
       THEN /\ link = "open"
            /\ link' = "closed"
            /\ \E kept \in 0..Len(stream) : stream' = SubSeq(stream, 1, kept)
       ELSE requests[k] # <<>> /\ UNCHANGED <<link, stream>>
    /\ UNCHANGED <<clientVars, dials, mem, answer, clean, last>>

Next == \/ Connect
        \/ Close
        \/ \E c \in Calls : \/ RefuseCall(c)
                            \/ SendRequest(c)
                            \/ SendIntoClosed(c)
                            \/ WriteError(c)
        \/ ReadHeader
        \/ ReadPDU
        \/ Timeout
        \/ ReadEOF
        \/ \E k \in Conns : \/ Serve(k)
                            \/ RequestLost(k)
                            \/ AnswerLost(k)
                            \/ Drop(k)

Spec == Init /\ [][Next]_vars

-----------------------------------------------------------------------------
(***************************************************************************)
(* Properties.                                                             *)
(***************************************************************************)
Kinds == {"none", "ok", "exception", "limit", "notConnected", "write",
          "badHeader", "transaction", "wrongFunction", "decode", "timeout", "eof"}

Request == [n : Nat, call : Calls, frame : Seq(Byte)]

(* Every variable stays in its range; in particular whatever is read from  *)
(* the stream and whatever the device computes are bytes and words.        *)
TypeOK == /\ conn \in 0..dials
          /\ dials \in 0..MaxDials
          /\ txID \in TxIDs
          /\ pc \in {"idle", "header", "pdu"}
          /\ n \in 0..MaxCalls
          /\ call \in Calls
          /\ pduLen \in 0..maxPDU
          /\ stream \in Seq(Byte)
          /\ link \in {"open", "closed", "broken"}
          /\ requests \in [Conns -> Seq(Request)]
          /\ mem \in Memory
          /\ answer \in Seq(Byte)
          /\ clean \in BOOLEAN
          /\ last \in [n : 0..MaxCalls, kind : Kinds, vals : Seq(Nat), fresh : BOOLEAN]

(* On a connection on which no sent call has failed, a call that returns data,  *)
(* an acknowledgement or an exception returns exactly what the device      *)
(* answered to that call: never another call's answer, never one the       *)
(* device has not given yet (client.go, do and the typed operations).      *)
OwnAnswer ==
    (pc = "idle" /\ last.fresh /\ last.kind \in Answered) =>
        /\ answer # <<>>
        /\ Interpret(call, answer) = Outcome(last.kind, last.vals)

(* The reason is what may be under way on such a connection: nothing       *)
(* between calls; during one, only that call's own request, or what the    *)
(* device answered to it under its transaction number, or nothing because  *)
(* the device has hung up or is silent (client.go, do: "one request is     *)
(* written and its response fully read before the next request is sent").  *)
Begins(s, t) == Len(s) <= Len(t) /\ \A i \in 1..Len(s) : s[i] = t[i]

AtRest    == pc = "idle" /\ requests[conn] = <<>> /\ stream = <<>>
Asked     == /\ pc = "header"
             /\ requests[conn] = <<[n |-> n, call |-> call,
                                    frame |-> Frame(txID, UnitID, RequestPDU(call))]>>
             /\ stream = <<>>
             /\ answer = <<>>
Silence   == /\ pc = "header"
             /\ requests[conn] = <<>>
             /\ stream = <<>>
Answering == /\ requests[conn] = <<>>
             /\ answer # <<>>
             /\ \/ pc = "header" /\ Begins(stream, Frame(txID, UnitID, answer))
                \/ pc = "pdu" /\ pduLen = Len(answer) /\ Begins(stream, answer)

CleanExchange == (clean /\ conn # 0) => AtRest \/ Asked \/ Silence \/ Answering

(* The framing checks of do never fire on such a connection, so when they  *)
(* do fire the cause is an earlier failed call and not this one.           *)
FramingHolds ==
    last.fresh => last.kind \notin {"badHeader", "transaction", "wrongFunction", "decode"}

(* On any connection, also one that earlier calls have failed on and that  *)
(* may still carry their late responses, a call that returns data, an      *)
(* acknowledgement or an exception returns what the device answered to     *)
(* that call.  There is no resynchronisation in do: what is left of an     *)
(* earlier exchange is read where the header is expected, and must never   *)
(* pass for this call's (client.go, do, the transaction ID check).         *)
NoForeignAnswer ==
    (pc = "idle" /\ last.kind \in Answered) =>
        /\ answer # <<>>
        /\ Interpret(call, answer) = Outcome(last.kind, last.vals)

(* What is on its way to the device is whole and unaltered: the encoding   *)
(* of a call that passed its quantity check, on a connection that was      *)
(* dialled; the request of the call in progress is on its own connection.  *)
RequestsFaithful ==
    \A k \in Conns :
       /\ k > dials => requests[k] = <<>>
       /\ \A i \in 1..Len(requests[k]) :
            LET r == requests[k][i]
            IN  /\ r.n <= n
                /\ pc # "idle" /\ r.n = n => k = conn
                /\ QuantityOK(r.call)
                /\ WordAt(r.frame, 1) \in TxIDs
                /\ r.frame = Frame(WordAt(r.frame, 1), UnitID, RequestPDU(r.call))

InProgress == /\ pc # "idle" => conn # 0
              /\ pc = "pdu" => pduLen >= 1
              /\ Len(answer) <= maxPDU

(* The inductive invariant behind OwnAnswer.                               *)
IInv == TypeOK /\ RequestsFaithful /\ InProgress /\ CleanExchange /\ OwnAnswer

(* Callers that give a connection up after a failed call see a register    *)
(* bank: the client implements RegisterBank.                               *)
CallNow  == IF pc = "idle" THEN [n |-> 0] ELSE [n |-> n, call |-> call]
OnTheWay == UNION { { [n |-> requests[k][i].n, call |-> requests[k][i].call] :
                      i \in 1..Len(requests[k]) } : k \in Conns }
ReplyNow == IF answer = <<>> THEN Outcome("none", <<>>) ELSE Interpret(call, answer)
LastNow  == IF last.kind \in Answered \union {"none"}
            THEN Outcome(last.kind, last.vals) ELSE Outcome("failed", <<>>)

Bank == INSTANCE RegisterBank WITH bank <- mem, issued <- n, current <- CallNow,
          pending <- OnTheWay, reply <- ReplyNow, last <- LastNow

ImplementsRegisterBank == Bank!Spec
=============================================================================
