----------------------------- MODULE WireLemmas -----------------------------
(***************************************************************************)
(* What the wire format and the device return, for every input: the shapes *)
(* and ranges the proofs about the client rest on.                         *)
(***************************************************************************)
EXTENDS MockDevice, SequenceTheorems, TLAPS

(* A 16-bit word is carried by two bytes and read back unchanged. *)
LEMMA WordRoundTrip ==
    ASSUME NEW w \in Words
    PROVE  Hi(w) \in Byte /\ Lo(w) \in Byte /\ Hi(w) * 256 + Lo(w) = w
  BY DEF Hi, Lo, Words, Byte

(* The header encodeMBAP builds. *)
LEMMA HeaderShape ==
    ASSUME NEW tx \in Words, NEW len \in Words, NEW unit \in Byte
    PROVE  LET h == EncodeMBAP(tx, len, unit)
           IN  /\ h \in Seq(Byte)
               /\ Len(h) = 7
               /\ h[7] = unit
               /\ WordAt(h, 1) = tx
               /\ WordAt(h, 3) = 0
               /\ WordAt(h, 5) = len
  <1>1. /\ Hi(tx) \in Byte /\ Lo(tx) \in Byte /\ Hi(len) \in Byte /\ Lo(len) \in Byte
        /\ Hi(tx) * 256 + Lo(tx) = tx /\ Hi(len) * 256 + Lo(len) = len
    BY WordRoundTrip
  <1>2. Hi(0) \in Byte /\ Lo(0) \in Byte /\ Hi(0) * 256 + Lo(0) = 0
    <2>1. 0 \in Words BY DEF Words
    <2> QED BY <2>1, WordRoundTrip
  <1>3. EncodeMBAP(tx, len, unit) = <<Hi(tx), Lo(tx), Hi(0), Lo(0), Hi(len), Lo(len), unit>>
    BY DEF EncodeMBAP, protocolID
  <1>4. EncodeMBAP(tx, len, unit) \in Seq(Byte)
    BY <1>1, <1>2, <1>3
  <1> QED BY <1>1, <1>2, <1>3, <1>4 DEF WordAt

(* encodeMBAP and decodeMBAP are inverse to each other, and what follows   *)
(* the header of a frame is its PDU.                                       *)
LEMMA FrameShape ==
    ASSUME NEW tx \in Words, NEW unit \in Byte, NEW pdu \in Seq(Byte),
           Len(pdu) + 1 \in Words
    PROVE  LET f == Frame(tx, unit, pdu)
           IN  /\ f \in Seq(Byte)
               /\ Len(f) = mbapLen + Len(pdu)
               /\ f[mbapLen] = unit
               /\ WordAt(f, 1) = tx
               /\ WordAt(f, 3) = protocolID
               /\ WordAt(f, 5) = Len(pdu) + 1
               /\ \A i \in 1..Len(pdu) : f[mbapLen + i] = pdu[i]
  <1> DEFINE h == EncodeMBAP(tx, Len(pdu) + 1, unit)
  <1>1. /\ h \in Seq(Byte) /\ Len(h) = 7 /\ h[7] = unit
        /\ WordAt(h, 1) = tx /\ WordAt(h, 3) = 0 /\ WordAt(h, 5) = Len(pdu) + 1
    BY HeaderShape
  <1>2. Frame(tx, unit, pdu) = h \o pdu
    BY DEF Frame
  <1> HIDE DEF h
  <1>3. /\ h \o pdu \in Seq(Byte)
        /\ Len(h \o pdu) = 7 + Len(pdu)
        /\ \A i \in 1..7 : (h \o pdu)[i] = h[i]
        /\ \A i \in 1..Len(pdu) : (h \o pdu)[7 + i] = pdu[i]
    <2>1. /\ h \o pdu \in Seq(Byte)
          /\ Len(h \o pdu) = Len(h) + Len(pdu)
          /\ \A i \in 1..(Len(h) + Len(pdu)) :
                (h \o pdu)[i] = IF i <= Len(h) THEN h[i] ELSE pdu[i - Len(h)]
      BY <1>1, ConcatProperties
    <2>2. \A i \in 1..7 : (h \o pdu)[i] = h[i] BY <1>1, <2>1
    <2>3. \A i \in 1..Len(pdu) : (h \o pdu)[7 + i] = pdu[i] BY <1>1, <2>1
    <2> QED BY <1>1, <2>1, <2>2, <2>3
  <1>4. \A i \in {1, 3, 5} : WordAt(h \o pdu, i) = WordAt(h, i)
    BY <1>3 DEF WordAt
  <1> QED BY <1>1, <1>2, <1>3, <1>4 DEF mbapLen, protocolID

(* A packed byte is a byte. *)
LEMMA PackedByteType ==
    ASSUME NEW bits \in Seq({0, 1}), NEW k \in Nat \ {0}
    PROVE  PackedByte(bits, k) \in Byte
  <1>1. \A i \in Nat \ {0} : BitOr0(bits, i) \in {0, 1}
    BY DEF BitOr0
  <1> DEFINE o == 8 * (k - 1)
  <1>2. o + 1 > 0 /\ o \in Nat
    OBVIOUS
  <1>3. \A j \in 1..8 : BitOr0(bits, o + j) \in {0, 1}
    BY <1>1, <1>2
  <1>4. PICK b1 \in {0, 1} : b1 = BitOr0(bits, o + 1) BY <1>3
  <1>5. PICK b2 \in {0, 1} : b2 = BitOr0(bits, o + 2) BY <1>3
  <1>6. PICK b3 \in {0, 1} : b3 = BitOr0(bits, o + 3) BY <1>3
  <1>7. PICK b4 \in {0, 1} : b4 = BitOr0(bits, o + 4) BY <1>3
  <1>8. PICK b5 \in {0, 1} : b5 = BitOr0(bits, o + 5) BY <1>3
  <1>9. PICK b6 \in {0, 1} : b6 = BitOr0(bits, o + 6) BY <1>3
  <1>10. PICK b7 \in {0, 1} : b7 = BitOr0(bits, o + 7) BY <1>3
  <1>11. PICK b8 \in {0, 1} : b8 = BitOr0(bits, o + 8) BY <1>3
  <1>12. b1 + 2 * b2 + 4 * b3 + 8 * b4 + 16 * b5 + 32 * b6 + 64 * b7 + 128 * b8 \in Byte
    BY DEF Byte
  <1> QED BY <1>4, <1>5, <1>6, <1>7, <1>8, <1>9, <1>10, <1>11, <1>12 DEF PackedByte

(* How many bytes hold so many bits. *)
LEMMA NumBytesBounds ==
    ASSUME NEW n \in Nat
    PROVE  NumBytes(n) \in Nat /\ n <= 8 * NumBytes(n) /\ 8 * NumBytes(n) <= n + 7
  BY DEF NumBytes

LEMMA PackBitsType ==
    ASSUME NEW bits \in Seq({0, 1})
    PROVE  PackBits(bits) \in Seq(Byte) /\ Len(PackBits(bits)) = NumBytes(Len(bits))
  <1>1. NumBytes(Len(bits)) \in Nat
    BY DEF NumBytes
  <1>2. \A k \in 1..NumBytes(Len(bits)) : PackedByte(bits, k) \in Byte
    BY <1>1, PackedByteType
  <1> QED BY <1>1, <1>2 DEF PackBits

LEMMA PackWordsType ==
    ASSUME NEW ws \in Seq(Words)
    PROVE  PackWords(ws) \in Seq(Byte) /\ Len(PackWords(ws)) = 2 * Len(ws)
  <1> DEFINE byte(k) == IF k % 2 = 1 THEN Hi(ws[(k + 1) \div 2]) ELSE Lo(ws[k \div 2])
  <1>1. \A k \in 1..(2 * Len(ws)) : byte(k) \in Byte
    <2> TAKE k \in 1..(2 * Len(ws))
    <2>1. CASE k % 2 = 1
      <3>1. (k + 1) \div 2 \in 1..Len(ws) BY <2>1
      <3>2. ws[(k + 1) \div 2] \in Words BY <3>1
      <3> QED BY <2>1, <3>2, WordRoundTrip
    <2>2. CASE k % 2 # 1
      <3>1. k \div 2 \in 1..Len(ws) BY <2>2
      <3>2. ws[k \div 2] \in Words BY <3>1
      <3> QED BY <2>2, <3>2, WordRoundTrip
    <2> QED BY <2>1, <2>2
  <1>2. PackWords(ws) = [k \in 1..(2 * Len(ws)) |-> byte(k)]
    BY DEF PackWords
  <1> HIDE DEF byte
  <1> QED BY <1>1, <1>2

USE DEF FuncReadCoils, FuncReadDiscreteInputs, FuncReadHoldingRegisters,
        FuncReadInputRegisters, FuncWriteSingleCoil, FuncWriteSingleRegister,
        FuncWriteMultipleCoils, FuncWriteMultipleRegisters,
        MaxReadBits, MaxReadRegisters, MaxWriteBits, MaxWriteRegisters, maxPDU

(* The function codes, one by one. *)
LEMMA Codes ==
    /\ BitReads = {1, 2} /\ RegisterReads = {3, 4} /\ Reads = {1, 2, 3, 4}
    /\ SingleWrites = {5, 6} /\ MultiWrites = {15, 16} /\ Writes = {5, 6, 15, 16}
    /\ CoilWrites = {5, 15} /\ FunctionCodes = {1, 2, 3, 4, 5, 6, 15, 16}
  BY DEF BitReads, RegisterReads, Reads, SingleWrites, MultiWrites, Writes,
         CoilWrites, FunctionCodes

LEMMA Limits ==
    /\ Limit(1) = 2000 /\ Limit(2) = 2000 /\ Limit(3) = 125 /\ Limit(4) = 125
    /\ Limit(5) = 1 /\ Limit(6) = 1 /\ Limit(15) = 1968 /\ Limit(16) = 123
  BY Codes DEF Limit

(* The fields of a call the client lets through. *)
LEMMA CallFields ==
    ASSUME NEW c, WellFormed(c), QuantityOK(c)
    PROVE  /\ c.fc \in {1, 2, 3, 4, 5, 6, 15, 16}
           /\ c.addr \in Words
           /\ c.qty \in Words /\ 1 <= c.qty /\ c.qty <= 2000
           /\ c.fc \in {3, 4} => c.qty <= 125
           /\ c.fc \in {5, 6} => c.qty = 1
           /\ c.fc = 15 => c.qty <= 1968
           /\ c.fc = 16 => c.qty <= 123
           /\ c.vals \in Seq(Words)
           /\ c.fc \in {5, 6, 15, 16} => Len(c.vals) = c.qty
           /\ c.fc \in {5, 15} => c.vals \in Seq({0, 1})
  <1>1. /\ c.fc \in {1, 2, 3, 4, 5, 6, 15, 16} /\ c.addr \in Words /\ c.qty \in Words
        /\ c.vals \in Seq(Words)
    BY Codes DEF WellFormed
  <1>2. c.fc \in {5, 6, 15, 16} => Len(c.vals) = c.qty
    BY Codes DEF WellFormed
  <1>3. c.fc \in {5, 15} => c.vals \in Seq({0, 1})
    BY Codes DEF WellFormed
  <1>4. c.qty >= 1 /\ c.qty <= Limit(c.fc)
    BY DEF QuantityOK
  <1>5. c.qty \in Int
    BY <1>1 DEF Words
  <1>6. /\ 1 <= c.qty /\ c.qty <= 2000
        /\ c.fc \in {3, 4} => c.qty <= 125
        /\ c.fc \in {5, 6} => c.qty = 1
        /\ c.fc = 15 => c.qty <= 1968
        /\ c.fc = 16 => c.qty <= 123
    BY <1>1, <1>4, <1>5, Limits
  <1> QED BY <1>1, <1>2, <1>3, <1>6

(* What encode* builds for a call that passed the quantity check is a PDU: *)
(* bytes, at least the five of a read request, at most maxPDU.             *)
LEMMA RequestShape ==
    ASSUME NEW c, WellFormed(c), QuantityOK(c)
    PROVE  /\ RequestPDU(c) \in Seq(Byte)
           /\ 5 <= Len(RequestPDU(c)) /\ Len(RequestPDU(c)) <= maxPDU
  <1> DEFINE head == <<c.fc, Hi(c.addr), Lo(c.addr), Hi(SecondWord(c)), Lo(SecondWord(c))>>
             size == Len(c.vals)
  <1>1. /\ c.fc \in {1, 2, 3, 4, 5, 6, 15, 16} /\ c.addr \in Words
        /\ c.qty \in Words /\ c.vals \in Seq(Words)
        /\ 1 <= c.qty /\ c.qty <= 2000
        /\ c.fc \in {5, 6} => c.qty = 1
        /\ c.fc = 15 => c.qty <= 1968
        /\ c.fc = 16 => c.qty <= 123
        /\ c.fc \in {5, 6, 15, 16} => size = c.qty
        /\ c.fc \in {5, 15} => c.vals \in Seq({0, 1})
    BY CallFields
  <1>2. c.fc \in Byte
    BY <1>1 DEF Byte
  <1>3. SecondWord(c) \in Words
    <2>1. CASE c.fc \in {5, 6}
      <3>1. size = 1
        <4>1. c.qty = 1 /\ size = c.qty
          BY <1>1, <2>1
        <4> QED BY <4>1
      <3>2. c.vals[1] \in Words
        BY <1>1, <3>1
      <3> QED BY <2>1, <3>2, Codes DEF SecondWord, SingleValue, coilOn, coilOff, Words
    <2>2. CASE c.fc \notin {5, 6}
      BY <1>1, <2>2, Codes DEF SecondWord
    <2> QED BY <2>1, <2>2
  <1>4. head \in Seq(Byte) /\ Len(head) = 5
    BY <1>1, <1>2, <1>3, WordRoundTrip
  <1>5. Payload(c) \in Seq(Byte) /\ Len(Payload(c)) <= 248
    <2>1. CASE c.fc = 15
      <3> DEFINE count == NumBytes(size)
      <3>1. size \in Int /\ 1 <= size /\ size <= 1968 /\ c.vals \in Seq({0, 1})
        BY <1>1, <2>1
      <3>2. count \in Int /\ 1 <= count /\ count <= 246
        <4>1. size \in Nat
          BY <3>1
        <4>2. count \in Nat /\ size <= 8 * count /\ 8 * count <= size + 7
          BY <4>1, NumBytesBounds
        <4> HIDE DEF count, size
        <4> QED BY <4>2, <3>1
      <3>3. PackBits(c.vals) \in Seq(Byte) /\ Len(PackBits(c.vals)) = count
        BY <3>1, PackBitsType
      <3>4. Payload(c) = <<count>> \o PackBits(c.vals)
        BY <2>1 DEF Payload
      <3> HIDE DEF count
      <3>5. count \in Byte
        BY <3>2 DEF Byte
      <3>6. <<count>> \in Seq(Byte) /\ Len(<<count>>) = 1
        BY <3>5
      <3> QED BY <3>2, <3>3, <3>4, <3>6, ConcatProperties
    <2>2. CASE c.fc = 16
      <3> DEFINE count == 2 * size
      <3>1. size \in Int /\ 1 <= size /\ size <= 123
        BY <1>1, <2>2
      <3>2. count \in Int /\ 1 <= count /\ count <= 246
        BY <3>1
      <3>3. PackWords(c.vals) \in Seq(Byte) /\ Len(PackWords(c.vals)) = count
        BY <1>1, PackWordsType
      <3>4. Payload(c) = <<count>> \o PackWords(c.vals)
        BY <2>2 DEF Payload
      <3> HIDE DEF count
      <3>5. count \in Byte
        BY <3>2 DEF Byte
      <3>6. <<count>> \in Seq(Byte) /\ Len(<<count>>) = 1
        BY <3>5
      <3> QED BY <3>2, <3>3, <3>4, <3>6, ConcatProperties
    <2>3. CASE c.fc \notin {15, 16}
      <3>1. Payload(c) = <<>>
        BY <2>3 DEF Payload
      <3> QED BY <3>1
    <2> QED BY <2>1, <2>2, <2>3
  <1>6. RequestPDU(c) = head \o Payload(c)
    BY DEF RequestPDU
  <1> HIDE DEF head
  <1>7. /\ head \o Payload(c) \in Seq(Byte)
        /\ Len(head \o Payload(c)) = Len(head) + Len(Payload(c))
    BY <1>4, <1>5, ConcatProperties
  <1> QED BY <1>4, <1>5, <1>6, <1>7

(* Two bytes of a PDU read as a word. *)
LEMMA WordAtType ==
    ASSUME NEW b \in Seq(Byte), NEW i \in Nat, 1 <= i, i + 1 <= Len(b)
    PROVE  WordAt(b, i) \in Words
  <1>1. b[i] \in Byte /\ b[i + 1] \in Byte
    BY ElementOfSeq
  <1>2. PICK hi \in Byte : hi = b[i]
    BY <1>1
  <1>3. PICK lo \in Byte : lo = b[i + 1]
    BY <1>1
  <1>4. hi * 256 + lo \in Nat /\ hi * 256 + lo < 65536
    BY DEF Byte
  <1> QED BY <1>2, <1>3, <1>4 DEF WordAt, Words

(* Unpacking bits and words: as many as asked for, each in range. *)
LEMMA UnpackBitsType ==
    ASSUME NEW b \in Seq(Byte), NEW off \in Nat, NEW count \in Nat,
           off + NumBytes(count) <= Len(b)
    PROVE  UnpackBits(b, off, count) \in Seq({0, 1}) /\ Len(UnpackBits(b, off, count)) = count
  <1>1. ASSUME NEW i \in 1..count
        PROVE  BitAt(b, off, i) \in {0, 1}
    <2> DEFINE at == off + 1 + ((i - 1) \div 8)
               wt == Weight[1 + ((i - 1) % 8)]
    <2>1. NumBytes(count) \in Nat /\ count <= 8 * NumBytes(count)
      BY NumBytesBounds
    <2>2. at \in Nat /\ 1 <= at /\ at <= Len(b)
      <3>1. (i - 1) \div 8 \in Nat /\ 8 * ((i - 1) \div 8) <= i - 1
        OBVIOUS
      <3> QED BY <2>1, <3>1
    <2>3. b[at] \in Byte
      BY <2>2, ElementOfSeq
    <2>4. wt \in Nat /\ wt > 0
      <3>1. 1 + ((i - 1) % 8) \in 1..8
        OBVIOUS
      <3>2. \A k \in 1..8 : Weight[k] \in Nat /\ Weight[k] > 0
        BY DEF Weight
      <3> QED BY <3>1, <3>2
    <2>5. BitAt(b, off, i) = (b[at] \div wt) % 2
      BY DEF BitAt
    <2> HIDE DEF at, wt
    <2>6. PICK x \in Byte : x = b[at]
      BY <2>3
    <2>7. x \div wt \in Int
      BY <2>4 DEF Byte
    <2>8. (x \div wt) % 2 \in {0, 1}
      BY <2>7
    <2> QED BY <2>5, <2>6, <2>8
  <1> QED BY <1>1 DEF UnpackBits

LEMMA UnpackWordsType ==
    ASSUME NEW b \in Seq(Byte), NEW off \in Nat, NEW count \in Nat,
           off + 2 * count <= Len(b)
    PROVE  UnpackWords(b, off, count) \in Seq(Words) /\ Len(UnpackWords(b, off, count)) = count
  <1>1. ASSUME NEW i \in 1..count
        PROVE  WordAt(b, off + 2 * i - 1) \in Words
    <2>1. off + 2 * i - 1 \in Nat /\ 1 <= off + 2 * i - 1 /\ off + 2 * i - 1 + 1 <= Len(b)
      OBVIOUS
    <2> QED BY <2>1, WordAtType
  <1> QED BY <1>1 DEF UnpackWords

(* Outcomes have a kind the caller can tell apart and values it can print. *)
LEMMA InterpretType ==
    ASSUME NEW c, WellFormed(c), NEW pdu \in Seq(Byte), 1 <= Len(pdu)
    PROVE  /\ Interpret(c, pdu).kind \in {"ok", "exception", "wrongFunction", "decode"}
           /\ Interpret(c, pdu).vals \in Seq(Nat)
           /\ Interpret(c, pdu) = Outcome(Interpret(c, pdu).kind, Interpret(c, pdu).vals)
  <1> DEFINE Good(o) == /\ o.kind \in {"ok", "exception", "wrongFunction", "decode"}
                        /\ o.vals \in Seq(Nat)
                        /\ o = Outcome(o.kind, o.vals)
  <1>1. ASSUME NEW kind \in {"ok", "exception", "wrongFunction", "decode"},
               NEW vals \in Seq(Nat)
        PROVE  Good(Outcome(kind, vals))
    BY <1>1 DEF Outcome
  <1>2. Seq(Words) \subseteq Seq(Nat) /\ Seq({0, 1}) \subseteq Seq(Nat)
    <2>1. Words \subseteq Nat /\ {0, 1} \subseteq Nat
      BY DEF Words
    <2> QED BY <2>1, SeqMonotonic
  <1>3. c.qty \in Nat /\ NumBytes(c.qty) \in Nat
    <2>1. c.qty \in Nat
      BY DEF WellFormed, Words
    <2> QED BY <2>1, NumBytesBounds
  <1>4. <<>> \in Seq(Nat)
    OBVIOUS
  <1> HIDE DEF Good
  <1>5. ASSUME IsException(pdu)
        PROVE  Good(Outcome("exception", <<pdu[2]>>))
    <2>1. pdu[2] \in Nat
      <3>1. 2 <= Len(pdu)
        BY <1>5 DEF IsException
      <3>2. pdu[2] \in Byte
        BY <3>1, ElementOfSeq
      <3>3. Byte \subseteq Nat
        BY DEF Byte
      <3> QED BY <3>2, <3>3
    <2>2. <<pdu[2]>> \in Seq(Nat)
      BY <2>1
    <2> QED BY <2>2, <1>1
  <1>6. Good(Outcome("wrongFunction", <<>>)) /\ Good(Outcome("decode", <<>>)) /\ Good(Outcome("ok", <<>>))
    BY <1>1, <1>4
  <1>7. Good(DecodeRead(c, pdu, NumBytes(c.qty), UnpackBits(pdu, 2, c.qty)))
    <2>1. CASE Len(pdu) >= 2 + NumBytes(c.qty)
      <3>1. UnpackBits(pdu, 2, c.qty) \in Seq(Nat)
        BY <1>2, <1>3, <2>1, UnpackBitsType
      <3>2. Good(Outcome("ok", UnpackBits(pdu, 2, c.qty)))
        BY <3>1, <1>1
      <3> QED BY <3>2, <1>6 DEF DecodeRead
    <2>2. CASE ~(Len(pdu) >= 2 + NumBytes(c.qty))
      BY <2>2, <1>6 DEF DecodeRead
    <2> QED BY <2>1, <2>2
  <1>8. Good(DecodeRead(c, pdu, 2 * c.qty, UnpackWords(pdu, 2, c.qty)))
    <2>1. CASE Len(pdu) >= 2 + 2 * c.qty
      <3>1. UnpackWords(pdu, 2, c.qty) \in Seq(Nat)
        BY <1>2, <1>3, <2>1, UnpackWordsType
      <3>2. Good(Outcome("ok", UnpackWords(pdu, 2, c.qty)))
        BY <3>1, <1>1
      <3> QED BY <3>2, <1>6 DEF DecodeRead
    <2>2. CASE ~(Len(pdu) >= 2 + 2 * c.qty)
      BY <2>2, <1>6 DEF DecodeRead
    <2> QED BY <2>1, <2>2
  <1>9. Good(DecodeWriteEcho(pdu, c.addr, SecondWord(c)))
    BY <1>6 DEF DecodeWriteEcho
  <1>10. Good(Interpret(c, pdu))
    BY <1>5, <1>6, <1>7, <1>8, <1>9 DEF Interpret
  <1> QED BY <1>10 DEF Good

-----------------------------------------------------------------------------
(***************************************************************************)
(* The device.                                                             *)
(***************************************************************************)

(* Overwriting cells of a table with values of its kind leaves it a table. *)
LEMMA OverwriteType ==
    ASSUME NEW mem \in Memory, NEW tab \in {"coils", "holding"}, NEW addr \in Nat, NEW vals,
           tab = "coils" => vals \in Seq({0, 1}),
           tab = "holding" => vals \in Seq(Words)
    PROVE  Overwrite(mem, tab, addr, vals) \in Memory
  <1> DEFINE Cells(T) == [Addresses -> T]
             new == [a \in Addresses |->
                       IF a \in addr..(addr + Len(vals) - 1) THEN vals[a - addr + 1]
                       ELSE mem[tab][a]]
  <1>1. Overwrite(mem, tab, addr, vals) = [mem EXCEPT ![tab] = new]
    BY DEF Overwrite
  <1>2. ASSUME NEW T, vals \in Seq(T), mem[tab] \in Cells(T)
        PROVE  new \in Cells(T)
    <2>1. ASSUME NEW a \in Addresses
          PROVE  new[a] \in T
      <3>1. a \in Nat
        BY TableSizeAssumption DEF Addresses
      <3>2. CASE a \in addr..(addr + Len(vals) - 1)
        <4>1. a - addr + 1 \in 1..Len(vals)
          BY <3>1, <3>2, <1>2
        <4>2. vals[a - addr + 1] \in T
          BY <4>1, <1>2, ElementOfSeq
        <4> QED BY <4>2, <3>2
      <3>3. CASE a \notin addr..(addr + Len(vals) - 1)
        BY <3>3, <1>2
      <3> QED BY <3>2, <3>3
    <2> QED BY <2>1
  <1>3. CASE tab = "coils"
    <2>1. new \in Cells({0, 1})
      BY <1>2, <1>3 DEF Memory
    <2> HIDE DEF new
    <2> QED BY <1>1, <1>3, <2>1 DEF Memory
  <1>4. CASE tab = "holding"
    <2>1. new \in Cells(Words)
      BY <1>2, <1>4 DEF Memory
    <2> HIDE DEF new
    <2> QED BY <1>1, <1>4, <2>1 DEF Memory
  <1> QED BY <1>3, <1>4

(* What the device makes of a request: tables that are still tables, and a *)
(* response that fits a PDU.                                               *)
Dispatched(d) == /\ d.mem \in Memory
                 /\ d.resp \in Seq(Byte)
                 /\ 1 <= Len(d.resp)
                 /\ Len(d.resp) <= maxPDU

LEMMA AnswerType ==
    ASSUME NEW mem \in Memory, NEW resp \in Seq(Byte), 1 <= Len(resp), Len(resp) <= maxPDU
    PROVE  Dispatched(Answer(mem, resp))
  <1> DEFINE d == Answer(mem, resp)
  <1>1. d.mem = mem /\ d.resp = resp
    BY DEF Answer
  <1> HIDE DEF d
  <1>2. Dispatched(d)
    BY <1>1 DEF Dispatched
  <1> QED BY <1>2 DEF d

LEMMA RefuseType ==
    ASSUME NEW mem \in Memory, NEW pdu \in Seq(Byte), 1 <= Len(pdu), NEW code \in {1, 2, 3}
    PROVE  Dispatched(Refuse(mem, pdu, code))
  <1>1. PICK fc \in Byte : fc = pdu[1]
    BY ElementOfSeq
  <1>2. Exception(fc, code) \in Seq(Byte) /\ Len(Exception(fc, code)) = 2
    <2>1. (IF fc < 128 THEN fc + 128 ELSE fc) \in Byte /\ code \in Byte
      BY DEF Byte
    <2> QED BY <2>1 DEF Exception, exceptionBit
  <1>3. Refuse(mem, pdu, code) = Answer(mem, Exception(fc, code))
    BY <1>1 DEF Refuse, Answer
  <1>4. Dispatched(Answer(mem, Exception(fc, code)))
    <2> DEFINE resp == Exception(fc, code)
    <2>1. resp \in Seq(Byte) /\ 1 <= Len(resp) /\ Len(resp) <= maxPDU
      BY <1>2
    <2> HIDE DEF resp
    <2>2. Dispatched(Answer(mem, resp))
      BY <2>1, AnswerType
    <2> QED BY <2>2 DEF resp
  <1> QED BY <1>3, <1>4

(* The quantity field of a request is a natural number. *)
LEMMA FieldsType ==
    ASSUME NEW pdu \in Seq(Byte), 5 <= Len(pdu)
    PROVE  /\ WordAt(pdu, 2) \in Words /\ WordAt(pdu, 2) \in Nat
           /\ WordAt(pdu, 4) \in Words /\ WordAt(pdu, 4) \in Nat
  <1>1. WordAt(pdu, 2) \in Words /\ WordAt(pdu, 4) \in Words
    BY WordAtType
  <1> QED BY <1>1 DEF Words

(* A response of a header of two bytes and some data. *)
LEMMA DataResponse ==
    ASSUME NEW mem \in Memory, NEW fc \in Byte, NEW size \in Nat, size <= 250,
           NEW data \in Seq(Byte), Len(data) = size
    PROVE  Dispatched(Answer(mem, <<fc, size>> \o data))
  <1>1. size \in Byte
    BY DEF Byte
  <1>2. <<fc, size>> \in Seq(Byte) /\ Len(<<fc, size>>) = 2
    BY <1>1
  <1> DEFINE resp == <<fc, size>> \o data
  <1>3. resp \in Seq(Byte) /\ Len(resp) = 2 + size
    BY <1>2, ConcatProperties
  <1> HIDE DEF resp
  <1>4. Dispatched(Answer(mem, resp))
    BY <1>3, AnswerType
  <1> QED BY <1>4 DEF resp

(* readBits and readRegs never answer more than a PDU holds. *)
LEMMA ReadTableType ==
    ASSUME NEW mem \in Memory, NEW pdu \in Seq(Byte), 1 <= Len(pdu), pdu[1] \in Reads
    PROVE  Dispatched(ReadTable(mem, pdu))
  <1> DEFINE fc   == pdu[1]
             addr == WordAt(pdu, 2)
             qty  == WordAt(pdu, 4)
             vals == Slice(mem[TableOf(fc)], addr, qty)
             malformed == Len(pdu) # 5 \/ qty < 1 \/ qty > Limit(fc)
  <1>1. CASE malformed
    <2>1. ReadTable(mem, pdu) = Refuse(mem, pdu, exIllegalValue)
      BY <1>1 DEF ReadTable
    <2> QED BY <2>1, RefuseType DEF exIllegalValue
  <1>2. CASE ~malformed /\ addr + qty > TableSize
    <2>1. ReadTable(mem, pdu) = Refuse(mem, pdu, exIllegalAddress)
      BY <1>2 DEF ReadTable
    <2> QED BY <2>1, RefuseType DEF exIllegalAddress
  <1>3. CASE ~malformed /\ ~(addr + qty > TableSize)
    <2>1. fc \in {1, 2, 3, 4} /\ fc \in Byte
      <3>1. fc \in {1, 2, 3, 4}
        BY Codes
      <3> QED BY <3>1 DEF Byte
    <2>2. addr \in Nat /\ qty \in Nat /\ qty <= Limit(fc) /\ addr + qty <= TableSize
      <3>1. addr \in Nat /\ qty \in Nat
        <4>1. Len(pdu) = 5
          BY <1>3
        <4>2. 5 <= Len(pdu)
          BY <4>1
        <4> QED BY <4>2, FieldsType
      <3>2. Limit(fc) \in Int
        BY <2>1, Limits
      <3>3. ~(qty > Limit(fc)) /\ ~(addr + qty > TableSize)
        BY <1>3
      <3> HIDE DEF addr, qty, fc
      <3> QED BY <3>1, <3>2, <3>3, TableSizeAssumption
    <2>3. \A i \in 1..qty : addr + i - 1 \in Addresses
      BY <2>2, TableSizeAssumption DEF Addresses
    <2>4. CASE fc \in {1, 2}
      <3>1. mem[TableOf(fc)] \in [Addresses -> {0, 1}]
        BY <2>4, Codes DEF TableOf, Memory
      <3>2. vals \in Seq({0, 1}) /\ Len(vals) = qty
        BY <3>1, <2>2, <2>3 DEF Slice
      <3>3. PackBits(vals) \in Seq(Byte) /\ Len(PackBits(vals)) = NumBytes(qty)
        BY <3>2, PackBitsType
      <3>4. NumBytes(qty) \in Nat /\ NumBytes(qty) <= 250
        <4>1. qty <= 2000
          BY <2>2, <2>4, Limits
        <4>2. NumBytes(qty) \in Nat /\ 8 * NumBytes(qty) <= qty + 7
          BY <2>2, NumBytesBounds
        <4> HIDE DEF qty
        <4> QED BY <4>1, <4>2, <2>2
      <3>5. ReadTable(mem, pdu) = Answer(mem, <<fc, NumBytes(qty)>> \o PackBits(vals))
        BY <1>3, <2>4, Codes DEF ReadTable
      <3> HIDE DEF vals, fc, qty
      <3> QED BY <2>1, <3>3, <3>4, <3>5, DataResponse
    <2>5. CASE fc \in {3, 4}
      <3>1. mem[TableOf(fc)] \in [Addresses -> Words]
        BY <2>5, Codes DEF TableOf, Memory
      <3>2. vals \in Seq(Words) /\ Len(vals) = qty
        BY <3>1, <2>2, <2>3 DEF Slice
      <3>3. PackWords(vals) \in Seq(Byte) /\ Len(PackWords(vals)) = 2 * qty
        BY <3>2, PackWordsType
      <3>4. 2 * qty \in Nat /\ 2 * qty <= 250
        <4>1. qty <= 125
          BY <2>2, <2>5, Limits
        <4> HIDE DEF qty
        <4> QED BY <4>1, <2>2
      <3>5. ReadTable(mem, pdu) = Answer(mem, <<fc, 2 * qty>> \o PackWords(vals))
        BY <1>3, <2>5, Codes DEF ReadTable
      <3> HIDE DEF vals, fc, qty
      <3> QED BY <2>1, <3>3, <3>4, <3>5, DataResponse
    <2> QED BY <2>1, <2>4, <2>5
  <1> QED BY <1>1, <1>2, <1>3

(* Which table each function code is about. *)
LEMMA TableNames ==
    /\ TableOf(1) = "coils" /\ TableOf(2) = "discrete"
    /\ TableOf(3) = "holding" /\ TableOf(4) = "input"
    /\ TableOf(5) = "coils" /\ TableOf(15) = "coils"
    /\ TableOf(6) = "holding" /\ TableOf(16) = "holding"
  BY Codes DEF TableOf

(* A single write echoes the request and leaves the tables typed. *)
LEMMA WriteSingleType ==
    ASSUME NEW mem \in Memory, NEW pdu \in Seq(Byte), 1 <= Len(pdu), pdu[1] \in SingleWrites
    PROVE  Dispatched(WriteSingle(mem, pdu))
  <1> DEFINE fc   == pdu[1]
             addr == WordAt(pdu, 2)
             val  == WordAt(pdu, 4)
             cell == IF fc = FuncWriteSingleRegister THEN val
                     ELSE IF val = coilOn THEN 1 ELSE 0
             malformed == Len(pdu) # 5 \/ (fc = FuncWriteSingleCoil /\ val \notin {coilOn, coilOff})
  <1>1. CASE malformed
    <2>1. WriteSingle(mem, pdu) = Refuse(mem, pdu, exIllegalValue)
      BY <1>1 DEF WriteSingle
    <2> QED BY <2>1, RefuseType DEF exIllegalValue
  <1>2. CASE ~malformed
    <2>1. Len(pdu) = 5 /\ 5 <= Len(pdu) /\ fc \in {5, 6}
      <3>1. Len(pdu) = 5
        BY <1>2
      <3>2. 5 <= Len(pdu)
        BY <3>1
      <3>3. fc \in {5, 6}
        BY Codes
      <3> QED BY <3>1, <3>2, <3>3
    <2>2. addr \in Nat /\ val \in Words
      BY <2>1, FieldsType
    <2>4. WriteSingle(mem, pdu) = Answer(Overwrite(mem, TableOf(fc), addr, <<cell>>), pdu)
      BY <1>2 DEF WriteSingle
    <2>5. /\ fc = 5 => cell \in {0, 1}
          /\ fc = 6 => cell \in Words
      BY <2>1, <2>2
    <2> HIDE DEF cell, addr, val, fc
    <2>6. Overwrite(mem, TableOf(fc), addr, <<cell>>) \in Memory
      <3>1. CASE fc = 5
        <4>1. <<cell>> \in Seq({0, 1}) /\ TableOf(fc) = "coils"
          BY <3>1, <2>5, TableNames
        <4>2. Overwrite(mem, "coils", addr, <<cell>>) \in Memory
          BY <4>1, <2>2, OverwriteType
        <4> QED BY <4>1, <4>2
      <3>2. CASE fc = 6
        <4>1. <<cell>> \in Seq(Words) /\ TableOf(fc) = "holding"
          BY <3>2, <2>5, TableNames
        <4>2. Overwrite(mem, "holding", addr, <<cell>>) \in Memory
          BY <4>1, <2>2, OverwriteType
        <4> QED BY <4>1, <4>2
      <3> QED BY <2>1, <3>1, <3>2
    <2> DEFINE after == Overwrite(mem, TableOf(fc), addr, <<cell>>)
    <2>7. 1 <= Len(pdu) /\ Len(pdu) <= maxPDU
      BY <2>1
    <2>8. WriteSingle(mem, pdu) = Answer(after, pdu)
      BY <2>4
    <2>9. after \in Memory
      BY <2>6
    <2> HIDE DEF after
    <2> QED BY <2>7, <2>8, <2>9, AnswerType
  <1> QED BY <1>1, <1>2

(* A multiple write unpacks exactly the values the request carries. *)
LEMMA WriteMultipleType ==
    ASSUME NEW mem \in Memory, NEW pdu \in Seq(Byte), 1 <= Len(pdu), pdu[1] \in MultiWrites
    PROVE  Dispatched(WriteMultiple(mem, pdu))
  <1> DEFINE fc   == pdu[1]
             addr == WordAt(pdu, 2)
             qty  == WordAt(pdu, 4)
             bits == fc = FuncWriteMultipleCoils
             size == IF bits THEN NumBytes(qty) ELSE 2 * qty
             vals == IF bits THEN UnpackBits(pdu, 6, qty) ELSE UnpackWords(pdu, 6, qty)
             malformed == \/ Len(pdu) < 6
                          \/ qty < 1
                          \/ qty > Limit(fc)
                          \/ pdu[6] # size
                          \/ Len(pdu) # 6 + size
  <1>1. CASE malformed
    <2>1. WriteMultiple(mem, pdu) = Refuse(mem, pdu, exIllegalValue)
      BY <1>1 DEF WriteMultiple
    <2> QED BY <2>1, RefuseType DEF exIllegalValue
  <1>2. CASE ~malformed /\ addr + qty > TableSize
    <2>1. WriteMultiple(mem, pdu) = Refuse(mem, pdu, exIllegalAddress)
      BY <1>2 DEF WriteMultiple
    <2> QED BY <2>1, RefuseType DEF exIllegalAddress
  <1>3. CASE ~malformed /\ ~(addr + qty > TableSize)
    <2>1. 5 <= Len(pdu) /\ fc \in {15, 16}
      BY <1>3, Codes
    <2>2. addr \in Nat /\ qty \in Nat
      BY <2>1, FieldsType
    <2>3. TableOf(fc) = IF fc = 15 THEN "coils" ELSE "holding"
      BY <2>1, Codes DEF TableOf
    <2>4. WriteMultiple(mem, pdu) =
            Answer(Overwrite(mem, TableOf(fc), addr, vals), SubSeq(pdu, 1, 5))
      BY <1>3 DEF WriteMultiple
    <2>5. Overwrite(mem, TableOf(fc), addr, vals) \in Memory
      <3>1. CASE fc = 15
        <4>1. 6 + NumBytes(qty) <= Len(pdu)
          <5>1. Len(pdu) = 6 + NumBytes(qty)
            BY <1>3, <3>1
          <5>2. NumBytes(qty) \in Nat
            BY <2>2, NumBytesBounds
          <5> HIDE DEF qty
          <5> QED BY <5>1, <5>2
        <4>2. vals = UnpackBits(pdu, 6, qty)
          BY <3>1
        <4> HIDE DEF qty, vals
        <4>3. vals \in Seq({0, 1})
          BY <2>2, <4>1, <4>2, UnpackBitsType
        <4>4. Overwrite(mem, "coils", addr, vals) \in Memory
          BY <4>3, <2>2, OverwriteType
        <4> QED BY <4>4, <3>1, TableNames
      <3>2. CASE fc = 16
        <4>1. Len(pdu) = 6 + 2 * qty
          BY <1>3, <3>2
        <4>2. vals = UnpackWords(pdu, 6, qty)
          BY <3>2
        <4> HIDE DEF qty, vals
        <4>3. 6 + 2 * qty <= Len(pdu)
          BY <2>2, <4>1
        <4>4. vals \in Seq(Words)
          BY <2>2, <4>2, <4>3, UnpackWordsType
        <4>5. Overwrite(mem, "holding", addr, vals) \in Memory
          BY <4>4, <2>2, OverwriteType
        <4> QED BY <4>5, <3>2, TableNames
      <3> QED BY <2>1, <3>1, <3>2
    <2>6. SubSeq(pdu, 1, 5) \in Seq(Byte) /\ Len(SubSeq(pdu, 1, 5)) = 5
      <3>1. Len(pdu) \in Nat /\ 1 \in 1..(Len(pdu) + 1) /\ 5 \in 0..Len(pdu)
        BY <2>1, LenProperties
      <3> QED BY <3>1, SubSeqProperties
    <2> DEFINE echo == SubSeq(pdu, 1, 5)
               after == Overwrite(mem, TableOf(fc), addr, vals)
    <2>7. 1 <= Len(echo) /\ Len(echo) <= maxPDU
      BY <2>6
    <2> HIDE DEF echo, after
    <2>8. Dispatched(Answer(after, echo))
      BY <2>5, <2>6, <2>7, AnswerType DEF after, echo
    <2> QED BY <2>4, <2>8 DEF after, echo
  <1> QED BY <1>1, <1>2, <1>3

(* Whatever frame arrives, the device's tables stay tables and it answers  *)
(* with a PDU: dispatch has no case that builds none or one too long.      *)
THEOREM DispatchType ==
    ASSUME NEW m \in Memory, NEW pdu \in Seq(Byte), 1 <= Len(pdu)
    PROVE  Dispatched(Dispatch(m, pdu))
  <1>1. Len(pdu) > 0 /\ Len(pdu) # 0
    BY LenProperties
  <1>2. CASE pdu[1] \in Reads
    <2>1. Dispatch(m, pdu) = ReadTable(m, pdu)
      BY <1>1, <1>2, Codes DEF Dispatch
    <2> QED BY <1>2, <2>1, ReadTableType
  <1>3. CASE pdu[1] \in SingleWrites
    <2>1. Dispatch(m, pdu) = WriteSingle(m, pdu)
      BY <1>1, <1>3, Codes DEF Dispatch
    <2> QED BY <1>3, <2>1, WriteSingleType
  <1>4. CASE pdu[1] \in MultiWrites
    <2>1. Dispatch(m, pdu) = WriteMultiple(m, pdu)
      BY <1>1, <1>4, Codes DEF Dispatch
    <2> QED BY <1>4, <2>1, WriteMultipleType
  <1>5. CASE pdu[1] \notin Reads \union SingleWrites \union MultiWrites
    <2>1. Dispatch(m, pdu) = Refuse(m, pdu, exIllegalFunction)
      BY <1>1, <1>5 DEF Dispatch
    <2> QED BY <2>1, RefuseType DEF exIllegalFunction
  <1> QED BY <1>2, <1>3, <1>4, <1>5

-----------------------------------------------------------------------------
(***************************************************************************)
(* What was packed is what is unpacked.                                    *)
(***************************************************************************)
LEMMA PackedBit ==
    ASSUME NEW bits \in Seq({0, 1}), NEW k \in Nat \ {0}, NEW j \in 1..8
    PROVE  (PackedByte(bits, k) \div Weight[j]) % 2 = BitOr0(bits, 8 * (k - 1) + j)
  <1>1. \A i \in Nat \ {0} : BitOr0(bits, i) \in {0, 1}
    BY DEF BitOr0
  <1> DEFINE o == 8 * (k - 1)
  <1>2. o + 1 > 0 /\ o \in Nat
    OBVIOUS
  <1>3. \A i \in 1..8 : BitOr0(bits, o + i) \in {0, 1}
    BY <1>1, <1>2
  <1>4. PICK b1 \in {0, 1} : b1 = BitOr0(bits, o + 1) BY <1>3
  <1>5. PICK b2 \in {0, 1} : b2 = BitOr0(bits, o + 2) BY <1>3
  <1>6. PICK b3 \in {0, 1} : b3 = BitOr0(bits, o + 3) BY <1>3
  <1>7. PICK b4 \in {0, 1} : b4 = BitOr0(bits, o + 4) BY <1>3
  <1>8. PICK b5 \in {0, 1} : b5 = BitOr0(bits, o + 5) BY <1>3
  <1>9. PICK b6 \in {0, 1} : b6 = BitOr0(bits, o + 6) BY <1>3
  <1>10. PICK b7 \in {0, 1} : b7 = BitOr0(bits, o + 7) BY <1>3
  <1>11. PICK b8 \in {0, 1} : b8 = BitOr0(bits, o + 8) BY <1>3
  <1>12. PICK x : x = b1 + 2 * b2 + 4 * b3 + 8 * b4 + 16 * b5 + 32 * b6 + 64 * b7 + 128 * b8
    OBVIOUS
  <1>13. PackedByte(bits, k) = x
    BY <1>4, <1>5, <1>6, <1>7, <1>8, <1>9, <1>10, <1>11, <1>12 DEF PackedByte
  <1>14. /\ (x \div 1) % 2 = b1 /\ (x \div 2) % 2 = b2
         /\ (x \div 4) % 2 = b3 /\ (x \div 8) % 2 = b4
    BY <1>12
  <1>15. /\ (x \div 16) % 2 = b5 /\ (x \div 32) % 2 = b6
         /\ (x \div 64) % 2 = b7 /\ (x \div 128) % 2 = b8
    BY <1>12
  <1>16. /\ Weight[1] = 1 /\ Weight[2] = 2 /\ Weight[3] = 4 /\ Weight[4] = 8
         /\ Weight[5] = 16 /\ Weight[6] = 32 /\ Weight[7] = 64 /\ Weight[8] = 128
    BY DEF Weight
  <1>17. j \in {1, 2, 3, 4, 5, 6, 7, 8}
    OBVIOUS
  <1> HIDE DEF o
  <1>18. (x \div Weight[j]) % 2 = BitOr0(bits, o + j)
    <2>1. CASE j = 1
      BY <1>4, <1>14, <1>16, <2>1
    <2>2. CASE j = 2
      BY <1>5, <1>14, <1>16, <2>2
    <2>3. CASE j = 3
      BY <1>6, <1>14, <1>16, <2>3
    <2>4. CASE j = 4
      BY <1>7, <1>14, <1>16, <2>4
    <2>5. CASE j = 5
      BY <1>8, <1>15, <1>16, <2>5
    <2>6. CASE j = 6
      BY <1>9, <1>15, <1>16, <2>6
    <2>7. CASE j = 7
      BY <1>10, <1>15, <1>16, <2>7
    <2>8. CASE j = 8
      BY <1>11, <1>15, <1>16, <2>8
    <2> QED BY <1>17, <2>1, <2>2, <2>3, <2>4, <2>5, <2>6, <2>7, <2>8
  <1> QED BY <1>13, <1>18 DEF o

LEMMA BitsRoundTrip ==
    ASSUME NEW bits \in Seq({0, 1}), NEW b, NEW off \in Nat,
           \A k \in 1..NumBytes(Len(bits)) : b[off + k] = PackBits(bits)[k]
    PROVE  UnpackBits(b, off, Len(bits)) = bits
  <1>1. ASSUME NEW i \in 1..Len(bits)
        PROVE  BitAt(b, off, i) = bits[i]
    <2> DEFINE d == (i - 1) \div 8
               r == (i - 1) % 8
               k == d + 1
    <2>1. /\ d \in Nat /\ r \in 0..7 /\ i = 8 * d + r + 1 /\ i \in Nat /\ i <= Len(bits)
      OBVIOUS
    <2>2. NumBytes(Len(bits)) \in Nat /\ Len(bits) <= 8 * NumBytes(Len(bits))
      BY NumBytesBounds
    <2> HIDE DEF d, r
    <2>3. k \in 1..NumBytes(Len(bits)) /\ k \in Nat \ {0}
      BY <2>1, <2>2
    <2>4. PackBits(bits)[k] = PackedByte(bits, k)
      BY <2>3 DEF PackBits
    <2>5. b[off + k] = PackedByte(bits, k)
      BY <2>3, <2>4
    <2>6. 1 + r \in 1..8
      BY <2>1
    <2>7. (PackedByte(bits, k) \div Weight[1 + r]) % 2 = BitOr0(bits, 8 * (k - 1) + (1 + r))
      BY <2>3, <2>6, PackedBit
    <2>8. 8 * (k - 1) + (1 + r) = i
      BY <2>1
    <2>9. BitOr0(bits, i) = bits[i]
      BY <2>1 DEF BitOr0
    <2>10. off + 1 + d = off + k
      BY <2>1
    <2>11. BitAt(b, off, i) = (b[off + 1 + d] \div Weight[1 + r]) % 2
      BY DEF BitAt, d, r
    <2> QED BY <2>5, <2>7, <2>8, <2>9, <2>10, <2>11
  <1>2. UnpackBits(b, off, Len(bits)) = [i \in 1..Len(bits) |-> bits[i]]
    BY <1>1 DEF UnpackBits
  <1> QED BY <1>2

LEMMA WordsRoundTrip ==
    ASSUME NEW ws \in Seq(Words), NEW b, NEW off \in Nat,
           \A k \in 1..(2 * Len(ws)) : b[off + k] = PackWords(ws)[k]
    PROVE  UnpackWords(b, off, Len(ws)) = ws
  <1>1. ASSUME NEW i \in 1..Len(ws)
        PROVE  WordAt(b, off + 2 * i - 1) = ws[i]
    <2>1. /\ 2 * i - 1 \in 1..(2 * Len(ws)) /\ 2 * i \in 1..(2 * Len(ws))
          /\ (2 * i - 1) % 2 = 1 /\ (2 * i) % 2 = 0
          /\ ((2 * i - 1) + 1) \div 2 = i /\ (2 * i) \div 2 = i
      OBVIOUS
    <2>2. PackWords(ws)[2 * i - 1] = Hi(ws[i])
      BY <2>1 DEF PackWords
    <2>3. PackWords(ws)[2 * i] = Lo(ws[i])
      BY <2>1 DEF PackWords
    <2>4. off + 2 * i - 1 = off + (2 * i - 1) /\ off + 2 * i - 1 + 1 = off + 2 * i
      OBVIOUS
    <2>5. WordAt(b, off + 2 * i - 1) = Hi(ws[i]) * 256 + Lo(ws[i])
      BY <2>1, <2>2, <2>3, <2>4 DEF WordAt
    <2>6. ws[i] \in Words
      BY ElementOfSeq
    <2> QED BY <2>5, <2>6, WordRoundTrip
  <1>2. UnpackWords(b, off, Len(ws)) = [i \in 1..Len(ws) |-> ws[i]]
    BY <1>1 DEF UnpackWords
  <1> QED BY <1>2

-----------------------------------------------------------------------------
(***************************************************************************)
(* What an exchange means: the device reads from a request what the typed  *)
(* operation put into it, and the operation reads from the response what   *)
(* the tables hold.                                                        *)
(***************************************************************************)
InTable(c) == c.addr + c.qty <= TableSize

Meant(m, c) == IF ~InTable(c) THEN Outcome("exception", <<exIllegalAddress>>)
               ELSE IF c.fc \in Writes THEN Outcome("ok", <<>>)
               ELSE Outcome("ok", Slice(m[TableOf(c.fc)], c.addr, c.qty))

Written(m, c) == IF c.fc \in Writes /\ InTable(c)
                 THEN Overwrite(m, TableOf(c.fc), c.addr, c.vals) ELSE m

(* The byte count of a multiple write fits a byte. *)
LEMMA CountIsByte ==
    ASSUME NEW count \in Nat
    PROVE  /\ count <= 1968 => NumBytes(count) \in Byte
           /\ count <= 123 => 2 * count \in Byte
  <1>1. PICK b : b = NumBytes(count)
    OBVIOUS
  <1>2. b \in Nat /\ 8 * b <= count + 7
    BY <1>1, NumBytesBounds
  <1>3. count <= 1968 => b \in 0..255
    BY <1>2
  <1>4. count <= 123 => 2 * count \in 0..255
    OBVIOUS
  <1> QED BY <1>1, <1>3, <1>4 DEF Byte

(* The fields of the request of an admissible call, as the device reads it. *)
LEMMA RequestFields ==
    ASSUME NEW c, WellFormed(c), QuantityOK(c)
    PROVE  LET pdu == RequestPDU(c)
           IN  /\ pdu \in Seq(Byte)
               /\ Payload(c) \in Seq(Byte)
               /\ Len(pdu) = 5 + Len(Payload(c))
               /\ pdu[1] = c.fc
               /\ WordAt(pdu, 2) = c.addr
               /\ WordAt(pdu, 4) = SecondWord(c)
               /\ \A i \in 1..Len(Payload(c)) : pdu[5 + i] = Payload(c)[i]
               /\ SecondWord(c) \in Words
               /\ Len(SubSeq(pdu, 1, 5)) = 5
               /\ \A i \in 1..5 : SubSeq(pdu, 1, 5)[i] = pdu[i]
  <1> DEFINE head == <<c.fc, Hi(c.addr), Lo(c.addr), Hi(SecondWord(c)), Lo(SecondWord(c))>>
             pdu  == RequestPDU(c)
             load == Payload(c)
  <1>1. /\ c.fc \in {1, 2, 3, 4, 5, 6, 15, 16} /\ c.addr \in Words
        /\ c.qty \in Words /\ c.vals \in Seq(Words)
        /\ c.fc \in {5, 6} => Len(c.vals) = 1
        /\ c.fc \in {15, 16} => Len(c.vals) = c.qty
        /\ c.fc \in {5, 15} => c.vals \in Seq({0, 1})
    <2>1. /\ c.fc \in {1, 2, 3, 4, 5, 6, 15, 16} /\ c.addr \in Words
          /\ c.qty \in Words /\ c.vals \in Seq(Words)
          /\ c.fc \in {5, 15} => c.vals \in Seq({0, 1})
      BY CallFields
    <2>2. c.fc \in {5, 6} => c.qty = 1
      BY CallFields
    <2>3. c.fc \in {5, 6, 15, 16} => Len(c.vals) = c.qty
      BY CallFields
    <2> QED BY <2>1, <2>2, <2>3
  <1>2. c.fc \in Byte
    BY <1>1 DEF Byte
  <1>3. SecondWord(c) \in Words
    <2>1. CASE c.fc \in {5, 6}
      <3>1. c.vals[1] \in Words
        BY <1>1, <2>1
      <3> QED BY <2>1, <3>1, Codes DEF SecondWord, SingleValue, coilOn, coilOff, Words
    <2>2. CASE c.fc \notin {5, 6}
      BY <1>1, <2>2, Codes DEF SecondWord
    <2> QED BY <2>1, <2>2
  <1>4. head \in Seq(Byte) /\ Len(head) = 5
    BY <1>1, <1>2, <1>3, WordRoundTrip
  <1>5. WordAt(head, 2) = c.addr /\ WordAt(head, 4) = SecondWord(c) /\ head[1] = c.fc
    BY <1>1, <1>3, WordRoundTrip DEF WordAt
  <1>6. load \in Seq(Byte)
    <2>1. CASE c.fc = 15
      <3>1. PackBits(c.vals) \in Seq(Byte) /\ Len(c.vals) \in Nat
        BY <1>1, <2>1, PackBitsType
      <3>2. NumBytes(Len(c.vals)) \in Byte
        <4>1. Len(c.vals) \in Nat /\ Len(c.vals) <= 1968
          BY <1>1, <2>1, CallFields
        <4> QED BY <4>1, CountIsByte
      <3>3. load = <<NumBytes(Len(c.vals))>> \o PackBits(c.vals)
        BY <2>1 DEF Payload
      <3>4. <<NumBytes(Len(c.vals))>> \in Seq(Byte)
        BY <3>2
      <3> QED BY <3>1, <3>3, <3>4, ConcatProperties
    <2>2. CASE c.fc = 16
      <3>1. PackWords(c.vals) \in Seq(Byte)
        BY <1>1, PackWordsType
      <3>2. 2 * Len(c.vals) \in Byte
        <4>1. Len(c.vals) \in Nat /\ Len(c.vals) <= 123
          BY <1>1, <2>2, CallFields
        <4> QED BY <4>1, CountIsByte
      <3>3. load = <<2 * Len(c.vals)>> \o PackWords(c.vals)
        BY <2>2 DEF Payload
      <3>4. <<2 * Len(c.vals)>> \in Seq(Byte)
        BY <3>2
      <3> QED BY <3>1, <3>3, <3>4, ConcatProperties
    <2>3. CASE c.fc \notin {15, 16}
      <3>1. load = <<>>
        BY <2>3 DEF Payload
      <3> QED BY <3>1
    <2> QED BY <2>1, <2>2, <2>3
  <1>7. pdu = head \o load
    BY DEF RequestPDU
  <1> HIDE DEF head, pdu, load
  <1>8. /\ pdu \in Seq(Byte) /\ Len(pdu) = 5 + Len(load) /\ Len(load) \in Nat
        /\ \A i \in 1..5 : pdu[i] = head[i]
        /\ \A i \in 1..Len(load) : pdu[5 + i] = load[i]
    <2>1. /\ head \o load \in Seq(Byte)
          /\ Len(head \o load) = Len(head) + Len(load)
          /\ \A i \in 1..(Len(head) + Len(load)) :
                (head \o load)[i] = IF i <= Len(head) THEN head[i] ELSE load[i - Len(head)]
      BY <1>4, <1>6, ConcatProperties
    <2>2. Len(load) \in Nat
      BY <1>6, LenProperties
    <2>3. ASSUME NEW i \in 1..5 PROVE (head \o load)[i] = head[i]
      <3>1. i \in 1..(5 + Len(load)) /\ i <= 5
        BY <2>2
      <3> QED BY <1>4, <2>1, <3>1
    <2>4. ASSUME NEW i \in 1..Len(load) PROVE (head \o load)[5 + i] = load[i]
      <3>1. 5 + i \in 1..(5 + Len(load)) /\ ~(5 + i <= 5) /\ 5 + i - 5 = i
        BY <2>2
      <3> QED BY <1>4, <2>1, <3>1
    <2> QED BY <1>4, <1>7, <2>1, <2>2, <2>3, <2>4
  <1>9. pdu[1] = c.fc /\ WordAt(pdu, 2) = c.addr /\ WordAt(pdu, 4) = SecondWord(c)
    BY <1>5, <1>8 DEF WordAt
  <1>10. /\ Len(SubSeq(pdu, 1, 5)) = 5
         /\ \A i \in 1..5 : SubSeq(pdu, 1, 5)[i] = pdu[i]
    <2>1. \A i \in 1..5 : pdu[i] \in Byte
      BY <1>8, ElementOfSeq
    <2>2. /\ Len(SubSeq(pdu, 1, 5)) = IF 1 <= 5 THEN 5 - 1 + 1 ELSE 0
          /\ \A i \in 1..(5 - 1 + 1) : SubSeq(pdu, 1, 5)[i] = pdu[1 + i - 1]
      BY <2>1, SubSeqProperties
    <2>3. \A i \in 1..5 : 1 + i - 1 = i
      OBVIOUS
    <2> QED BY <2>2, <2>3
  <1> QED BY <1>3, <1>6, <1>8, <1>9, <1>10 DEF pdu, load

(* A refusal is read as the exception it carries. *)
LEMMA RefusalMeans ==
    ASSUME NEW c, NEW m, NEW code, c.fc \in FunctionCodes, NEW pdu, pdu[1] = c.fc
    PROVE  /\ Refuse(m, pdu, code).mem = m
           /\ Interpret(c, Refuse(m, pdu, code).resp) = Outcome("exception", <<code>>)
  <1> DEFINE resp == <<c.fc + 128, code>>
  <1>1. c.fc \in {1, 2, 3, 4, 5, 6, 15, 16}
    BY Codes
  <1>2. Refuse(m, pdu, code).mem = m /\ Refuse(m, pdu, code).resp = resp
    BY <1>1 DEF Refuse, Exception, exceptionBit
  <1>3. IsException(resp) /\ resp[2] = code
    <2>1. Len(resp) = 2 /\ resp[1] = c.fc + 128 /\ resp[2] = code
      OBVIOUS
    <2> HIDE DEF resp
    <2> QED BY <1>1, <2>1 DEF IsException, exceptionBit
  <1> HIDE DEF resp
  <1> QED BY <1>2, <1>3 DEF Interpret

(* A response of a header of two bytes and data, as DecodeRead takes it apart. *)
LEMMA DataMeans ==
    ASSUME NEW fc \in {1, 2, 3, 4}, NEW size \in Nat, NEW data \in Seq(Byte), Len(data) = size
    PROVE  LET resp == <<fc, size>> \o data
           IN  /\ Len(resp) = 2 + size /\ Len(resp) >= 2
               /\ resp[1] = fc /\ resp[2] = size
               /\ \A i \in 1..size : resp[2 + i] = data[i]
               /\ ~IsException(resp)
  <1> DEFINE head == <<fc, size>>
             resp == head \o data
  <1>1. head \in Seq(Nat) /\ Len(head) = 2 /\ head[1] = fc /\ head[2] = size
    OBVIOUS
  <1>2. data \in Seq(Nat)
    <2>1. Byte \subseteq Nat
      BY DEF Byte
    <2> QED BY <2>1, SeqMonotonic
  <1> HIDE DEF head
  <1>3. /\ Len(resp) = 2 + size
        /\ \A i \in 1..(2 + size) : resp[i] = IF i <= 2 THEN head[i] ELSE data[i - 2]
    <2>1. /\ Len(head \o data) = Len(head) + Len(data)
          /\ \A i \in 1..(Len(head) + Len(data)) :
                (head \o data)[i] = IF i <= Len(head) THEN head[i] ELSE data[i - Len(head)]
      BY <1>1, <1>2, ConcatProperties
    <2> QED BY <1>1, <2>1
  <1>4. 1 \in 1..(2 + size) /\ 2 \in 1..(2 + size)
    OBVIOUS
  <1>5. ASSUME NEW i \in 1..size PROVE resp[2 + i] = data[i]
    <2>1. 2 + i \in 1..(2 + size) /\ ~(2 + i <= 2) /\ 2 + i - 2 = i
      OBVIOUS
    <2> QED BY <1>3, <2>1
  <1> HIDE DEF resp
  <1>6. resp[1] = fc /\ resp[2] = size
    BY <1>1, <1>3, <1>4
  <1>7. ~IsException(resp)
    BY <1>6 DEF IsException, exceptionBit
  <1> QED BY <1>3, <1>5, <1>6, <1>7 DEF resp, head

(* A slice inside the table is a sequence of its cells. *)
LEMMA SliceType ==
    ASSUME NEW m \in Memory, NEW fc \in {1, 2, 3, 4}, NEW addr \in Nat, NEW qty \in Nat,
           addr + qty <= TableSize
    PROVE  LET vals == Slice(m[TableOf(fc)], addr, qty)
           IN  /\ Len(vals) = qty
               /\ fc \in {1, 2} => vals \in Seq({0, 1})
               /\ fc \in {3, 4} => vals \in Seq(Words)
  <1>1. \A i \in 1..qty : addr + i - 1 \in Addresses
    BY TableSizeAssumption DEF Addresses
  <1>2. fc \in {1, 2} => m[TableOf(fc)] \in [Addresses -> {0, 1}]
    BY TableNames DEF Memory
  <1>3. fc \in {3, 4} => m[TableOf(fc)] \in [Addresses -> Words]
    BY TableNames DEF Memory
  <1> DEFINE table == m[TableOf(fc)]
             vals  == [i \in 1..qty |-> table[addr + i - 1]]
  <1>4. ASSUME NEW T, table \in [Addresses -> T] PROVE vals \in Seq(T)
    <2> HIDE DEF table
    <2>1. \A i \in 1..qty : table[addr + i - 1] \in T
      BY <1>1, <1>4
    <2> QED BY <2>1
  <1>5. Len(vals) = qty
    OBVIOUS
  <1>6. Slice(m[TableOf(fc)], addr, qty) = vals
    BY DEF Slice
  <1> HIDE DEF table, vals
  <1> QED BY <1>2, <1>3, <1>4, <1>5, <1>6 DEF table

LEMMA ReadMeans ==
    ASSUME NEW m \in Memory, NEW c, WellFormed(c), QuantityOK(c), c.fc \in {1, 2, 3, 4}
    PROVE  /\ Dispatch(m, RequestPDU(c)).mem = Written(m, c)
           /\ Interpret(c, Dispatch(m, RequestPDU(c)).resp) = Meant(m, c)
  <1> DEFINE pdu  == RequestPDU(c)
             d    == ReadTable(m, pdu)
             vals == Slice(m[TableOf(c.fc)], c.addr, c.qty)
  <1>1. c.addr \in Nat /\ c.qty \in Nat /\ 1 <= c.qty /\ c.qty <= Limit(c.fc)
    <2>1. c.addr \in Words /\ c.qty \in Words /\ 1 <= c.qty
      BY CallFields
    <2> QED BY <2>1 DEF Words, QuantityOK
  <1>2. Len(pdu) = 5 /\ pdu[1] = c.fc /\ WordAt(pdu, 2) = c.addr /\ WordAt(pdu, 4) = c.qty
    <2>1. Payload(c) = <<>> /\ SecondWord(c) = c.qty
      BY Codes DEF Payload, SecondWord
    <2>2. Len(pdu) = 5 + Len(Payload(c)) /\ pdu[1] = c.fc /\ WordAt(pdu, 2) = c.addr
          /\ WordAt(pdu, 4) = SecondWord(c)
      BY RequestFields
    <2> QED BY <2>1, <2>2
  <1>3. Dispatch(m, pdu) = d
    <2>1. Len(pdu) # 0 /\ Len(pdu) > 0 /\ pdu[1] \in Reads
      BY <1>2, Codes
    <2> HIDE DEF pdu
    <2> QED BY <2>1, Codes DEF Dispatch
  <1>4. ~(c.qty < 1) /\ ~(c.qty > Limit(c.fc))
    <2>1. Limit(c.fc) \in Int
      BY Limits
    <2> QED BY <1>1, <2>1
  <1>5. Written(m, c) = m
    BY Codes DEF Written
  <1> HIDE DEF pdu
  <1>6. CASE ~InTable(c)
    <2>1. c.addr + c.qty > TableSize
      BY <1>1, <1>6, TableSizeAssumption DEF InTable
    <2>2. d = Refuse(m, pdu, exIllegalAddress)
      BY <1>2, <1>4, <2>1 DEF ReadTable
    <2>3. c.fc \in FunctionCodes
      BY Codes
    <2>4. Meant(m, c) = Outcome("exception", <<exIllegalAddress>>)
      BY <1>6 DEF Meant
    <2> HIDE DEF d
    <2> QED BY <1>2, <1>3, <1>5, <2>2, <2>3, <2>4, RefusalMeans DEF pdu
  <1>7. CASE InTable(c)
    <2>1. ~(c.addr + c.qty > TableSize) /\ c.addr + c.qty <= TableSize
      BY <1>1, <1>7, TableSizeAssumption DEF InTable
    <2>2. Meant(m, c) = Outcome("ok", vals)
      BY <1>7, Codes DEF Meant
    <2>3. /\ Len(vals) = c.qty
          /\ c.fc \in {1, 2} => vals \in Seq({0, 1})
          /\ c.fc \in {3, 4} => vals \in Seq(Words)
      BY <1>1, <2>1, SliceType
    <2> HIDE DEF vals
    <2>4. CASE c.fc \in {1, 2}
      <3> DEFINE size == NumBytes(c.qty)
                 resp == <<c.fc, size>> \o PackBits(vals)
      <3>1. d = Answer(m, resp)
        BY <1>2, <1>4, <2>1, <2>4, Codes DEF ReadTable, vals
      <3>2. PackBits(vals) \in Seq(Byte) /\ Len(PackBits(vals)) = size /\ size \in Nat
        BY <1>1, <2>3, <2>4, PackBitsType, NumBytesBounds
      <3> HIDE DEF size, d
      <3>3. /\ Len(resp) = 2 + size /\ Len(resp) >= 2 /\ resp[1] = c.fc /\ resp[2] = size
            /\ \A i \in 1..size : resp[2 + i] = PackBits(vals)[i]
            /\ ~IsException(resp)
        BY <3>2, DataMeans
      <3> HIDE DEF resp
      <3>4. UnpackBits(resp, 2, c.qty) = vals
        <4>1. \A i \in 1..NumBytes(Len(vals)) : resp[2 + i] = PackBits(vals)[i]
          BY <2>3, <3>3 DEF size
        <4>2. UnpackBits(resp, 2, Len(vals)) = vals
          BY <2>3, <2>4, <4>1, BitsRoundTrip
        <4> QED BY <2>3, <4>2
      <3>5. Len(resp) >= 2 + size
        BY <3>2, <3>3
      <3>6. DecodeRead(c, resp, size, UnpackBits(resp, 2, c.qty)) = Outcome("ok", vals)
        BY <3>3, <3>4, <3>5 DEF DecodeRead
      <3>7. Interpret(c, resp) = Outcome("ok", vals)
        BY <2>4, <3>3, <3>6, Codes DEF Interpret, size
      <3> QED BY <1>3, <1>5, <2>2, <3>1, <3>7 DEF Answer, pdu
    <2>5. CASE c.fc \in {3, 4}
      <3> DEFINE size == 2 * c.qty
                 resp == <<c.fc, size>> \o PackWords(vals)
      <3>1. d = Answer(m, resp)
        BY <1>2, <1>4, <2>1, <2>5, Codes DEF ReadTable, vals
      <3>2. PackWords(vals) \in Seq(Byte) /\ Len(PackWords(vals)) = size /\ size \in Nat
        BY <1>1, <2>3, <2>5, PackWordsType
      <3> HIDE DEF size, d
      <3>3. /\ Len(resp) = 2 + size /\ Len(resp) >= 2 /\ resp[1] = c.fc /\ resp[2] = size
            /\ \A i \in 1..size : resp[2 + i] = PackWords(vals)[i]
            /\ ~IsException(resp)
        BY <3>2, DataMeans
      <3> HIDE DEF resp
      <3>4. UnpackWords(resp, 2, c.qty) = vals
        <4>1. \A i \in 1..(2 * Len(vals)) : resp[2 + i] = PackWords(vals)[i]
          BY <2>3, <3>3 DEF size
        <4>2. UnpackWords(resp, 2, Len(vals)) = vals
          BY <2>3, <2>5, <4>1, WordsRoundTrip
        <4> QED BY <2>3, <4>2
      <3>5. Len(resp) >= 2 + size
        BY <3>2, <3>3
      <3>6. DecodeRead(c, resp, size, UnpackWords(resp, 2, c.qty)) = Outcome("ok", vals)
        BY <3>3, <3>4, <3>5 DEF DecodeRead
      <3>7. Interpret(c, resp) = Outcome("ok", vals)
        BY <2>5, <3>3, <3>6, Codes DEF Interpret, size
      <3> QED BY <1>3, <1>5, <2>2, <3>1, <3>7 DEF Answer, pdu
    <2> QED BY <2>4, <2>5
  <1> QED BY <1>6, <1>7

(* An acknowledgement repeats the address and the word after it. *)
LEMMA EchoMeans ==
    ASSUME NEW c, c.fc \in {5, 6, 15, 16}, NEW resp, Len(resp) = 5, resp[1] = c.fc,
           WordAt(resp, 2) = c.addr, WordAt(resp, 4) = SecondWord(c)
    PROVE  Interpret(c, resp) = Outcome("ok", <<>>)
  <1>1. ~IsException(resp)
    BY DEF IsException, exceptionBit
  <1>2. c.fc \notin BitReads /\ c.fc \notin RegisterReads
    BY Codes
  <1>3. Len(resp) >= 5
    OBVIOUS
  <1>4. Interpret(c, resp) = DecodeWriteEcho(resp, c.addr, SecondWord(c))
    BY <1>1, <1>2 DEF Interpret
  <1> QED BY <1>3, <1>4 DEF DecodeWriteEcho

LEMMA WriteSingleMeans ==
    ASSUME NEW m \in Memory, NEW c, WellFormed(c), QuantityOK(c), c.addr \in Addresses,
           c.fc \in {5, 6}
    PROVE  /\ Dispatch(m, RequestPDU(c)).mem = Written(m, c)
           /\ Interpret(c, Dispatch(m, RequestPDU(c)).resp) = Meant(m, c)
  <1> DEFINE pdu  == RequestPDU(c)
             d    == WriteSingle(m, pdu)
             cell == IF c.fc = 6 THEN SecondWord(c) ELSE IF SecondWord(c) = coilOn THEN 1 ELSE 0
  <1>1. /\ Len(pdu) = 5 /\ pdu[1] = c.fc /\ WordAt(pdu, 2) = c.addr
        /\ WordAt(pdu, 4) = SecondWord(c)
    <2>1. Payload(c) = <<>>
      BY DEF Payload
    <2>2. Len(pdu) = 5 + Len(Payload(c)) /\ pdu[1] = c.fc /\ WordAt(pdu, 2) = c.addr
          /\ WordAt(pdu, 4) = SecondWord(c)
      BY RequestFields
    <2> QED BY <2>1, <2>2
  <1>2. Len(c.vals) = 1 /\ c.qty = 1 /\ c.vals \in Seq(Words)
        /\ (c.fc = 5 => c.vals \in Seq({0, 1}))
    <2>1. c.qty = 1 /\ Len(c.vals) = c.qty /\ c.vals \in Seq(Words)
          /\ (c.fc \in {5, 15} => c.vals \in Seq({0, 1}))
      BY CallFields
    <2> QED BY <2>1
  <1>3. c.vals = <<c.vals[1]>>
    BY <1>2
  <1>4. cell = c.vals[1] /\ (c.fc = 5 => SecondWord(c) \in {coilOn, coilOff})
    <2>1. c.fc = 5 => c.vals[1] \in {0, 1}
      BY <1>2
    <2> QED BY <2>1, Codes DEF SecondWord, SingleValue, coilOn, coilOff
  <1>5. InTable(c)
    <2>1. c.addr \in Nat /\ c.addr < TableSize
      BY TableSizeAssumption DEF Addresses
    <2> QED BY <1>2, <2>1, TableSizeAssumption DEF InTable
  <1>6. Dispatch(m, pdu) = d
    <2>1. Len(pdu) # 0 /\ Len(pdu) > 0 /\ pdu[1] \in SingleWrites /\ pdu[1] \notin Reads
      BY <1>1, Codes
    <2> HIDE DEF pdu
    <2> QED BY <2>1, Codes DEF Dispatch
  <1>7. d = Answer(Overwrite(m, TableOf(c.fc), c.addr, <<cell>>), pdu)
    <2> HIDE DEF pdu
    <2> QED BY <1>1, <1>4 DEF WriteSingle
  <1>8. Written(m, c) = Overwrite(m, TableOf(c.fc), c.addr, c.vals)
    BY <1>5, Codes DEF Written
  <1>9. Meant(m, c) = Outcome("ok", <<>>)
    BY <1>5, Codes DEF Meant
  <1>10. Interpret(c, pdu) = Outcome("ok", <<>>)
    <2> HIDE DEF pdu
    <2> QED BY <1>1, EchoMeans
  <1>11. <<cell>> = c.vals
    BY <1>3, <1>4
  <1> HIDE DEF pdu, d, cell
  <1>12. d.mem = Written(m, c) /\ d.resp = pdu
    BY <1>7, <1>8, <1>11 DEF Answer
  <1> QED BY <1>6, <1>9, <1>10, <1>12 DEF pdu

LEMMA WriteMultipleMeans ==
    ASSUME NEW m \in Memory, NEW c, WellFormed(c), QuantityOK(c), c.fc \in {15, 16}
    PROVE  /\ Dispatch(m, RequestPDU(c)).mem = Written(m, c)
           /\ Interpret(c, Dispatch(m, RequestPDU(c)).resp) = Meant(m, c)
  <1> DEFINE pdu  == RequestPDU(c)
             d    == WriteMultiple(m, pdu)
             size == IF c.fc = 15 THEN NumBytes(c.qty) ELSE 2 * c.qty
             data == IF c.fc = 15 THEN PackBits(c.vals) ELSE PackWords(c.vals)
             vals == IF c.fc = 15 THEN UnpackBits(pdu, 6, c.qty) ELSE UnpackWords(pdu, 6, c.qty)
  <1>1. c.addr \in Nat /\ c.qty \in Nat /\ 1 <= c.qty /\ c.qty <= Limit(c.fc)
    <2>1. c.addr \in Words /\ c.qty \in Words /\ 1 <= c.qty
      BY CallFields
    <2> QED BY <2>1 DEF Words, QuantityOK
  <1>2. /\ Len(c.vals) = c.qty /\ c.vals \in Seq(Words)
        /\ c.fc = 15 => c.vals \in Seq({0, 1})
    <2>1. Len(c.vals) = c.qty /\ c.vals \in Seq(Words)
          /\ (c.fc \in {5, 15} => c.vals \in Seq({0, 1}))
      BY CallFields
    <2> QED BY <2>1
  <1>3. data \in Seq(Byte) /\ Len(data) = size /\ size \in Nat
    <2>1. CASE c.fc = 15
      BY <1>1, <1>2, <2>1, PackBitsType, NumBytesBounds
    <2>2. CASE c.fc = 16
      BY <1>1, <1>2, <2>2, PackWordsType
    <2> QED BY <2>1, <2>2
  <1>4. Payload(c) = <<size>> \o data
    <2>1. CASE c.fc = 15
      BY <1>2, <2>1 DEF Payload
    <2>2. CASE c.fc = 16
      BY <1>2, <2>2 DEF Payload
    <2> QED BY <2>1, <2>2
  <1> HIDE DEF size, data, pdu
  <1>5. /\ Len(Payload(c)) = 1 + size /\ Payload(c)[1] = size
        /\ \A i \in 1..size : Payload(c)[1 + i] = data[i]
    <2>1. <<size>> \in Seq(Nat) /\ Len(<<size>>) = 1 /\ <<size>>[1] = size
      BY <1>3
    <2>2. data \in Seq(Nat)
      <3>1. Byte \subseteq Nat
        BY DEF Byte
      <3> QED BY <1>3, <3>1, SeqMonotonic
    <2>3. PICK head : head = <<size>>
      OBVIOUS
    <2>4. /\ Len(head \o data) = Len(head) + Len(data)
          /\ \A i \in 1..(Len(head) + Len(data)) :
                (head \o data)[i] = IF i <= Len(head) THEN head[i] ELSE data[i - Len(head)]
      BY <2>1, <2>2, <2>3, ConcatProperties
    <2>5. Len(head) = 1 /\ head[1] = size
      BY <2>1, <2>3
    <2>6. ASSUME NEW i \in 1..size PROVE (head \o data)[1 + i] = data[i]
      <3>1. 1 + i \in 1..(1 + size) /\ ~(1 + i <= 1) /\ 1 + i - 1 = i
        BY <1>3
      <3> QED BY <1>3, <2>4, <2>5, <3>1
    <2>7. (head \o data)[1] = size
      <3>1. 1 \in 1..(1 + size) /\ 1 <= 1
        BY <1>3
      <3> QED BY <1>3, <2>4, <2>5, <3>1
    <2> QED BY <1>3, <1>4, <2>3, <2>4, <2>5, <2>6, <2>7
  <1>6. /\ Len(pdu) = 6 + size /\ pdu[6] = size
        /\ pdu[1] = c.fc /\ WordAt(pdu, 2) = c.addr /\ WordAt(pdu, 4) = c.qty
        /\ \A i \in 1..size : pdu[6 + i] = data[i]
        /\ Len(SubSeq(pdu, 1, 5)) = 5
        /\ \A i \in 1..5 : SubSeq(pdu, 1, 5)[i] = pdu[i]
    <2>1. /\ Len(pdu) = 5 + Len(Payload(c)) /\ pdu[1] = c.fc
          /\ WordAt(pdu, 2) = c.addr /\ WordAt(pdu, 4) = SecondWord(c)
          /\ \A i \in 1..Len(Payload(c)) : pdu[5 + i] = Payload(c)[i]
          /\ Len(SubSeq(pdu, 1, 5)) = 5
          /\ \A i \in 1..5 : SubSeq(pdu, 1, 5)[i] = pdu[i]
      BY RequestFields DEF pdu
    <2>2. SecondWord(c) = c.qty
      BY Codes DEF SecondWord
    <2>3. pdu[6] = size
      <3>1. 1 \in 1..Len(Payload(c)) /\ 5 + 1 = 6
        BY <1>3, <1>5
      <3> QED BY <1>5, <2>1, <3>1
    <2>4. ASSUME NEW i \in 1..size PROVE pdu[6 + i] = data[i]
      <3>1. 1 + i \in 1..Len(Payload(c)) /\ 5 + (1 + i) = 6 + i
        BY <1>3, <1>5
      <3> QED BY <1>5, <2>1, <3>1
    <2> QED BY <1>3, <1>5, <2>1, <2>2, <2>3, <2>4
  <1>7. vals = c.vals
    <2>1. CASE c.fc = 15
      <3>1. \A i \in 1..NumBytes(Len(c.vals)) : pdu[6 + i] = PackBits(c.vals)[i]
        BY <1>2, <1>6, <2>1 DEF size, data
      <3>2. UnpackBits(pdu, 6, Len(c.vals)) = c.vals
        BY <1>2, <2>1, <3>1, BitsRoundTrip
      <3> QED BY <1>2, <2>1, <3>2
    <2>2. CASE c.fc = 16
      <3>1. \A i \in 1..(2 * Len(c.vals)) : pdu[6 + i] = PackWords(c.vals)[i]
        BY <1>2, <1>6, <2>2 DEF size, data
      <3>2. UnpackWords(pdu, 6, Len(c.vals)) = c.vals
        BY <1>2, <2>2, <3>1, WordsRoundTrip
      <3> QED BY <1>2, <2>2, <3>2
    <2> QED BY <2>1, <2>2
  <1>8. /\ ~(Len(pdu) < 6) /\ ~(c.qty < 1) /\ ~(c.qty > Limit(c.fc))
        /\ Len(pdu) # 0 /\ Len(pdu) > 0
    <2>1. Limit(c.fc) \in Int
      BY Limits
    <2> QED BY <1>1, <1>3, <1>6, <2>1
  <1>9. Dispatch(m, pdu) = d
    <2>1. pdu[1] \in MultiWrites /\ pdu[1] \notin Reads /\ pdu[1] \notin SingleWrites
      BY <1>6, Codes
    <2> QED BY <1>8, <2>1 DEF Dispatch
  <1>10. size = IF c.fc = FuncWriteMultipleCoils THEN NumBytes(c.qty) ELSE 2 * c.qty
    BY DEF size
  <1>11. CASE ~InTable(c)
    <2>1. c.addr + c.qty > TableSize
      BY <1>1, <1>11, TableSizeAssumption DEF InTable
    <2>2. d = Refuse(m, pdu, exIllegalAddress)
      BY <1>6, <1>8, <1>10, <2>1 DEF WriteMultiple
    <2>3. c.fc \in FunctionCodes
      BY Codes
    <2>4. Meant(m, c) = Outcome("exception", <<exIllegalAddress>>) /\ Written(m, c) = m
      BY <1>11 DEF Meant, Written
    <2> HIDE DEF d
    <2> QED BY <1>6, <1>9, <2>2, <2>3, <2>4, RefusalMeans DEF pdu
  <1>12. CASE InTable(c)
    <2>1. ~(c.addr + c.qty > TableSize)
      BY <1>1, <1>12, TableSizeAssumption DEF InTable
    <2>2. d = Answer(Overwrite(m, TableOf(c.fc), c.addr, vals), SubSeq(pdu, 1, 5))
      BY <1>6, <1>8, <1>10, <2>1 DEF WriteMultiple
    <2>3. Meant(m, c) = Outcome("ok", <<>>)
      BY <1>12, Codes DEF Meant
    <2>4. Written(m, c) = Overwrite(m, TableOf(c.fc), c.addr, c.vals)
      BY <1>12, Codes DEF Written
    <2>5. PICK echo : echo = SubSeq(pdu, 1, 5)
      OBVIOUS
    <2>6. Len(echo) = 5 /\ \A i \in 1..5 : echo[i] = pdu[i]
      BY <1>6, <2>5
    <2>7. echo[1] = c.fc /\ WordAt(echo, 2) = c.addr /\ WordAt(echo, 4) = SecondWord(c)
      <3>1. SecondWord(c) = c.qty
        BY Codes DEF SecondWord
      <3> QED BY <1>6, <2>6, <3>1 DEF WordAt
    <2>8. Interpret(c, echo) = Outcome("ok", <<>>)
      BY <2>6, <2>7, EchoMeans
    <2> HIDE DEF vals, d
    <2>9. d.mem = Written(m, c) /\ d.resp = echo
      BY <1>7, <2>2, <2>4, <2>5 DEF Answer
    <2> QED BY <1>9, <2>3, <2>8, <2>9 DEF pdu
  <1> QED BY <1>11, <1>12

(* The device, asked over the wire, does to its tables what the call says  *)
(* and answers what the caller then reads: for every admissible call and   *)
(* every content of the tables, whatever the values and quantities         *)
(* (client.go's typed operations, pdu.go, mock/server.go).                 *)
THEOREM ExchangeMeans ==
    ASSUME NEW m \in Memory, NEW c, WellFormed(c), QuantityOK(c), c.addr \in Addresses
    PROVE  /\ Dispatch(m, RequestPDU(c)).mem = Written(m, c)
           /\ Interpret(c, Dispatch(m, RequestPDU(c)).resp) = Meant(m, c)
  <1>1. c.fc \in {1, 2, 3, 4, 5, 6, 15, 16}
    BY CallFields
  <1>2. CASE c.fc \in {1, 2, 3, 4}
    BY <1>2, ReadMeans
  <1>3. CASE c.fc \in {5, 6}
    BY <1>3, WriteSingleMeans
  <1>4. CASE c.fc \in {15, 16}
    BY <1>4, WriteMultipleMeans
  <1> QED BY <1>1, <1>2, <1>3, <1>4
=============================================================================
