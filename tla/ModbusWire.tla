----------------------------- MODULE ModbusWire -----------------------------
(***************************************************************************)
(* The Modbus TCP wire format as internal/modbus speaks it: the MBAP       *)
(* header of mbap.go, the request encoders and the response decoders of    *)
(* pdu.go, and the limits of limits.go.  Bytes are 0..255, 16-bit words    *)
(* are 0..65535, a coil is the number 0 or 1.                              *)
(*                                                                         *)
(* A call is one typed operation of client.go:                             *)
(*   fc    the function code, one of the eight implemented                 *)
(*   addr  the zero-based address                                          *)
(*   qty   the quantity asked for (the number of values for a write)       *)
(*   vals  the values to write, the empty sequence for a read              *)
(***************************************************************************)
EXTENDS Integers, Sequences

FuncReadCoils              == 1
FuncReadDiscreteInputs     == 2
FuncReadHoldingRegisters   == 3
FuncReadInputRegisters     == 4
FuncWriteSingleCoil        == 5
FuncWriteSingleRegister    == 6
FuncWriteMultipleCoils     == 15
FuncWriteMultipleRegisters == 16

BitReads      == {FuncReadCoils, FuncReadDiscreteInputs}
RegisterReads == {FuncReadHoldingRegisters, FuncReadInputRegisters}
Reads         == BitReads \union RegisterReads
SingleWrites  == {FuncWriteSingleCoil, FuncWriteSingleRegister}
MultiWrites   == {FuncWriteMultipleCoils, FuncWriteMultipleRegisters}
Writes        == SingleWrites \union MultiWrites
CoilWrites    == {FuncWriteSingleCoil, FuncWriteMultipleCoils}
FunctionCodes == Reads \union Writes

mbapLen           == 7
protocolID        == 0
maxPDU            == 253
MaxReadRegisters  == 125
MaxReadBits       == 2000
MaxWriteRegisters == 123
MaxWriteBits      == 1968
exceptionBit      == 128
coilOn            == 65280
coilOff           == 0

Byte  == 0..255
Words == {w \in Nat : w < 65536}

(* The most values one call of a function code may carry. *)
Limit(fc) == CASE fc \in BitReads -> MaxReadBits
               [] fc \in RegisterReads -> MaxReadRegisters
               [] fc \in SingleWrites -> 1
               [] fc = FuncWriteMultipleCoils -> MaxWriteBits
               [] fc = FuncWriteMultipleRegisters -> MaxWriteRegisters

(* What the typed operations' signatures grant: 16-bit addresses and       *)
(* values, a write's quantity is the number of its values, a coil is a     *)
(* boolean.                                                                *)
WellFormed(c) ==
    /\ c \in [fc : FunctionCodes, addr : Words, qty : Words, vals : Seq(Words)]
    /\ c.fc \in Reads => c.vals = <<>>
    /\ c.fc \in Writes => c.qty = Len(c.vals)
    /\ c.fc \in SingleWrites => c.qty = 1
    /\ c.fc \in CoilWrites => c.vals \in Seq({0, 1})

(* The check every typed operation makes before it touches the network. *)
QuantityOK(c) == c.qty >= 1 /\ c.qty <= Limit(c.fc)

(* Mutant: the low byte is not masked. *)
LoUnmasked(w) == w

(* binary.BigEndian.PutUint16 and Uint16: the high byte comes first. *)
Hi(w) == w \div 256
Lo(w) == w % 256
WordAt(b, i) == b[i] * 256 + b[i + 1]

(***************************************************************************)
(* The MBAP header.                                                        *)
(***************************************************************************)
EncodeMBAP(tx, len, unit) ==
    <<Hi(tx), Lo(tx), Hi(protocolID), Lo(protocolID), Hi(len), Lo(len), unit>>

DecodeMBAP(b) ==
    LET len == WordAt(b, 5)
    IN  [tx |-> WordAt(b, 1), len |-> len,
         ok |-> /\ WordAt(b, 3) = protocolID
                /\ len >= 2
                /\ len - 1 <= maxPDU]

(* Mutant: the length field forgets the unit byte. *)
FrameShort(tx, unit, pdu) == EncodeMBAP(tx, Len(pdu), unit) \o pdu

(* A whole frame: the length field counts the unit byte and the PDU. *)
Frame(tx, unit, pdu) == EncodeMBAP(tx, Len(pdu) + 1, unit) \o pdu

(***************************************************************************)
(* Request PDUs.                                                           *)
(***************************************************************************)
NumBytes(bits) == (bits + 7) \div 8

(* The byte that carries bits 8(k-1)+1 .. 8k, first bit least significant; *)
(* bits past the last one are 0.                                           *)
BitOr0(bits, i) == IF i <= Len(bits) THEN bits[i] ELSE 0
PackedByte(bits, k) ==
    LET o == 8 * (k - 1)
    IN  BitOr0(bits, o + 1) + 2 * BitOr0(bits, o + 2)
          + 4 * BitOr0(bits, o + 3) + 8 * BitOr0(bits, o + 4)
          + 16 * BitOr0(bits, o + 5) + 32 * BitOr0(bits, o + 6)
          + 64 * BitOr0(bits, o + 7) + 128 * BitOr0(bits, o + 8)
PackBits(bits) == [k \in 1..NumBytes(Len(bits)) |-> PackedByte(bits, k)]

(* Mutant: bits are counted from 1 inside the byte. *)
BitAtShifted(b, off, i) == (b[off + 1 + ((i - 1) \div 8)] \div <<1, 2, 4, 8, 16, 32, 64, 128>>[1 + (i % 8)]) % 2

(* Bit i (from 1) of a packed byte sequence that starts after index off. *)
Weight      == <<1, 2, 4, 8, 16, 32, 64, 128>>
BitAt(b, off, i) ==
    (b[off + 1 + ((i - 1) \div 8)] \div Weight[1 + ((i - 1) % 8)]) % 2
UnpackBits(b, off, count) == [i \in 1..count |-> BitAt(b, off, i)]

PackWords(ws) ==
    [k \in 1..(2 * Len(ws)) |-> IF k % 2 = 1 THEN Hi(ws[(k + 1) \div 2])
                                 ELSE Lo(ws[k \div 2])]
UnpackWords(b, off, count) == [i \in 1..count |-> WordAt(b, off + 2 * i - 1)]

SingleValue(c) ==
    IF c.fc = FuncWriteSingleRegister THEN c.vals[1]
    ELSE IF c.vals[1] = 1 THEN coilOn ELSE coilOff

(* The word after the address: a quantity, or the value of a single write. *)
SecondWord(c) == IF c.fc \in SingleWrites THEN SingleValue(c) ELSE c.qty

Payload(c) ==
    CASE c.fc = FuncWriteMultipleCoils ->
           <<NumBytes(Len(c.vals))>> \o PackBits(c.vals)
      [] c.fc = FuncWriteMultipleRegisters ->
           <<2 * Len(c.vals)>> \o PackWords(c.vals)
      [] OTHER -> <<>>

RequestPDU(c) ==
    <<c.fc, Hi(c.addr), Lo(c.addr), Hi(SecondWord(c)), Lo(SecondWord(c))>>
      \o Payload(c)

(***************************************************************************)
(* Response PDUs.  An outcome is what a typed operation hands its caller.  *)
(***************************************************************************)
Outcome(kind, vals) == [kind |-> kind, vals |-> vals]

IsException(pdu) == Len(pdu) >= 2 /\ pdu[1] >= exceptionBit

DecodeRead(c, pdu, want, unpacked) ==
    IF Len(pdu) >= 2 /\ pdu[2] = want /\ Len(pdu) >= 2 + want
    THEN Outcome("ok", unpacked) ELSE Outcome("decode", <<>>)

DecodeWriteEcho(pdu, wantAddress, wantValue) ==
    IF /\ Len(pdu) >= 5
       /\ WordAt(pdu, 2) = wantAddress
       /\ WordAt(pdu, 4) = wantValue
    THEN Outcome("ok", <<>>) ELSE Outcome("decode", <<>>)

(* What do and the typed operation around it make of a response PDU: the   *)
(* exception bit is looked at first, then the function code, then the data.*)
Interpret(c, pdu) ==
    IF IsException(pdu) THEN Outcome("exception", <<pdu[2]>>)
    ELSE IF pdu[1] # c.fc THEN Outcome("wrongFunction", <<>>)
    ELSE IF c.fc \in BitReads
         THEN DecodeRead(c, pdu, NumBytes(c.qty), UnpackBits(pdu, 2, c.qty))
    ELSE IF c.fc \in RegisterReads
         THEN DecodeRead(c, pdu, 2 * c.qty, UnpackWords(pdu, 2, c.qty))
    ELSE DecodeWriteEcho(pdu, c.addr, SecondWord(c))
=============================================================================
