----------------------------- MODULE MockDevice -----------------------------
(***************************************************************************)
(* The device otcat is tested against, internal/mock/server.go: four       *)
(* tables behind one mutex, and a dispatcher that turns a request PDU into *)
(* a response PDU.  The code's tables have 65536 cells; TableSize is that  *)
(* number.  Dispatch runs under the mutex, so one evaluation of it is one  *)
(* atomic step of whatever module uses it.                                 *)
(***************************************************************************)
EXTENDS ModbusWire

CONSTANT TableSize

ASSUME TableSizeAssumption == TableSize \in Nat /\ 0 < TableSize /\ TableSize <= 65536

Addresses == 0..(TableSize - 1)

Memory == [coils    : [Addresses -> {0, 1}],
           discrete : [Addresses -> {0, 1}],
           holding  : [Addresses -> Words],
           input    : [Addresses -> Words]]

exIllegalFunction == 1
exIllegalAddress  == 2
exIllegalValue    == 3

Exception(fc, code) == << IF fc < exceptionBit THEN fc + exceptionBit ELSE fc, code >>

(* The table a function code reads or writes. *)
TableOf(fc) == CASE fc = FuncReadCoils \/ fc \in CoilWrites -> "coils"
                 [] fc = FuncReadDiscreteInputs -> "discrete"
                 [] fc = FuncReadInputRegisters -> "input"
                 [] OTHER -> "holding"

Slice(table, addr, count) == [i \in 1..count |-> table[addr + i - 1]]

Overwrite(mem, tab, addr, vals) ==
    [mem EXCEPT ![tab] = [a \in Addresses |->
        IF a \in addr..(addr + Len(vals) - 1) THEN vals[a - addr + 1] ELSE @[a]]]

Refuse(mem, pdu, code) == [mem |-> mem, resp |-> Exception(pdu[1], code)]
Answer(mem, resp)      == [mem |-> mem, resp |-> resp]

(* readBits and readRegs. *)
ReadTable(mem, pdu) ==
    LET fc   == pdu[1]
        addr == WordAt(pdu, 2)
        qty  == WordAt(pdu, 4)
        vals == Slice(mem[TableOf(fc)], addr, qty)
    IN  IF Len(pdu) # 5 \/ qty < 1 \/ qty > Limit(fc) THEN Refuse(mem, pdu, exIllegalValue)
        ELSE IF addr + qty > TableSize THEN Refuse(mem, pdu, exIllegalAddress)
        ELSE IF fc \in BitReads THEN Answer(mem, <<fc, NumBytes(qty)>> \o PackBits(vals))
        ELSE Answer(mem, <<fc, 2 * qty>> \o PackWords(vals))

(* writeSingleCoil and writeSingleRegister: the request is echoed. *)
WriteSingle(mem, pdu) ==
    LET fc   == pdu[1]
        addr == WordAt(pdu, 2)
        val  == WordAt(pdu, 4)
        cell == IF fc = FuncWriteSingleRegister THEN val
                ELSE IF val = coilOn THEN 1 ELSE 0
    IN  IF Len(pdu) # 5 \/ (fc = FuncWriteSingleCoil /\ val \notin {coilOn, coilOff})
        THEN Refuse(mem, pdu, exIllegalValue)
        ELSE Answer(Overwrite(mem, TableOf(fc), addr, <<cell>>), pdu)

(* writeMultipleCoils and writeMultipleRegisters. *)
WriteMultiple(mem, pdu) ==
    LET fc   == pdu[1]
        addr == WordAt(pdu, 2)
        qty  == WordAt(pdu, 4)
        bits == fc = FuncWriteMultipleCoils
        size == IF bits THEN NumBytes(qty) ELSE 2 * qty
        vals == IF bits THEN UnpackBits(pdu, 6, qty) ELSE UnpackWords(pdu, 6, qty)
    IN  IF \/ Len(pdu) < 6
           \/ qty < 1
           \/ qty > Limit(fc)
           \/ pdu[6] # size
           \/ Len(pdu) # 6 + size
        THEN Refuse(mem, pdu, exIllegalValue)
        ELSE IF addr + qty > TableSize THEN Refuse(mem, pdu, exIllegalAddress)
        ELSE Answer(Overwrite(mem, TableOf(fc), addr, vals), SubSeq(pdu, 1, 5))

Dispatch(mem, pdu) ==
    CASE Len(pdu) = 0 -> [mem |-> mem, resp |-> Exception(0, exIllegalFunction)]
      [] Len(pdu) > 0 /\ pdu[1] \in Reads -> ReadTable(mem, pdu)
      [] Len(pdu) > 0 /\ pdu[1] \in SingleWrites -> WriteSingle(mem, pdu)
      [] Len(pdu) > 0 /\ pdu[1] \in MultiWrites -> WriteMultiple(mem, pdu)
      [] OTHER -> Refuse(mem, pdu, exIllegalFunction)
=============================================================================
