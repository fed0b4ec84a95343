----------------------------- MODULE ModbusDriver -----------------------------
(***************************************************************************)
(* internal/modbus/driver.go with convert.go: from an address as an        *)
(* operator writes it and a list of numbers to the cells of the device,    *)
(* and back.  The exchange with the device is taken whole here, byte for   *)
(* byte: what can happen to it on the way is ModbusClient's subject.       *)
(*                                                                         *)
(* Literals are integers: how decimal and hexadecimal digits are read is   *)
(* left out, and a float32 is the integer its 32 bits spell.  A register   *)
(* is two bytes; ByteSize scales both down for TLC, whose integers have no *)
(* room for 32 bits.                                                       *)
(***************************************************************************)
EXTENDS MockDevice, Addressing, FiniteSets

CONSTANTS Numerals,    \* address numbers an operator may write
          Counts,      \* counts after the address; 0 is none given
          LiteralLists,\* what may be written
          InitMem,     \* the device's tables at the start
          ByteSize     \* the values of a byte; 256 in the code

ASSUME ByteSizeAssumption == ByteSize \in 2..256 /\ ByteSize % 2 = 0
ASSUME NumeralsAssumption == Numerals \subseteq Nat /\ Counts \subseteq Nat
ASSUME LiteralsAssumption == \A ls \in LiteralLists : ls \in Seq(Int) /\ ls # <<>>
(* A register has its two bytes, of whatever size a byte is here. *)
ASSUME DeviceAssumption   ==
    /\ InitMem \in Memory
    /\ \A a \in Addresses : /\ InitMem.holding[a] < ByteSize * ByteSize
                            /\ InitMem.input[a] < ByteSize * ByteSize

VARIABLES opt,      \* the options: type, byteOrder, wordOrder, rawAddress
          spec,     \* the address: table, numeral, count
          literals, \* the values to write
          phase,    \* start, planned, written, read
          plan,     \* what --dry-run shows
          outcome,  \* how the write ended
          mem,      \* the device's tables
          got       \* what the read that follows returns

driverVars == <<opt, spec, literals, phase, plan, outcome, mem, got>>

AddressOK(s, raw) == OffsetOK(s.table, s.numeral, raw)

(***************************************************************************)
(* convert.go.                                                             *)
(***************************************************************************)
DataTypes == {"uint16", "int16", "uint32", "int32", "float32"}

RegisterCount(t) == IF t \in {"uint16", "int16"} THEN 1 ELSE 2

WordSize == ByteSize * ByteSize
Modulus(t) == IF RegisterCount(t) = 1 THEN WordSize ELSE WordSize * WordSize
Signed(t)  == t \in {"int16", "int32"}

InRange(t, v) == IF Signed(t) THEN -(Modulus(t) \div 2) <= v /\ v < Modulus(t) \div 2
                 ELSE 0 <= v /\ v < Modulus(t)

SwapBytes(r) == (r % ByteSize) * ByteSize + r \div ByteSize
SwapEach(regs) == [i \in 1..Len(regs) |-> SwapBytes(regs[i])]
SwapPair(regs) == <<regs[2], regs[1]>>

Bytes(o, regs) == IF o.byteOrder = "little" THEN SwapEach(regs) ELSE regs
Order(o, regs) == IF o.wordOrder = "low" /\ Len(regs) = 2 THEN SwapPair(regs) ELSE regs

Normalize(o, regs)   == Order(o, Bytes(o, regs))
(* Mutant: the conversions to the wire and from it are the same one. *)
DenormalizeHigh(o, regs) == Bytes(o, regs)

Denormalize(o, regs) == Bytes(o, Order(o, regs))

Encode(o, v) == LET u == v % Modulus(o.type)
                IN  Denormalize(o, IF RegisterCount(o.type) = 1 THEN <<u>>
                                   ELSE <<u \div WordSize, u % WordSize>>)

(* Mutant: the sign is lost. *)
DecodeUnsigned(o, regs) ==
    LET r == Normalize(o, regs)
    IN  IF RegisterCount(o.type) = 1 THEN r[1] ELSE r[1] * WordSize + r[2]

Decode(o, regs) == LET r == Normalize(o, regs)
                       u == IF RegisterCount(o.type) = 1 THEN r[1] ELSE r[1] * WordSize + r[2]
                   IN  IF Signed(o.type) /\ u >= Modulus(o.type) \div 2
                       THEN u - Modulus(o.type) ELSE u

(***************************************************************************)
(* driver.go, writing.                                                     *)
(***************************************************************************)
Invalid == [kind |-> "invalid", vals |-> <<>>]

LiteralsOK(o, s, ls) == \A i \in 1..Len(ls) :
                           IF s.table = "coil" THEN ls[i] \in {0, 1} ELSE InRange(o.type, ls[i])

(* All the registers of a list of values, in order. *)
Registers(o, ls) == LET w == RegisterCount(o.type)
                    IN  [k \in 1..(w * Len(ls)) |->
                           Encode(o, ls[1 + ((k - 1) \div w)])[1 + ((k - 1) % w)]]

(* The count after the address plays no part in a write. *)
EncodeWrite(o, s, ls) ==
    IF ~AddressOK(s, o.rawAddress) \/ ~Writable(s.table) \/ ~LiteralsOK(o, s, ls) THEN Invalid
    ELSE [kind |-> "plan", vals |-> IF s.table = "coil" THEN ls ELSE Registers(o, ls)]

(* Mutant: two registers are enough for one value. *)
WriteCallOfPair(o, s, vals) ==
    [fc   |-> IF s.table = "coil" THEN FuncWriteMultipleCoils ELSE FuncWriteMultipleRegisters,
     addr |-> Offset(s.table, s.numeral, o.rawAddress),
     qty  |-> IF Len(vals) > 2 THEN 2 ELSE Len(vals),
     vals |-> IF Len(vals) > 2 THEN SubSeq(vals, 1, 2) ELSE vals]

WriteCall(o, s, vals) ==
    [fc   |-> CASE s.table = "coil" /\ Len(vals) = 1 -> FuncWriteSingleCoil
                [] s.table = "coil" /\ Len(vals) # 1 -> FuncWriteMultipleCoils
                [] s.table # "coil" /\ Len(vals) = 1 -> FuncWriteSingleRegister
                [] OTHER -> FuncWriteMultipleRegisters,
     addr |-> Offset(s.table, s.numeral, o.rawAddress),
     qty  |-> Len(vals), vals |-> vals]

(***************************************************************************)
(* driver.go, reading.                                                     *)
(***************************************************************************)
ReadCount(o, s) == CASE s.count # 0 -> s.count
                     [] s.count = 0 /\ IsBits(s.table) -> 1
                     [] OTHER -> RegisterCount(o.type)

ReadCall(o, s) ==
    [fc   |-> CASE s.table = "coil" -> FuncReadCoils
                [] s.table = "discrete" -> FuncReadDiscreteInputs
                [] s.table = "holding" -> FuncReadHoldingRegisters
                [] s.table = "input" -> FuncReadInputRegisters,
     addr |-> Offset(s.table, s.numeral, o.rawAddress),
     qty  |-> ReadCount(o, s), vals |-> <<>>]

Group(o, regs) ==
    LET w == RegisterCount(o.type)
    IN  [i \in 1..(Len(regs) \div w) |-> Decode(o, SubSeq(regs, (i - 1) * w + 1, i * w))]

ReadResult(o, s, res) ==
    IF res.kind # "ok" \/ IsBits(s.table) THEN res
    ELSE IF Len(res.vals) % RegisterCount(o.type) # 0 THEN Invalid
    ELSE Outcome("ok", Group(o, res.vals))

(***************************************************************************)
(* A dry run, then the write itself, then a read of the same address.      *)
(***************************************************************************)
Options == [type : DataTypes, byteOrder : {"big", "little"}, wordOrder : {"high", "low"},
            rawAddress : BOOLEAN]

Init == /\ opt \in Options
        /\ spec \in [table : Tables, numeral : Numerals, count : Counts]
        /\ literals \in LiteralLists
        /\ phase = "start"
        /\ plan = Invalid
        /\ outcome = Invalid
        /\ mem = InitMem
        /\ got = Invalid

ExplainWrite == /\ phase = "start"
                /\ phase' = "planned"
                /\ plan' = EncodeWrite(opt, spec, literals)
                /\ UNCHANGED <<opt, spec, literals, outcome, mem, got>>

(* The device of the model has TableSize cells; its real one has all. *)
OnDevice == AddressOK(spec, opt.rawAddress) =>
                Offset(spec.table, spec.numeral, opt.rawAddress) \in Addresses

(* The call as the client makes it, all going well. *)
Exchange(c) == LET done == Dispatch(mem, RequestPDU(c))
               IN  IF QuantityOK(c) THEN [mem |-> done.mem, res |-> Interpret(c, done.resp)]
                   ELSE [mem |-> mem, res |-> Outcome("limit", <<>>)]

Write == /\ phase = "planned"
         /\ OnDevice
         /\ phase' = "written"
         /\ LET e == EncodeWrite(opt, spec, literals)
            IN  IF e = Invalid THEN outcome' = Invalid /\ UNCHANGED mem
                ELSE LET x == Exchange(WriteCall(opt, spec, e.vals))
                     IN  outcome' = x.res /\ mem' = x.mem
         /\ UNCHANGED <<opt, spec, literals, plan, got>>

Read == /\ phase = "written"
        /\ phase' = "read"
        /\ got' = IF ~AddressOK(spec, opt.rawAddress) THEN Invalid
                  ELSE ReadResult(opt, spec, Exchange(ReadCall(opt, spec)).res)
        /\ UNCHANGED <<opt, spec, literals, plan, outcome, mem>>

Next == ExplainWrite \/ Write \/ Read

DriverSpec == Init /\ [][Next]_driverVars

-----------------------------------------------------------------------------
(***************************************************************************)
(* Properties.                                                             *)
(***************************************************************************)

(* Whatever is written, the device holds words and bits, and what is read  *)
(* of it as a type is a value of the type.                                 *)
DriverTypeOK ==
    /\ mem \in Memory
    /\ phase \in {"start", "planned", "written", "read"}
    /\ plan.kind \in {"invalid", "plan"} /\ plan.vals \in Seq(Words)
    /\ outcome.kind \in {"invalid", "ok", "exception", "limit"}
    /\ (got.kind = "ok" /\ ~IsBits(spec.table)) =>
          \A i \in 1..Len(got.vals) : InRange(opt.type, got.vals[i])

(* What is written is read back: with the same options and a count that    *)
(* covers it, a read returns the very numbers of the write, whatever the   *)
(* type, the byte order and the word order (convert.go, driver.go).        *)
Cells(vals) == IF IsBits(spec.table) THEN Len(vals) ELSE RegisterCount(opt.type) * Len(vals)

ReadsBackWritten ==
    (phase = "read" /\ outcome.kind = "ok" /\ ReadCount(opt, spec) = Cells(literals)) =>
        got = Outcome("ok", literals)

(* "exactly the wire-level payload the write would have sent"              *)
(* (protocol/driver.go:90): of a write that goes through, the cells from   *)
(* the address on hold what the dry run showed, and no other cell has      *)
(* changed; one that does not go through changes nothing.                  *)
PlanIsWritten ==
    phase \in {"written", "read"} =>
        /\ outcome = Invalid <=> plan = Invalid
        /\ IF outcome.kind # "ok" THEN mem = InitMem
           ELSE LET a0 == Offset(spec.table, spec.numeral, opt.rawAddress)
                    tab == IF spec.table = "coil" THEN "coils" ELSE "holding"
                IN  /\ \A t \in DOMAIN mem \ {tab} : mem[t] = InitMem[t]
                    /\ \A a \in Addresses :
                          mem[tab][a] = IF a0 <= a /\ a < a0 + Len(plan.vals)
                                        THEN plan.vals[a - a0 + 1] ELSE InitMem[tab][a]

(* A read returns the cells it is asked for and no others: encoded again   *)
(* its values are the very registers of the device, as many as the count,  *)
(* at the limits of tables and quantities and in a last byte of coils that *)
(* is only partly used; the client refuses what is over the protocol's     *)
(* limits, the device what is over its table's end (driver.go, readBits,   *)
(* readRegisters; client.go; server.go, readBits, readRegs).               *)
ReadsTheCells ==
    phase = "read" /\ AddressOK(spec, opt.rawAddress) =>
        LET c == ReadCall(opt, spec)
            cells == IF IsBits(spec.table) THEN got.vals ELSE Registers(opt, got.vals)
        IN  CASE c.qty > Limit(c.fc) -> got.kind = "limit"
              [] c.qty <= Limit(c.fc) /\ c.addr + c.qty > TableSize ->
                    got = Outcome("exception", <<exIllegalAddress>>)
              [] OTHER -> /\ got.kind = "ok" => cells = Slice(mem[TableOf(c.fc)], c.addr, c.qty)
                          /\ got.kind # "ok" => /\ got = Invalid
                                                /\ c.qty % RegisterCount(opt.type) # 0

(* No number means a cell that is not its own by the notation, and none    *)
(* means two (docs/classic_addressing.md, "Reference number N in table T   *)
(* maps to wire offset N - base(T)"; address.go, ParseSpec).               *)
NumbersNameOffsets ==
    ~opt.rawAddress =>
        spec.numeral \in Named(spec.table, Offset(spec.table, spec.numeral, FALSE))
=============================================================================
