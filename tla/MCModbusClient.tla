--------------------------- MODULE MCModbusClient ---------------------------
(* Small instances of ModbusClient for TLC. *)
EXTENDS ModbusClient

MCTableSize == 10

MCInitMem == [coils    |-> [a \in 0..9 |-> a % 2],
              discrete |-> [a \in 0..9 |-> 1],
              holding  |-> [a \in 0..9 |-> 1000 * a],
              input    |-> [a \in 0..9 |-> 257]]

Read(fc, addr, qty)   == [fc |-> fc, addr |-> addr, qty |-> qty, vals |-> <<>>]
Write(fc, addr, vals) == [fc |-> fc, addr |-> addr, qty |-> Len(vals), vals |-> vals]

(* Two readers and two writers of one register: what the interleavings need. *)
CoreCalls == {Read(FuncReadHoldingRegisters, 3, 1),
              Write(FuncWriteSingleRegister, 3, <<7>>),
              Write(FuncWriteMultipleRegisters, 3, <<515, 9>>)}
=============================================================================
