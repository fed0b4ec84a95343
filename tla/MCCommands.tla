----------------------------- MODULE MCCommands -----------------------------
(* Small instances of Commands for TLC. *)
EXTENDS Commands

MCTableSize == 4
MCInitMem == [coils    |-> [a \in 0..3 |-> a % 2],
              discrete |-> [a \in 0..3 |-> 1],
              holding  |-> [a \in 0..3 |-> 300 * a],
              input    |-> [a \in 0..3 |-> 257]]

Write(vals) == [fc |-> FuncWriteMultipleRegisters, addr |-> 2,
                qty |-> Len(vals), vals |-> vals]
Read(fc, qty) == [fc |-> fc, addr |-> 2, qty |-> qty, vals |-> <<>>]

(* Values of two registers: writes that succeed, that the device refuses   *)
(* and that the client does; reads of one value, of half a one, and of     *)
(* what does not exist.                                                    *)
PairCalls == {Write(<<513, 9>>), Write(<<7, 8>>), Write(<<1, 2, 3, 4>>),
              Write([i \in 1..124 |-> i])}
             \union {Read(FuncReadHoldingRegisters, q) : q \in {1, 2, 4}}
             \union {Read(FuncReadCoils, 1)}
=============================================================================
