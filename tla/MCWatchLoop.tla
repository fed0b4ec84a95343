----------------------------- MODULE MCWatchLoop -----------------------------
(* Small instances of WatchLoop for TLC: one address polled. *)
EXTENDS WatchLoop

MCTableSize == 4
MCInitMem == [coils    |-> [a \in 0..3 |-> 0],
              discrete |-> [a \in 0..3 |-> 0],
              holding  |-> [a \in 0..3 |-> 300 * a],
              input    |-> [a \in 0..3 |-> 0]]

Poll(addr, qty) == [fc |-> FuncReadHoldingRegisters, addr |-> addr, qty |-> qty, vals |-> <<>>]

(* A value of two registers, and one and a half of them. *)
PollCalls   == {Poll(2, 2), Poll(1, 3)}
OneRegister == {Poll(3, 1)}

(* The product is 5, then 10 wraps to -6, then 20 wraps to 4. *)
MCDurations == 16
MCBackoffs  == {6, 7}
AnyBackoff  == {3}
=============================================================================
