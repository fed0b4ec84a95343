--------------------------- MODULE MCModbusDriver ---------------------------
(* Small instances of ModbusDriver for TLC. *)
EXTENDS ModbusDriver

MCTableSize == 10
MCInitMem == [coils    |-> [a \in 0..9 |-> (a \div 2) % 2],
              discrete |-> [a \in 0..9 |-> IF a = 8 THEN 0 ELSE 1],
              holding  |-> [a \in 0..9 |-> 255 - 3 * a],
              input    |-> [a \in 0..9 |-> 17 * a]]

(* Around every edge of every band. *)
MCNumerals == {0, 1, 2, 9999, 10000, 10001, 10002, 20000, 30001, 40000, 40001, 40002,
               49999, 50000, 65535, 65536}

(* One, a byte of coils and its neighbours, and around both limits. *)
MCCounts == {0, 1, 2, 4, 8, 9, 10, 125, 126, 2000, 2001}

(* Around every edge of every type (of 8 and 16 bits), and lists. *)
MCLiterals == {<<v>> : v \in {-32769, -32768, -129, -128, -2, -1, 0, 1, 18, 127, 128,
                              255, 256, 4660, 32767, 32768, 65535, 65536}}
              \union {<<1, 0>>, <<0, 1, 1, 1>>, <<52, 2>>, <<1, -1>>, <<35, 255, 1, 9>>,
                      <<0, 1, 0, 1, 1, 0, 0, 0, 1>>, [i \in 1..123 |-> 1], [i \in 1..124 |-> 1]}
=============================================================================
