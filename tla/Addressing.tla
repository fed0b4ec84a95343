------------------------------ MODULE Addressing ------------------------------
(***************************************************************************)
(* internal/modbus/address.go: the four tables, and the offset of the cell *)
(* that a number after a table's name means.  Names and digits are left    *)
(* out: a table is its name, a numeral the number it spells.               *)
(***************************************************************************)
EXTENDS Integers

Tables      == {"coil", "discrete", "holding", "input"}
IsBits(t)   == t \in {"coil", "discrete"}
Writable(t) == t \in {"coil", "holding"}

ClassicBase(t) == CASE t = "coil" -> 1
                    [] t = "discrete" -> 10001
                    [] t = "input" -> 30001
                    [] t = "holding" -> 40001

classicBandWidth == 9999

(* Mutant: the number after the band still counts as in it. *)
InBandWide(t, num) == ClassicBase(t) <= num /\ num <= ClassicBase(t) + classicBandWidth

InBand(t, num) == ClassicBase(t) <= num /\ num <= ClassicBase(t) + classicBandWidth - 1

(* ParseSpec: the offset a numeral stands for. *)
Offset(t, num, raw) == IF ~raw /\ InBand(t, num) THEN num - ClassicBase(t) ELSE num

OffsetOK(t, num, raw) == Offset(t, num, raw) <= 65535

-----------------------------------------------------------------------------
(* Each offset has its classic number, if it has one, and itself unless    *)
(* that is a classic number of something else.                             *)
Named(t, off) == {x \in {off, off + ClassicBase(t)} :
                     IF x = off THEN off < ClassicBase(t) \/ off > ClassicBase(t) + 9998
                     ELSE off < 9999}
=============================================================================
