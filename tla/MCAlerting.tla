----------------------------- MODULE MCAlerting -----------------------------
(* Small instances of Alerting for TLC: a high and a low alarm on one      *)
(* address, with a value in either band, one in neither, and one (an       *)
(* array) that the predicates cannot compare.                              *)
EXTENDS Alerting

MCValues    == {"high", "low", "normal", "array"}
MCBreaching == <<{"high"}, {"low", "high"}>>
MCUnfit     == [r \in 1..2 |-> {"array"}]
MCDebounce  == <<2, 1>>
MCHasClear  == <<TRUE, FALSE>>
=============================================================================
