------------------------------ MODULE MCPyWatch ------------------------------
(* Small instances of PyWatch for TLC: with and without a count. *)
EXTENDS PyWatch

MCLimits == {0, 1, 3}
=============================================================================
