----------------------------- MODULE MCMockServer -----------------------------
(* Small instances of MockServer for TLC: a block of two registers. *)
EXTENDS MockServer

MCFresh  == <<0, 0>>
MCSeed   == <<1, 2>>
MCBlocks == {<<3, 4>>}
=============================================================================
