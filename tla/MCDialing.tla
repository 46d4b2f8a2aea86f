----------------------------- MODULE MCDialing -----------------------------
(* Small instances of Dialing for TLC: a first address that may not answer,   *)
(* and a second.                                                             *)
EXTENDS Dialing

CONSTANTS a, b

MCList == {<<>>, <<a, b>>}
=============================================================================
