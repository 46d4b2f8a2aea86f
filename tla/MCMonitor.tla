----------------------------- MODULE MCMonitor -----------------------------
(* Small instances of Monitor for TLC: paths 1 .. 3, the last in the          *)
(* subdirectory.                                                             *)
EXTENDS Monitor

MCPath == 1 .. 3
MCDeep == {3}
MCContent == {"blank", "a", "b"}
MCContent1 == {"blank", "a"}
MCPath1 == 1 .. 2
MCDeep1 == {2}
MCBlank == "blank"
=============================================================================
