----------------------------- MODULE MCAssembly -----------------------------
(* Small instances of Assembly for TLC: versions of one to three blocks that *)
(* share blocks with each other and with the old file.                       *)
EXTENDS Assembly

MCOld == <<"a", "b">>
MCVersion == {<<"a">>, <<"a", "c">>, <<"d", "b", "a">>, <<"c", "c", "c">>}
MCBlock == {"a", "b", "c", "d"}
MCInode == 1 .. 4
=============================================================================
