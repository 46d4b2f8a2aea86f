---------------------------- MODULE MCVersioning ----------------------------
(* Small instances of Versioning for TLC. *)
EXTENDS Versioning

CONSTANT Txt

MCExtPlace == [e \in {n.ext : n \in Name} |-> IF e = NoExt THEN 0 ELSE 1]

\* One file; two files that share a stem, one of them without an extension.
OneName == {[stem |-> "notes", ext |-> Txt]}
TwoNames == {[stem |-> "notes", ext |-> Txt], [stem |-> "notes", ext |-> NoExt]}
=============================================================================
