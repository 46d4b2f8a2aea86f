-------------------------- MODULE MCVersionVector --------------------------
(* Small instances of VersionVector for TLC; replicas are interchangeable.    *)
EXTENDS VersionVector, TLC

Symmetry == Permutations(Device)
=============================================================================
