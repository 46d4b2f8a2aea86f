---------------------------- MODULE MCFolderSync ----------------------------
(* Small instances of FolderSync for TLC. *)
EXTENDS FolderSync, Sequences, TLC

\* Paths: a name the users choose, then one <<device, second>> pair for every
\* time it was copied.  A copy of a copy's copy does not occur in these
\* instances; such a name would be <<u, "deep">>.
CONSTANTS A, B, C

MCUserName1 == {<<"x">>}
MCUserName2 == {<<"x">>, <<"y">>}

Tags  == {<<d, t>> : d \in Device, t \in Second}
Names == LET copies == {u \o g : u \in UserName, g \in Tags}
         IN  UserName \cup copies \cup {u \o <<"deep">> : u \in UserName}

MCRoot == [n \in Names |-> <<n[1]>>]
MCCopyName ==
  [i \in Names \X Device \X Second |->
     IF Len(i[1]) = 1 THEN i[1] \o <<i[2], i[3]>>
                      ELSE <<i[1][1], "deep">>]

\* "y" has no extension and the stem of "x": its list has both files' copies.
MCLists == [n \in Names |-> IF n = <<"y">> THEN {<<"x">>, <<"y">>} ELSE {n}]

\* Two devices that pull from each other; one that only pulls; a relay.
Mutual == (A :> {B} @@ B :> {A})
OneWay == (A :> {} @@ B :> {A})
Relay  == (A :> {} @@ B :> {A} @@ C :> {B})
=============================================================================
