----------------------------- MODULE AtomicFile -----------------------------
(***************************************************************************)
(* What session.pullFile promises about the file it writes: whoever opens  *)
(* it at any moment reads one whole version, and a new one appears only    *)
(* once somebody has been pulling exactly that version.                    *)
(***************************************************************************)
CONSTANTS
  Puller,   \* those who may replace the file
  Version,  \* the versions a peer may advertise
  Old       \* what the file held before

VARIABLES
  file,     \* what a reader sees
  pulling   \* pulling[p]: the version p is bringing, or Old

Init == file = Old /\ pulling = [p \in Puller |-> Old]

Begin(p) ==
  /\ \E v \in Version : pulling' = [pulling EXCEPT ![p] = v]
  /\ UNCHANGED file

Replace(p) ==
  /\ pulling[p] # Old
  /\ file' = pulling[p]
  /\ pulling' = [pulling EXCEPT ![p] = Old]

GiveUp == file' = file /\ \E P \in SUBSET Puller :
            pulling' = [p \in Puller |-> IF p \in P THEN Old ELSE pulling[p]]

Next == GiveUp \/ \E p \in Puller : Begin(p) \/ Replace(p)

Spec == Init /\ [][Next]_<<file, pulling>>
=============================================================================
