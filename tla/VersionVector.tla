--------------------------- MODULE VersionVector ---------------------------
(***************************************************************************)
(* The version vectors of package conflict, as the replicas of one file    *)
(* use them: a replica counts its own changes (Increment) and takes over   *)
(* what it learns from another (Clone, Merge).  Compare is to tell which   *)
(* of two replicas has seen the other's changes.                           *)
(***************************************************************************)
EXTENDS Integers, FiniteSets

CONSTANTS
  Device,
  MaxCount   \* bound: how many changes a device makes

ASSUME MaxCountAssumption == MaxCount \in Nat

VARIABLES
  vector,  \* vector[d]: d's Vector; a device without an entry is missing
           \*   from its domain
  made,    \* made[d]: how many changes d has made
  known    \* known[d]: the changes, <<device, number>>, that d has seen

vvars == <<vector, made, known>>

VInit ==
  /\ vector = [d \in Device |-> [k \in {} |-> 0]]
  /\ made = [d \in Device |-> 0]
  /\ known = [d \in Device |-> {}]

\* Go's v[k] of a map: zero when there is no entry.
At(v, k) == IF k \in DOMAIN v THEN v[k] ELSE 0

\* Mutant of Increment: a first change only makes the entry.
IncrementFromZero(v, k) ==
  [j \in DOMAIN v \cup {k} |->
     IF j # k THEN v[j] ELSE IF k \in DOMAIN v THEN v[k] + 1 ELSE 0]

Increment(v, k) ==
  [j \in DOMAIN v \cup {k} |-> IF j = k THEN At(v, k) + 1 ELSE v[j]]

\* Mutant of Merge: an entry the receiver does not have is left out.
MergeKnown(v, other) ==
  [k \in DOMAIN v |-> IF At(other, k) > v[k] THEN other[k] ELSE v[k]]

\* v after v.Merge(other): entries of other that are larger are taken over, so
\* an entry of zero is not.
Merge(v, other) ==
  [k \in DOMAIN v \cup {j \in DOMAIN other : other[j] > At(v, j)} |->
     IF At(other, k) > At(v, k) THEN other[k] ELSE v[k]]

Compare(v, other) ==
  LET greater == \E k \in DOMAIN v : v[k] > At(other, k)
      less    == \/ \E k \in DOMAIN v : v[k] < At(other, k)
                 \/ \E k \in DOMAIN other : k \notin DOMAIN v /\ other[k] > 0
  IN  CASE greater /\ less -> "concurrent"
        [] greater /\ ~less -> "greater"
        [] ~greater /\ less -> "less"
        [] OTHER -> "equal"

\* d changes the file.
Change(d) ==
  /\ made[d] < MaxCount
  /\ made' = [made EXCEPT ![d] = @ + 1]
  /\ vector' = [vector EXCEPT ![d] = Increment(@, d)]
  /\ known' = [known EXCEPT ![d] = @ \cup {<<d, made[d] + 1>>}]

\* d learns what e has seen, and takes it over.
Learn(d, e) ==
  /\ vector' = [vector EXCEPT ![d] = Merge(@, vector[e])]
  /\ known' = [known EXCEPT ![d] = @ \cup known[e]]
  /\ UNCHANGED made

VNext == \E d \in Device : Change(d) \/ \E e \in Device \ {d} : Learn(d, e)

VSpec == VInit /\ [][VNext]_vvars

-----------------------------------------------------------------------------

\* Vectors count changes that have been made, and have no zero entries.
VTypeOK ==
  /\ made \in [Device -> 0 .. MaxCount]
  /\ DOMAIN vector = Device
  /\ known \in [Device -> SUBSET (Device \X (1 .. MaxCount))]
  /\ \A d \in Device :
       /\ DOMAIN vector[d] \subseteq Device
       /\ vector[d] = [k \in DOMAIN vector[d] |-> vector[d][k]]
       /\ \A k \in DOMAIN vector[d] : vector[d][k] \in 1 .. made[k]

\* Compare is right: "less" exactly when the other has seen all of our changes
\* and more, "concurrent" exactly when each has seen a change the other has
\* not, whatever was exchanged in whatever order and entries are missing.
CompareIsCausal ==
  \A d, e \in Device :
    Compare(vector[d], vector[e]) =
      CASE known[d] = known[e] -> "equal"
        [] known[d] # known[e] /\ known[e] \subseteq known[d] -> "greater"
        [] known[d] # known[e] /\ known[d] \subseteq known[e] -> "less"
        [] OTHER -> "concurrent"
=============================================================================
