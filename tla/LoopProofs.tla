------------------------------ MODULE LoopProofs ------------------------------
(***************************************************************************)
(* Proofs about the two loops that follow something outside the engine:    *)
(* natLoop and the router's mapping (PortMapping), for every choice of the *)
(* intervals that leaves the lease room for a refresh; and the monitor and *)
(* the folder (Monitor), for any paths, contents and users.                *)
(***************************************************************************)
EXTENDS PortMapping, Monitor, TLAPS

-----------------------------------------------------------------------------
(* The router's mapping *)

\* How long ago, at most, the loop last saw an attempt that was recent enough.
Spent ==
  IF pc = "wait" THEN CheckEvery - timer
  ELSE IF pc = "check" THEN CheckEvery
  ELSE CheckEvery + timer

\* The age at which an attempt is still recent enough.
Recent == RefreshEvery - 1

Clocks ==
  /\ granted => pc = "map"
  /\ internet => off = 0
  /\ ~internet => on = 0
  /\ ~lost => dead = 0

\* The lease was granted at most MapTime before the age began to run.
Leased ==
  ~lost =>
    /\ granted => lease + timer >= LeaseTime
    /\ external /\ ~granted => lease + MapTime + Recent + Spent >= LeaseTime
    /\ external /\ pc # "map" /\ age <= Recent =>
         lease + MapTime + age >= LeaseTime

Noticed ==
  lost =>
    /\ granted => dead <= timer
    /\ external /\ ~granted => dead <= MapTime + Recent + Spent
    /\ external /\ pc # "map" /\ age <= Recent => dead <= MapTime + age

Quieted ==
  /\ pc = "map" => off <= timer
  /\ external /\ pc # "map" => off <= MapTime + Spent

Reached ==
  ~external =>
    /\ ~failed => on <= Spent /\ (pc # "map" => age = RefreshEvery)
    /\ failed => on <= Recent + Spent
    /\ failed /\ pc # "map" /\ age <= Recent => on <= age

IInv == TypeOK /\ Clocks /\ Leased /\ Noticed /\ Quieted /\ Reached

-----------------------------------------------------------------------------

LEMMA InitIInv == Init => IInv
<1> SUFFICES ASSUME Init PROVE IInv
  OBVIOUS
<1> USE TimeAssumption DEF Init, Spent, Recent, Long
<1>1. TypeOK
  <2>1. internet \in BOOLEAN /\ external \in BOOLEAN /\ granted \in BOOLEAN
          /\ lost \in BOOLEAN /\ failed \in BOOLEAN
    BY Zenon
  <2> QED
    BY <2>1 DEF TypeOK
<1>2. Clocks
  BY DEF Clocks
<1>3. Leased /\ Noticed
  BY DEF Leased, Noticed
<1>4. Quieted /\ Reached
  BY DEF Quieted, Reached
<1> QED
  BY <1>1, <1>2, <1>3, <1>4 DEF IInv

LEMMA NextIInv == IInv /\ [Next]_vars => IInv'
<1> SUFFICES ASSUME IInv, [Next]_vars PROVE IInv'
  OBVIOUS
<1> USE TimeAssumption DEF IInv, TypeOK, Clocks, Spent, Recent, Long
<1>1. CASE Toggle
  BY <1>1 DEF Toggle, loop, Leased, Noticed, Quieted, Reached
<1>2. CASE Grant
  <2>1. TypeOK'
    <3>1. internet' \in BOOLEAN /\ external' \in BOOLEAN /\ granted' \in BOOLEAN
             /\ lost' \in BOOLEAN /\ failed' \in BOOLEAN
      BY <1>2, Zenon DEF Grant
    <3> QED
      BY <1>2, <3>1 DEF Grant
  <2>2. Clocks'
    BY <1>2 DEF Grant
  <2>3. Leased'
    BY <1>2 DEF Grant, Leased
  <2>4. Noticed'
    BY <1>2 DEF Grant, Noticed
  <2>5. Quieted'
    BY <1>2 DEF Grant, Quieted
  <2>6. Reached'
    BY <1>2 DEF Grant, Reached
  <2> QED
    BY <2>1, <2>2, <2>3, <2>4, <2>5, <2>6
<1>3. CASE Lose
  BY <1>3 DEF Lose, loop, Leased, Noticed, Quieted, Reached
<1>4. CASE CheckOff
  <2>1. TypeOK'
    <3>1. internet' \in BOOLEAN /\ external' \in BOOLEAN /\ granted' \in BOOLEAN
             /\ lost' \in BOOLEAN /\ failed' \in BOOLEAN
      BY <1>4, Zenon DEF CheckOff, Quiet, Wait
    <3> QED
      BY <1>4, <3>1 DEF CheckOff, Quiet, Wait
  <2>2. Clocks'
    BY <1>4 DEF CheckOff, Quiet, Wait
  <2>3. Leased'
    BY <1>4 DEF CheckOff, Quiet, Wait, Leased
  <2>4. Noticed'
    BY <1>4 DEF CheckOff, Quiet, Wait, Noticed
  <2>5. Quieted'
    BY <1>4 DEF CheckOff, Quiet, Wait, Quieted
  <2>6. Reached'
    BY <1>4 DEF CheckOff, Quiet, Wait, Reached
  <2> QED
    BY <2>1, <2>2, <2>3, <2>4, <2>5, <2>6
<1>5. CASE CheckFails
  <2>1. TypeOK'
    <3>1. internet' \in BOOLEAN /\ external' \in BOOLEAN /\ granted' \in BOOLEAN
             /\ lost' \in BOOLEAN /\ failed' \in BOOLEAN
      BY <1>5, Zenon DEF CheckFails, Quiet, Wait
    <3> QED
      BY <1>5, <3>1 DEF CheckFails, Quiet, Wait
  <2>2. Clocks'
    BY <1>5 DEF CheckFails, Quiet, Wait
  <2>3. Leased'
    BY <1>5 DEF CheckFails, Quiet, Wait, Leased
  <2>4. Noticed'
    BY <1>5 DEF CheckFails, Quiet, Wait, Noticed
  <2>5. Quieted'
    BY <1>5 DEF CheckFails, Quiet, Wait, Quieted
  <2>6. Reached'
    BY <1>5 DEF CheckFails, Quiet, Wait, Reached
  <2> QED
    BY <2>1, <2>2, <2>3, <2>4, <2>5, <2>6
<1>6. CASE CheckOn
  <2>1. TypeOK'
    BY <1>6 DEF CheckOn, Wait, ghosts
  <2>2. Clocks'
    BY <1>6 DEF CheckOn, Wait, ghosts
  <2>3. Leased'
    BY <1>6 DEF CheckOn, Wait, ghosts, Leased
  <2>4. Noticed'
    BY <1>6 DEF CheckOn, Wait, ghosts, Noticed
  <2>5. Quieted'
    BY <1>6 DEF CheckOn, Wait, ghosts, Quieted
  <2>6. Reached'
    BY <1>6 DEF CheckOn, Wait, ghosts, Reached
  <2> QED
    BY <2>1, <2>2, <2>3, <2>4, <2>5, <2>6
<1>7. CASE Mapped
  <2>1. TypeOK'
    <3>1. internet' \in BOOLEAN /\ external' \in BOOLEAN /\ granted' \in BOOLEAN
             /\ lost' \in BOOLEAN /\ failed' \in BOOLEAN
      BY <1>7, Zenon DEF Mapped, Wait
    <3> QED
      BY <1>7, <3>1 DEF Mapped, Wait
  <2>2. Clocks'
    BY <1>7 DEF Mapped, Wait
  <2>3. Leased'
    BY <1>7 DEF Mapped, Wait, Leased
  <2>4. Noticed'
    BY <1>7 DEF Mapped, Wait, Noticed
  <2>5. Quieted'
    BY <1>7 DEF Mapped, Wait, Quieted
  <2>6. Reached'
    BY <1>7 DEF Mapped, Wait, Reached
  <2> QED
    BY <2>1, <2>2, <2>3, <2>4, <2>5, <2>6
<1>8. CASE Refused
  <2>1. TypeOK'
    <3>1. internet' \in BOOLEAN /\ external' \in BOOLEAN /\ granted' \in BOOLEAN
             /\ lost' \in BOOLEAN /\ failed' \in BOOLEAN
      BY <1>8, Zenon DEF Refused, Wait
    <3> QED
      BY <1>8, <3>1 DEF Refused, Wait
  <2>2. Clocks'
    BY <1>8 DEF Refused, Wait
  <2>3. Leased'
    BY <1>8 DEF Refused, Wait, Leased
  <2>4. Noticed'
    BY <1>8 DEF Refused, Wait, Noticed
  <2>5. Quieted'
    BY <1>8 DEF Refused, Wait, Quieted
  <2>6. Reached'
    BY <1>8 DEF Refused, Wait, Reached
  <2> QED
    BY <2>1, <2>2, <2>3, <2>4, <2>5, <2>6
<1>9. CASE Wake
  BY <1>9 DEF Wake, ghosts, Leased, Noticed, Quieted, Reached
<1>10. CASE Pass
  <2>1. TypeOK'
    BY <1>10 DEF Pass, Later
  <2>2. Clocks'
    BY <1>10 DEF Pass, Later
  <2>3. Leased'
    BY <1>10 DEF Pass, Later, Leased
  <2>4. Noticed'
    BY <1>10 DEF Pass, Later, Noticed
  <2>5. Quieted'
    BY <1>10 DEF Pass, Later, Quieted
  <2>6. Reached'
    BY <1>10 DEF Pass, Later, Reached
  <2> QED
    BY <2>1, <2>2, <2>3, <2>4, <2>5, <2>6
<1>11. CASE UNCHANGED vars
  BY <1>11 DEF vars, loop, ghosts, Leased, Noticed, Quieted, Reached
<1> QED
  BY <1>1, <1>2, <1>3, <1>4, <1>5, <1>6, <1>7, <1>8, <1>9, <1>10, <1>11 DEF Next

LEMMA AlwaysIInv == Spec => []IInv
  BY InitIInv, NextIInv, PTL DEF Spec

\* The state keeps its type.
THEOREM TypeCorrect == Spec => []TypeOK
  BY AlwaysIInv, PTL DEF IInv

\* natLoop refreshes a mapping before its lease ends: what Daemon.endpoints
\* advertises is forwarded, unless the router dropped it early.
THEOREM AdvertisedIsMappedHolds == Spec => []AdvertisedIsMapped
<1>1. IInv => AdvertisedIsMapped
  BY TimeAssumption
  DEF IInv, TypeOK, Leased, AdvertisedIsMapped, Spent, Recent
<1> QED
  BY <1>1, AlwaysIInv, PTL

\* natLoop withdraws the endpoint within a check and an attempt that was under
\* way when the user switched internet discovery off.
THEOREM OffIsObeyedHolds == Spec => []OffIsObeyed
<1>1. IInv => OffIsObeyed
  BY TimeAssumption DEF IInv, TypeOK, Quieted, OffIsObeyed, Spent
<1> QED
  BY <1>1, AlwaysIInv, PTL

\* natLoop has an endpoint soon after the user switched it on, and after a
\* failed attempt once the refresh interval is over.
THEOREM OnIsObeyedHolds == Spec => []OnIsObeyed
<1>1. IInv => OnIsObeyed
  BY TimeAssumption DEF IInv, TypeOK, Reached, OnIsObeyed, Spent, Recent
<1> QED
  BY <1>1, AlwaysIInv, PTL

\* An endpoint the router has forgotten is replaced or withdrawn by the next
\* refresh.
THEOREM LossIsNoticedHolds == Spec => []LossIsNoticed
<1>1. IInv => LossIsNoticed
  BY TimeAssumption
  DEF IInv, TypeOK, Clocks, Noticed, LossIsNoticed, Spent, Recent
<1> QED
  BY <1>1, AlwaysIInv, PTL

-----------------------------------------------------------------------------
(* The monitor *)

MInv == MTypeOK /\ ConsumerFollows

USE PathAssumption, BoundAssumption

-----------------------------------------------------------------------------
(* scanner.Diff *)

Added(old, new) == Files(new) \ Files(old)
Deleted(old, new) == Files(old) \ Files(new)

\* The changes from old to new, of which some are these renames.
Changes(old, new, renames) ==
  {[kind |-> "modified", path |-> q, file |-> new[q]] :
     q \in {r \in Files(old) \cap Files(new) : old[r] # new[r]}}
  \cup {[kind |-> "renamed", path |-> pq[2], old |-> pq[1],
         file |-> new[pq[2]]] : pq \in renames}
  \cup {[kind |-> "added", path |-> q, file |-> new[q]] :
          q \in Added(old, new) \ {pq[2] : pq \in renames}}
  \cup {[kind |-> "deleted", path |-> q, file |-> old[q]] :
          q \in Deleted(old, new) \ {pq[1] : pq \in renames}}

\* Which deleted path a rename pairs with which added one does not matter to
\* what follows.
LEMMA DiffIsChanges ==
  ASSUME NEW old, NEW new
  PROVE  \E renames \in SUBSET (Deleted(old, new) \X Added(old, new)) :
           Diff(old, new) = Changes(old, new, renames)
<1> DEFINE place(q, ps, idx) ==
             Cardinality({r \in ps : r < q /\ idx[r] = idx[q]})
           renames ==
             {pq \in Deleted(old, new) \X Added(old, new) :
                /\ old[pq[1]] = new[pq[2]] /\ old[pq[1]] # Blank
                /\ place(pq[1], Deleted(old, new), old)
                     = place(pq[2], Added(old, new), new)}
<1>1. renames \in SUBSET (Deleted(old, new) \X Added(old, new))
  OBVIOUS
<1>2. Diff(old, new) = Changes(old, new, renames)
  BY DEF Diff, Changes, Added, Deleted
<1> QED
  BY <1>1, <1>2

\* A change other than a deletion says what the new index has at its path, and
\* the paths that changes take away are not in the new index.
LEMMA ChangesAreNew ==
  ASSUME NEW old, NEW new, NEW c \in Diff(old, new)
  PROVE  /\ c.kind # "deleted" => c.path \in Files(new) /\ c.file = new[c.path]
         /\ c.kind = "deleted" => c.path \notin Files(new)
         /\ c.kind = "renamed" => c.old \notin Files(new)
<1>1. PICK renames \in SUBSET (Deleted(old, new) \X Added(old, new)) :
        Diff(old, new) = Changes(old, new, renames)
  BY DiffIsChanges
<1>2. CASE \E q \in Files(new) :
             c = [kind |-> "modified", path |-> q, file |-> new[q]]
  BY <1>2
<1>3. CASE \E pq \in renames :
             c = [kind |-> "renamed", path |-> pq[2], old |-> pq[1],
                  file |-> new[pq[2]]]
  <2>1. PICK pq \in renames :
          c = [kind |-> "renamed", path |-> pq[2], old |-> pq[1],
               file |-> new[pq[2]]]
    BY <1>3
  <2>2. pq[1] \in Deleted(old, new) /\ pq[2] \in Added(old, new)
    BY <1>1
  <2> QED
    BY <2>1, <2>2 DEF Added, Deleted
<1>4. CASE \E q \in Added(old, new) :
             c = [kind |-> "added", path |-> q, file |-> new[q]]
  BY <1>4 DEF Added
<1>5. CASE \E q \in Deleted(old, new) :
             c = [kind |-> "deleted", path |-> q, file |-> old[q]]
  BY <1>5 DEF Deleted
<1> QED
  BY <1>1, <1>2, <1>3, <1>4, <1>5 DEF Changes

\* Every path that has changed is in a change: as its path, or as the old path
\* of a rename.
LEMMA ChangesAreComplete ==
  ASSUME NEW old \in [Path -> File], NEW new \in [Path -> File],
         NEW p \in Path, old[p] # new[p]
  PROVE  /\ p \in Files(new) =>
              \E c \in Diff(old, new) : c.path = p /\ c.kind # "deleted"
         /\ p \notin Files(new) =>
              \E c \in Diff(old, new) : \/ c.kind = "deleted" /\ c.path = p
                                        \/ c.kind = "renamed" /\ c.old = p
<1> DEFINE added == Added(old, new)
           deleted == Deleted(old, new)
<1> USE DEF Added, Deleted
<1>1. PICK renames \in SUBSET (deleted \X added) :
        Diff(old, new) = Changes(old, new, renames)
  BY DiffIsChanges
<1> USE DEF Changes
<1>2. CASE p \in Files(new) /\ p \in Files(old)
  <2>1. [kind |-> "modified", path |-> p, file |-> new[p]] \in Diff(old, new)
    BY <1>1, <1>2
  <2> QED
    BY <1>2, <2>1
<1>3. CASE p \in added
  <2>1. CASE \E pq \in renames : pq[2] = p
    <3>1. PICK pq \in renames : pq[2] = p
      BY <2>1
    <3>2. [kind |-> "renamed", path |-> pq[2], old |-> pq[1],
           file |-> new[pq[2]]] \in Diff(old, new)
      BY <1>1
    <3> QED
      BY <1>3, <3>1, <3>2
  <2>2. CASE ~ \E pq \in renames : pq[2] = p
    <3>1. [kind |-> "added", path |-> p, file |-> new[p]] \in Diff(old, new)
      BY <1>1, <1>3, <2>2
    <3> QED
      BY <1>3, <3>1
  <2> QED
    BY <2>1, <2>2
<1>4. CASE p \in deleted
  <2>1. CASE \E pq \in renames : pq[1] = p
    <3>1. PICK pq \in renames : pq[1] = p
      BY <2>1
    <3>2. [kind |-> "renamed", path |-> pq[2], old |-> pq[1],
           file |-> new[pq[2]]] \in Diff(old, new)
      BY <1>1
    <3> QED
      BY <1>4, <3>1, <3>2
  <2>2. CASE ~ \E pq \in renames : pq[1] = p
    <3>1. [kind |-> "deleted", path |-> p, file |-> old[p]] \in Diff(old, new)
      BY <1>1, <1>4, <2>2
    <3> QED
      BY <1>4, <3>1
  <2> QED
    BY <2>1, <2>2
<1>5. CASE p \notin Files(new) /\ p \notin Files(old)
  BY <1>5 DEF Files
<1> QED
  BY <1>2, <1>3, <1>4, <1>5

\* scanner.Diff leaves nothing out and makes nothing up: whoever applies its
\* changes to the old index has the new one, whichever of several deleted files
\* of one content it takes for the origin of an added one.
THEOREM DiffApplies ==
  ASSUME NEW old \in [Path -> File], NEW new \in [Path -> File]
  PROVE  Applied(old, Diff(old, new)) = new
<1> DEFINE cs == Diff(old, new)
           news(p) == \E c \in cs : c.path = p /\ c.kind # "deleted"
           gone(p) == \E c \in cs : \/ c.kind = "deleted" /\ c.path = p
                                    \/ c.kind = "renamed" /\ c.old = p
           one(p) == CHOOSE c \in cs : c.path = p /\ c.kind # "deleted"
<1>1. Applied(old, cs) =
        [p \in Path |-> IF news(p) THEN one(p).file
                        ELSE IF gone(p) THEN Absent ELSE old[p]]
  BY DEF Applied
<1>2. ASSUME NEW p \in Path
      PROVE  (IF news(p) THEN one(p).file
              ELSE IF gone(p) THEN Absent ELSE old[p]) = new[p]
  <2>1. CASE news(p)
    <3>1. one(p) \in cs /\ one(p).path = p /\ one(p).kind # "deleted"
      BY <2>1
    <3>2. one(p).file = new[p]
      BY <3>1, ChangesAreNew
    <3> QED
      BY <2>1, <3>2
  <2>2. CASE ~news(p) /\ old[p] # new[p]
    <3>1. p \notin Files(new) /\ gone(p)
      BY <2>2, ChangesAreComplete
    <3>2. new[p] = Absent
      BY <3>1 DEF Files
    <3> QED
      BY <2>2, <3>1, <3>2
  <2>3. CASE ~news(p) /\ old[p] = new[p]
    <3>1. gone(p) => p \notin Files(new)
      BY ChangesAreNew
    <3>2. p \notin Files(new) => new[p] = Absent
      BY DEF Files
    <3> QED
      BY <2>3, <3>1, <3>2
  <2> QED
    BY <2>1, <2>2, <2>3
<1> HIDE DEF cs, news, gone, one
<1>3. Applied(old, cs) = [p \in Path |-> new[p]]
  BY <1>1, <1>2
<1> QED
  BY <1>3 DEF cs

-----------------------------------------------------------------------------
(* Steps *)

LEMMA NoneIsIndex == None \in [Path -> File]
  BY DEF None, File

LEMMA MInitInv == ASSUME MInit PROVE MInv
<1>1. missed \in BOOLEAN /\ closed \in BOOLEAN /\ ~blind /\ blind \in BOOLEAN
  BY Zenon DEF MInit
<1>2. ops \in 0 .. MaxOps /\ faults \in 0 .. MaxFaults
  BY DEF MInit
<1>3. MTypeOK
  BY <1>1, <1>2, NoneIsIndex DEF MInit, MTypeOK
<1> QED
  BY <1>3 DEF MInit, MInv, ConsumerFollows

\* A user changes the folder and nothing of the two goroutines.
LEMMA ChangedKeeps ==
  ASSUME MInv, NEW files \in [Path -> File], NEW hasSub \in BOOLEAN,
         NEW names \in SUBSET (Path \cup {Sub}),
         Changed(files, hasSub, names)
  PROVE  MInv'
<1>1. /\ disk' = files /\ sub' = hasSub /\ ops < MaxOps /\ ops' = ops + 1
      /\ watched' = IF hasSub THEN watched ELSE watched \ {Sub}
      /\ UNCHANGED <<watcher, monitor, seen, closed, faults>>
  BY DEF Changed
<1>2. queue' \subseteq Path \cup {Sub}
  BY DEF Changed, MInv, MTypeOK
<1>3. missed' \in BOOLEAN
  <2>1. missed' = (missed \/ mpc = "new")
    BY DEF Changed
  <2> QED
    BY <2>1, Zenon
<1>4. ops' \in 0 .. MaxOps
  BY <1>1 DEF MInv, MTypeOK
<1>5. watched' \subseteq {Root, Sub} /\ (Sub \in watched' => sub')
  BY <1>1 DEF MInv, MTypeOK
<1>6. blind' \in BOOLEAN /\ (blind' => sub' /\ Sub \notin watched')
  <2>1. blind' = (blind /\ hasSub)
    BY DEF Changed
  <2>2. blind => Sub \notin watched
    BY DEF MInv, MTypeOK
  <2>3. blind' => Sub \notin watched'
    BY ONLY <1>1, <2>1, <2>2
  <2>4. blind' \in BOOLEAN
    BY <2>1, Zenon
  <2> QED
    BY <1>1, <2>1, <2>3, <2>4
<1>7. MTypeOK'
  BY <1>1, <1>2, <1>3, <1>4, <1>5, <1>6 DEF MInv, MTypeOK, watcher, monitor
<1> QED
  BY <1>1, <1>7 DEF MInv, ConsumerFollows, monitor

LEMMA UserKeeps == ASSUME MInv, User PROVE MInv'
<1>1. disk \in [Path -> File] /\ sub \in BOOLEAN
  BY DEF MInv, MTypeOK
<1>2. ASSUME NEW p \in Path, Put(p) PROVE MInv'
  <2>1. PICK c \in Content : Changed([disk EXCEPT ![p] = c], sub, {p})
    BY <1>2 DEF Put
  <2>2. [disk EXCEPT ![p] = c] \in [Path -> File]
    BY <1>1 DEF File
  <2> QED
    BY <1>1, <2>1, <2>2, ChangedKeeps
<1>3. ASSUME NEW p \in Path, Remove(p) PROVE MInv'
  <2>1. [disk EXCEPT ![p] = Absent] \in [Path -> File]
    BY <1>1 DEF File
  <2> QED
    BY <1>1, <1>3, <2>1, ChangedKeeps DEF Remove
<1>4. ASSUME NEW p \in Path, NEW q \in Path, Move(p, q) PROVE MInv'
  <2>1. [disk EXCEPT ![q] = disk[p], ![p] = Absent] \in [Path -> File]
    BY <1>1 DEF File
  <2>2. Changed([disk EXCEPT ![q] = disk[p], ![p] = Absent], sub, {p, q})
    BY <1>4 DEF Move
  <2>3. {p, q} \in SUBSET (Path \cup {Sub})
    OBVIOUS
  <2> QED
    BY <1>1, <2>1, <2>2, <2>3, ChangedKeeps
<1>5. CASE Mkdir
  <2>1. PICK held \in [Deep -> File] :
          Changed([p \in Path |-> IF p \in Deep THEN held[p] ELSE disk[p]],
                  TRUE, {Sub})
    BY <1>5 DEF Mkdir
  <2>2. [p \in Path |-> IF p \in Deep THEN held[p] ELSE disk[p]]
          \in [Path -> File]
    BY <1>1
  <2> QED
    BY <2>1, <2>2, ChangedKeeps
<1>6. CASE Rmdir
  <2>1. [p \in Path |-> IF p \in Deep THEN Absent ELSE disk[p]]
          \in [Path -> File]
    BY <1>1 DEF File
  <2> QED
    BY <1>6, <2>1, ChangedKeeps DEF Rmdir
<1> QED
  BY <1>2, <1>3, <1>4, <1>5, <1>6 DEF User

LEMMA WatchKeeps == ASSUME MInv, Watch PROVE MInv'
<1>1. CASE StartWatch
  <2>1. watched' \subseteq {Root, Sub} /\ (Sub \in watched' => sub)
    BY <1>1 DEF StartWatch, Root, Sub
  <2>2. MTypeOK'
    BY <1>1, <2>1 DEF StartWatch, MInv, MTypeOK
  <2> QED
    BY <1>1, <2>2 DEF StartWatch, MInv, ConsumerFollows
<1>2. CASE TakeEvent
  <2>1. blind' \in BOOLEAN /\ (blind' => blind /\ Sub \notin watched')
    <3>1. blind' = (blind /\ Sub \notin watched')
      BY <1>2 DEF TakeEvent
    <3> QED
      BY <3>1, Zenon
  <2> QED
    BY <1>2, <2>1 DEF TakeEvent, MInv, MTypeOK, ConsumerFollows, monitor
<1>3. CASE Fire
  BY <1>3 DEF Fire, MInv, MTypeOK, ConsumerFollows, folder, monitor, bounds
<1>4. CASE WatcherStops
  BY <1>4 DEF WatcherStops, MInv, MTypeOK, ConsumerFollows, folder, monitor,
     bounds
<1> QED
  BY <1>1, <1>2, <1>3, <1>4 DEF Watch

\* The scan's index replaces the baseline, and its changes go to the consumer,
\* who had the old baseline.
LEMMA FinishKeeps == ASSUME MInv, FinishScan PROVE MInv'
<1> DEFINE cs == Diff(baseline, index)
<1>1. /\ mpc = "scan" /\ baseline' = index /\ sent' = cs
      /\ mpc' = IF cs = {} THEN "select" ELSE "send"
      /\ list' = {} /\ index' = None
      /\ UNCHANGED <<folder, watcher, seen, closed, bounds>>
  BY DEF FinishScan
<1>2. seen = baseline /\ baseline \in [Path -> File] /\ index \in [Path -> File]
  BY <1>1 DEF MInv, MTypeOK, ConsumerFollows
<1>3. Applied(baseline, cs) = index
  BY <1>2, DiffApplies
<1>4. Applied(baseline, {}) = baseline
  BY <1>2 DEF Applied
<1> HIDE DEF cs
<1>5. MTypeOK'
  BY <1>1, <1>2, NoneIsIndex DEF MInv, MTypeOK, folder, watcher, bounds
<1>6. CASE cs = {}
  BY <1>1, <1>2, <1>3, <1>4, <1>5, <1>6 DEF MInv, ConsumerFollows
<1>7. CASE cs # {}
  BY <1>1, <1>2, <1>3, <1>5, <1>7 DEF MInv, ConsumerFollows
<1> QED
  BY <1>6, <1>7

LEMMA ScanKeeps == ASSUME MInv, Scan \/ Fault PROVE MInv'
<1>1. ASSUME NEW p \in Path, ReadFile(p) PROVE MInv'
  <2>1. index' \in [Path -> File] /\ list' \subseteq Path \cup {Sub}
    BY <1>1 DEF ReadFile, MInv, MTypeOK
  <2> QED
    BY <1>1, <2>1 DEF ReadFile, MInv, MTypeOK, ConsumerFollows, folder, watcher,
       bounds
<1>2. ASSUME NEW x \in Path \cup {Sub}, FileGone(x) PROVE MInv'
  <2>1. missed' \in BOOLEAN
    <3>1. missed' = (missed \/ (blind /\ x \in Deep))
      BY <1>2 DEF FileGone
    <3> QED
      BY <3>1, Zenon
  <2> QED
    BY <1>2, <2>1, NoneIsIndex DEF FileGone, Reselect, MInv, MTypeOK,
       ConsumerFollows, folder, watcher
<1>3. CASE ScanFails
  <2>1. faults' \in 0 .. MaxFaults /\ missed' \in BOOLEAN
    BY <1>3 DEF ScanFails, MInv, MTypeOK
  <2> QED
    BY <1>3, <2>1, NoneIsIndex DEF ScanFails, Reselect, MInv, MTypeOK,
       ConsumerFollows, folder, watcher
<1>4. CASE StartScan
  <2>1. list' \subseteq Path \cup {Sub} /\ missed' \in BOOLEAN
    BY <1>4 DEF StartScan, Files
  <2> QED
    BY <1>4, <2>1, NoneIsIndex DEF StartScan, MInv, MTypeOK, ConsumerFollows,
       folder
<1>5. CASE FinishScan
  BY <1>5, FinishKeeps
<1>6. CASE EnterSub
  <2>1. list' \subseteq Path \cup {Sub}
    BY <1>6 DEF EnterSub, MInv, MTypeOK
  <2> QED
    BY <1>6, <2>1 DEF EnterSub, MInv, MTypeOK, ConsumerFollows, folder, watcher,
       bounds
<1>7. CASE WatchFails
  <2>1. faults' \in 0 .. MaxFaults /\ blind' \in BOOLEAN
    BY <1>7 DEF WatchFails, MInv, MTypeOK
  <2> QED
    BY <1>7, <2>1 DEF WatchFails, MInv, MTypeOK, ConsumerFollows, monitor
<1> QED
  BY <1>1, <1>2, <1>3, <1>4, <1>5, <1>6, <1>7 DEF Scan, Fault

LEMMA MStepInv == MInv /\ [MNext]_mvars => MInv'
<1> SUFFICES ASSUME MInv, [MNext]_mvars PROVE MInv'
  OBVIOUS
<1>1. CASE Receive
  <2>1. seen' = baseline
    BY <1>1 DEF Receive, MInv, ConsumerFollows
  <2> QED
    BY <1>1, <2>1 DEF Receive, MInv, MTypeOK, ConsumerFollows, folder, watcher,
       bounds
<1>2. CASE MonitorStops
  BY <1>2, NoneIsIndex DEF MonitorStops, MInv, MTypeOK, ConsumerFollows, folder,
     watcher, bounds
<1>3. CASE Close
  BY <1>3 DEF Close, MInv, MTypeOK, ConsumerFollows, folder, watcher, monitor,
     bounds
<1>4. CASE UNCHANGED mvars
  BY <1>4 DEF mvars, MInv, MTypeOK, ConsumerFollows, folder, watcher, monitor,
     bounds
<1> QED
  BY UserKeeps, WatchKeeps, ScanKeeps, <1>1, <1>2, <1>3, <1>4 DEF MNext

-----------------------------------------------------------------------------
(* Theorems *)

\* The goroutines' data has its type and is empty where they do not need it.
THEOREM MTypeCorrect == MSpec => []MTypeOK
<1>1. MInit => MInv
  BY MInitInv
<1>2. MInv => MTypeOK
  BY DEF MInv
<1> QED
  BY <1>1, <1>2, MStepInv, PTL DEF MSpec

\* A consumer that applies what Monitor.Changes sends has the monitor's
\* baseline, whatever scans failed or raced with users.
THEOREM ConsumerFollowsHolds == MSpec => []ConsumerFollows
<1>1. MInit => MInv
  BY MInitInv
<1>2. MInv => ConsumerFollows
  BY DEF MInv
<1> QED
  BY <1>1, <1>2, MStepInv, PTL DEF MSpec

-----------------------------------------------------------------------------
(* No change is lost *)

\* An event is on its way that will make the monitor scan again.
Coming == queue # {} \/ pending # {} \/ wpc = "send"

\* What the baseline will have at p once a running scan is over.
Upcoming(p) ==
  IF mpc = "scan"
  THEN IF p \in list \/ (Sub \in list /\ p \in Deep) THEN disk[p] ELSE index[p]
  ELSE baseline[p]

\* Files are in directories that exist.
Housed == ~sub => Files(disk) \cap Deep = {}

\* The goroutines start together, and end only after Close.
Together ==
  /\ wpc = "new" <=> mpc = "new"
  /\ wpc = "stopped" \/ mpc = "stopped" => closed
  /\ mpc = "new" => /\ ~closed /\ queue = {} /\ pending = {}
                    /\ watched = {} /\ ~blind

\* A directory without a watch has an event that will have it watched, or its
\* watch could not be set.
Covered ==
  mpc # "new" => /\ Root \in watched
                 /\ sub => Sub \in watched \/ Sub \in queue \/ blind

\* Nothing of the subdirectory is read before it is listed.
Unread == Sub \in list => \A p \in Deep : p \notin list /\ index[p] = Absent

\* What is known of p is right: p is as it will be found, and where a scan
\* expects it.
Known(p) == Upcoming(p) = disk[p] /\ (p \in list => disk[p] # Absent)

\* The monitor has the folder, will have read it by the end of its scan, or has
\* an event to come, but for what happens out of its sight.
Tracked ==
  missed \/ closed \/ Coming \/
    /\ \A p \in Path : Known(p) \/ (blind /\ p \in Deep)
    /\ Sub \in list => sub

RInv == MInv /\ Housed /\ Together /\ Covered /\ Unread /\ Tracked

\* Nothing is under way: no event, no scan, no message.
AtRest == wpc = "select" /\ mpc = "select" /\ queue = {} /\ pending = {}

\* The loss of a change would show here: everything waits for the next event
\* and the consumer's index is not the folder, though all of it is watched, or
\* is not the folder in the part that is.
RestIsCurrent == AtRest /\ ~missed /\ ~closed => Current

LEMMA MInitR == ASSUME MInit PROVE RInv
<1>1. MInv
  BY MInitInv
<1>2. Housed /\ Together /\ Covered /\ Unread
  BY DEF MInit, Housed, Together, Covered, Unread
<1>3. Tracked
  BY DEF MInit, Tracked, Known, Upcoming
<1> QED
  BY <1>1, <1>2, <1>3 DEF RInv

\* What Changed leaves and does, but for what a proof does not need.
LEMMA ChangedFacts ==
  ASSUME NEW files, NEW hasSub, NEW names, Changed(files, hasSub, names)
  PROVE  /\ disk' = files /\ sub' = hasSub
         /\ watched' = IF hasSub THEN watched ELSE watched \ {Sub}
         /\ queue' = queue \cup {y \in names :
              (IF y \in Path THEN DirOf(y) ELSE Root) \in watched}
         /\ missed' = (missed \/ mpc = "new") /\ blind' = (blind /\ hasSub)
         /\ UNCHANGED <<wpc, mpc, pending, closed, baseline, list, index>>
  BY DEF Changed, watcher, monitor

\* Once there is a watch, a change of the users raises an event, if it is not
\* out of sight.
LEMMA ChangedIsComing ==
  ASSUME RInv, NEW files, NEW hasSub, NEW names, NEW x \in names,
         x \in Path \cup {Sub}, x \in Deep => sub /\ ~blind,
         Changed(files, hasSub, names)
  PROVE  missed' \/ Coming'
<1> DEFINE dirOf(y) == IF y \in Path THEN DirOf(y) ELSE Root
<1>1. /\ queue' = queue \cup {y \in names : dirOf(y) \in watched}
      /\ missed' = (missed \/ mpc = "new")
      /\ UNCHANGED <<pending, wpc, mpc>>
  BY ChangedFacts
<1>2. CASE mpc = "new"
  BY <1>1, <1>2
<1>3. CASE mpc # "new" /\ dirOf(x) \in watched
  BY <1>1, <1>3 DEF Coming
<1>4. CASE mpc # "new" /\ dirOf(x) \notin watched
  <2>1. Sub \notin watched /\ sub /\ ~blind
    BY <1>4 DEF RInv, Covered, DirOf
  <2>2. Sub \in queue
    BY <1>4, <2>1 DEF RInv, Covered
  <2> QED
    BY <1>1, <2>2 DEF Coming
<1> QED
  BY <1>2, <1>3, <1>4

\* A change within a directory that could not be watched is out of sight, and
\* changes nothing else.
Hidden(files, hasSub) ==
  blind /\ sub /\ hasSub /\ \A p \in Path \ Deep : files[p] = disk[p]

LEMMA HiddenKeepsTracked ==
  ASSUME RInv, NEW files, NEW hasSub, NEW names,
         Hidden(files, hasSub), Changed(files, hasSub, names)
  PROVE  Tracked'
<1>1. /\ disk' = files /\ sub' = hasSub /\ queue \subseteq queue'
      /\ missed => missed'
      /\ UNCHANGED <<wpc, mpc, pending, closed, baseline, list, index>>
  BY ChangedFacts
<1>2. blind'
  <2>1. blind' = (blind /\ hasSub)
    BY ChangedFacts
  <2> QED
    BY <2>1 DEF Hidden
<1>3. CASE missed \/ closed \/ Coming
  BY <1>1, <1>3 DEF Tracked, Coming
<1>4. CASE ~(missed \/ closed \/ Coming)
  <2>1. /\ \A p \in Path : Known(p) \/ (blind /\ p \in Deep)
        /\ Sub \in list => sub
    BY <1>4 DEF RInv, Tracked
  <2>2. ASSUME NEW p \in Path \ Deep PROVE Known(p)'
    <3>1. Known(p) /\ disk'[p] = disk[p]
      BY <1>1, <2>1 DEF Hidden
    <3> QED
      BY <1>1, <3>1 DEF Known, Upcoming
  <2>3. \A p \in Path : Known(p)' \/ (blind' /\ p \in Deep)
    BY <1>2, <2>2
  <2>4. Sub \in list' => sub'
    BY <1>1 DEF Hidden
  <2> QED
    BY <2>3, <2>4 DEF Tracked
<1> QED
  BY <1>3, <1>4

\* One of names is in sight, or the change is hidden.
InSight(names) ==
  \E x \in names : x \in Path \cup {Sub} /\ (x \in Deep => sub /\ ~blind)

LEMMA ChangedKeepsR ==
  ASSUME RInv, MInv', NEW files, NEW hasSub, NEW names,
         InSight(names) \/ Hidden(files, hasSub),
         ~hasSub => Files(files) \cap Deep = {},
         hasSub => sub \/ Sub \in names,
         Changed(files, hasSub, names)
  PROVE  RInv'
<1> DEFINE dirOf(y) == IF y \in Path THEN DirOf(y) ELSE Root
<1>1. /\ disk' = files /\ sub' = hasSub
      /\ watched' = IF hasSub THEN watched ELSE watched \ {Sub}
      /\ queue' = queue \cup {y \in names : dirOf(y) \in watched}
      /\ UNCHANGED <<wpc, mpc, pending, closed, list, index>>
  BY ChangedFacts
<1>2. Housed'
  BY <1>1 DEF Housed, Files
<1>3. Together'
  <2>1. blind' => blind
    <3>1. blind' = (blind /\ hasSub)
      BY ChangedFacts
    <3> QED
      BY <3>1
  <2>2. mpc = "new" => queue' = {} /\ watched' = {}
    BY <1>1 DEF RInv, Together
  <2> QED
    BY <1>1, <2>1, <2>2 DEF RInv, Together
<1>4. Covered'
  <2> SUFFICES ASSUME mpc # "new"
               PROVE  /\ Root \in watched'
                      /\ hasSub => Sub \in watched' \/ Sub \in queue' \/ blind'
    BY <1>1 DEF Covered
  <2>1. Root \in watched /\ (sub => Sub \in watched \/ Sub \in queue \/ blind)
    BY DEF RInv, Covered
  <2>2. Root \in watched'
    BY <1>1, <2>1 DEF Root, Sub
  <2>3. dirOf(Sub) = Root
    BY DEF Sub
  <2>4. ASSUME hasSub PROVE Sub \in watched' \/ Sub \in queue' \/ blind'
    <3>1. Sub \in names => Sub \in queue'
      BY <1>1, <2>1, <2>3
    <3>2. blind => blind'
      <4>1. blind' = (blind /\ hasSub)
        BY ChangedFacts
      <4> QED
        BY <2>4, <4>1
    <3>3. sub => Sub \in watched' \/ Sub \in queue' \/ blind'
      BY ONLY <1>1, <2>1, <2>4, <3>2
    <3> QED
      BY <2>4, <3>1, <3>3
  <2> QED
    BY <2>2, <2>4
<1>5. Unread'
  BY <1>1 DEF RInv, Unread
<1>6. Tracked'
  <2>1. CASE Hidden(files, hasSub)
    BY <2>1, HiddenKeepsTracked
  <2>2. CASE InSight(names)
    BY <2>2, ChangedIsComing DEF Tracked, InSight
  <2> QED
    BY <2>1, <2>2
<1> QED
  BY <1>2, <1>3, <1>4, <1>5, <1>6 DEF RInv

LEMMA SightOfOne ==
  ASSUME NEW p \in Path, p \in Deep => sub, disk \in [Path -> File], NEW c
  PROVE  InSight({p}) \/ Hidden([disk EXCEPT ![p] = c], sub)
<1>1. CASE p \in Deep /\ blind
  BY <1>1 DEF Hidden
<1>2. CASE ~(p \in Deep /\ blind)
  BY <1>2 DEF InSight
<1> QED
  BY <1>1, <1>2

LEMMA UserKeepsR == ASSUME RInv, User PROVE RInv'
<1>1. MInv'
  BY UserKeeps DEF RInv
<1>2. disk \in [Path -> File] /\ sub \in BOOLEAN /\ Housed
  BY DEF RInv, MInv, MTypeOK
<1>3. Sub \notin Path /\ Deep \subseteq Path
  OBVIOUS
<1>4. ASSUME NEW p \in Path, Put(p) PROVE RInv'
  <2>1. PICK c \in Content : Changed([disk EXCEPT ![p] = c], sub, {p})
    BY <1>4 DEF Put
  <2>2. ~sub => Files([disk EXCEPT ![p] = c]) \cap Deep = {}
    BY <1>2, <1>4 DEF Put, Exists, Housed, Files
  <2>3. p \in Deep => sub
    BY <1>4 DEF Put, Exists
  <2>4. InSight({p}) \/ Hidden([disk EXCEPT ![p] = c], sub)
    BY <1>2, <1>3, <2>3, SightOfOne
  <2> QED
    BY <1>1, <2>1, <2>2, <2>4, ChangedKeepsR
<1>5. ASSUME NEW p \in Path, Remove(p) PROVE RInv'
  <2>1. Changed([disk EXCEPT ![p] = Absent], sub, {p}) /\ disk[p] # Absent
    BY <1>5 DEF Remove
  <2>2. ~sub => Files([disk EXCEPT ![p] = Absent]) \cap Deep = {}
    BY <1>2 DEF Housed, Files
  <2>3. p \in Deep => sub
    BY <1>2, <2>1 DEF Housed, Files
  <2>4. InSight({p}) \/ Hidden([disk EXCEPT ![p] = Absent], sub)
    BY <1>2, <1>3, <2>3, SightOfOne
  <2> QED
    BY <1>1, <2>1, <2>2, <2>4, ChangedKeepsR
<1>6. ASSUME NEW p \in Path, NEW q \in Path, Move(p, q) PROVE RInv'
  <2> DEFINE files == [disk EXCEPT ![q] = disk[p], ![p] = Absent]
  <2>1. Changed(files, sub, {p, q}) /\ (q \in Deep => sub)
    BY <1>6 DEF Move, Exists
  <2>2. ~sub => Files(files) \cap Deep = {}
    <3>1. ASSUME NEW r \in Path, r # q, files[r] # Absent PROVE disk[r] # Absent
      BY <1>2, <3>1
    <3> HIDE DEF files
    <3> QED
      BY <1>2, <2>1, <3>1 DEF Housed, Files
  <2>3. p \in Deep => sub
    BY <1>2, <1>6 DEF Move, Housed, Files
  <2>4. \A r \in Path : r # p /\ r # q => files[r] = disk[r]
    BY <1>2
  <2> HIDE DEF files
  <2>5. InSight({p, q}) \/ Hidden(files, sub)
    <3>1. CASE p \in Deep /\ q \in Deep /\ blind
      <4>1. \A r \in Path \ Deep : files[r] = disk[r]
        BY ONLY <2>4, <3>1, <1>3
      <4> QED
        BY <2>3, <3>1, <4>1 DEF Hidden
    <3>2. CASE ~(p \in Deep /\ q \in Deep /\ blind)
      BY <2>1, <2>3, <3>2 DEF InSight
    <3> QED
      BY <3>1, <3>2
  <2> QED
    BY <1>1, <2>1, <2>2, <2>5, ChangedKeepsR
<1>7. CASE Mkdir
  <2>1. PICK held \in [Deep -> File] :
          Changed([p \in Path |-> IF p \in Deep THEN held[p] ELSE disk[p]],
                  TRUE, {Sub})
    BY <1>7 DEF Mkdir
  <2>2. InSight({Sub})
    BY <1>3 DEF InSight
  <2> HIDE DEF InSight
  <2> QED
    BY <1>1, <2>1, <2>2, ChangedKeepsR
<1>8. CASE Rmdir
  <2> DEFINE files == [p \in Path |-> IF p \in Deep THEN Absent ELSE disk[p]]
  <2>1. Changed(files, FALSE, {Sub})
    BY <1>8 DEF Rmdir
  <2>2. Files(files) \cap Deep = {}
    BY <1>3 DEF Files
  <2>3. InSight({Sub})
    BY <1>3 DEF InSight
  <2> HIDE DEF files
  <2> QED
    BY <1>1, <2>1, <2>2, <2>3, ChangedKeepsR
<1> QED
  BY <1>4, <1>5, <1>6, <1>7, <1>8 DEF User

LEMMA WatchKeepsR == ASSUME RInv, Watch PROVE RInv'
<1>1. MInv'
  BY WatchKeeps DEF RInv
<1> USE DEF RInv
<1>2. CASE StartWatch
  <2>1. /\ mpc = "new" /\ wpc' = "select" /\ mpc' = "select"
        /\ watched' = {Root} \cup (IF sub THEN {Sub} ELSE {})
        /\ UNCHANGED <<disk, sub, queue, pending, baseline, list, index, closed,
                       missed>>
    BY <1>2 DEF StartWatch
  <2>2. Housed' /\ Together' /\ Covered' /\ Unread'
    BY <2>1 DEF Housed, Together, Covered, Unread, Files
  <2>3. ~blind /\ ~blind'
    BY <1>2 DEF StartWatch, Together
  <2>4. ASSUME NEW p \in Path PROVE Known(p)' <=> Known(p)
    BY <2>1 DEF Known, Upcoming
  <2>5. ~Coming /\ ~closed
    <3>1. queue = {} /\ pending = {} /\ wpc = "new" /\ ~closed
      BY <2>1 DEF Together
    <3> QED
      BY <3>1 DEF Coming
  <2>6. ASSUME ~missed PROVE /\ \A p \in Path : Known(p)'
                             /\ (Sub \in list => sub)'
    <3>1. /\ \A p \in Path : Known(p)
          /\ Sub \in list => sub
      BY <2>3, <2>5, <2>6 DEF Tracked
    <3> QED
      BY <2>1, <2>4, <3>1
  <2>7. Tracked'
    BY <2>1, <2>6 DEF Tracked
  <2> QED
    BY <1>1, <2>2, <2>7
<1>3. CASE TakeEvent
  <2>1. PICK y \in queue :
          /\ queue' = queue \ {y}
          /\ pending' = pending \cup {y}
          /\ watched' = IF y = Sub /\ sub THEN watched \cup {Sub} ELSE watched
    BY <1>3 DEF TakeEvent
  <2>2. UNCHANGED <<disk, sub, wpc, mpc, closed, list, index>> /\ wpc = "select"
    BY <1>3 DEF TakeEvent, monitor
  <2>3. Coming'
    BY <2>1 DEF Coming
  <2>4. Housed' /\ Together' /\ Unread'
    BY <2>1, <2>2 DEF Housed, Together, Unread, Files
  <2>5. Covered'
    <3>1. Sub \in watched' \/ (blind => blind')
      <4>1. blind' = (blind /\ Sub \notin watched')
        BY <1>3 DEF TakeEvent
      <4> QED
        BY <4>1
    <3> QED
      BY <2>1, <2>2, <3>1 DEF Covered
  <2> QED
    BY <1>1, <2>3, <2>4, <2>5 DEF Tracked
<1>4. CASE Fire
  <2>1. /\ wpc = "select" /\ wpc' = "send" /\ pending' = {}
        /\ UNCHANGED <<disk, sub, queue, watched, mpc, closed, list, index,
                       blind>>
    BY <1>4 DEF Fire, folder, monitor, bounds
  <2>2. Housed' /\ Together' /\ Covered' /\ Unread'
    BY <2>1 DEF Housed, Together, Covered, Unread, Files
  <2> QED
    BY <1>1, <2>1, <2>2 DEF Tracked, Coming
<1>5. CASE WatcherStops
  <2>1. /\ closed /\ wpc # "new" /\ wpc' = "stopped" /\ pending' = {}
        /\ UNCHANGED <<disk, sub, queue, watched, mpc, closed, list, index,
                       blind>>
    BY <1>5 DEF WatcherStops, folder, monitor, bounds
  <2>2. Housed' /\ Together' /\ Covered' /\ Unread'
    BY <2>1 DEF Housed, Together, Covered, Unread, Files
  <2> QED
    BY <1>1, <2>1, <2>2 DEF Tracked
<1> QED
  BY <1>2, <1>3, <1>4, <1>5 DEF Watch

\* A file that goes while it is to be read has raised an event, if it is not out
\* of sight.
LEMMA ScanKeepsR == ASSUME RInv, Scan \/ Fault PROVE RInv'
<1>1. MInv'
  BY ScanKeeps DEF RInv
<1>2. /\ disk \in [Path -> File] /\ index \in [Path -> File]
      /\ list \subseteq Path \cup {Sub}
  BY DEF RInv, MInv, MTypeOK
<1> USE DEF RInv
<1>3. ASSUME UNCHANGED <<disk, sub, queue, watched, closed, blind>>,
             wpc # "new", mpc # "new", wpc' # "new", mpc' # "new",
             wpc' = "stopped" \/ mpc' = "stopped" => closed
      PROVE  Housed' /\ Together' /\ Covered'
  BY <1>3 DEF Housed, Together, Covered, Files
<1>4. mpc = "scan" => wpc # "new"
  BY DEF Together
<1>5. ASSUME NEW p \in Path, ReadFile(p) PROVE RInv'
  <2>1. /\ mpc = "scan" /\ p \in list /\ list' = list \ {p}
        /\ index' = [index EXCEPT ![p] = disk[p]]
        /\ UNCHANGED <<disk, sub, queue, watched, pending, wpc, mpc, closed,
                       missed, blind>>
    BY <1>5 DEF ReadFile, folder, watcher, bounds
  <2>2. Housed' /\ Together' /\ Covered'
    BY <1>3, <1>4, <2>1 DEF Together
  <2>3. p # Sub
    OBVIOUS
  <2>4. Unread'
    BY <1>2, <2>1, <2>3 DEF Unread
  <2>5. ASSUME NEW q \in Path, Known(q) PROVE Known(q)'
    <3>1. CASE q = p
      BY <1>2, <2>1, <3>1 DEF Known, Upcoming
    <3>2. CASE q # p
      BY <1>2, <2>1, <2>3, <1>5, <2>5, <3>2 DEF Known, Upcoming
    <3> QED
      BY <3>1, <3>2
  <2> QED
    BY <1>1, <2>1, <2>2, <2>4, <2>5 DEF Tracked, Coming
<1>6. ASSUME NEW x \in Path \cup {Sub}, FileGone(x) PROVE RInv'
  <2>1. /\ mpc = "scan" /\ x \in list /\ mpc' = "select" /\ list' = {}
        /\ IF x = Sub THEN ~sub ELSE disk[x] = Absent
        /\ missed' = (missed \/ (blind /\ x \in Deep))
        /\ UNCHANGED <<disk, sub, queue, watched, pending, wpc, closed, blind>>
    BY <1>6 DEF FileGone, Reselect, folder, watcher
  <2>2. Housed' /\ Together' /\ Covered' /\ Unread'
    BY <1>3, <1>4, <2>1 DEF Together, Unread
  <2>3. missed' \/ closed' \/ Coming'
    <3>1. CASE x = Sub
      BY <2>1, <3>1 DEF Tracked, Coming
    <3>2. CASE x # Sub
      <4>1. x \in Path /\ ~Known(x)
        BY <2>1, <3>2 DEF Known
      <4> QED
        BY <2>1, <4>1 DEF Tracked, Coming
    <3> QED
      BY <3>1, <3>2
  <2> QED
    BY <1>1, <2>2, <2>3 DEF Tracked
<1>7. CASE ScanFails
  <2>1. /\ mpc = "scan" /\ mpc' = "select" /\ missed' = TRUE /\ list' = {}
        /\ UNCHANGED <<disk, sub, queue, watched, wpc, closed, blind>>
    BY <1>7 DEF ScanFails, Reselect, folder, watcher
  <2>2. Housed' /\ Together' /\ Covered' /\ Unread'
    BY <1>3, <1>4, <2>1 DEF Together, Unread
  <2> QED
    BY <1>1, <2>1, <2>2 DEF Tracked
<1>8. CASE StartScan
  <2>1. /\ wpc = "send" /\ mpc = "select" /\ wpc' = "select" /\ mpc' = "scan"
        /\ list' = (Files(disk) \ Deep) \cup (IF sub THEN {Sub} ELSE {})
        /\ index' = None
        /\ UNCHANGED <<disk, sub, queue, watched, closed, blind>>
    BY <1>8 DEF StartScan, folder
  <2>2. Housed' /\ Together' /\ Covered'
    BY <1>3, <2>1
  <2>3. Sub \notin Files(disk)
    BY DEF Files
  <2>4. /\ Sub \in list' <=> sub
        /\ \A q \in Path : q \in list' <=> q \in Files(disk) /\ q \notin Deep
    BY <2>1, <2>3
  <2>5. \A q \in Path : index'[q] = Absent
    BY <2>1 DEF None
  <2>6. Unread'
    BY <2>4, <2>5 DEF Unread
  <2>7. ASSUME NEW q \in Path PROVE Known(q)'
    <3>1. q \in Files(disk) <=> disk[q] # Absent
      BY DEF Files
    <3>2. q \in Deep /\ ~sub => q \notin Files(disk)
      BY DEF Housed
    <3> QED
      BY <2>1, <2>4, <2>5, <3>1, <3>2 DEF Known, Upcoming
  <2> QED
    BY <1>1, <2>1, <2>2, <2>4, <2>6, <2>7 DEF Tracked
<1>9. CASE EnterSub
  <2>1. /\ mpc = "scan" /\ Sub \in list /\ sub
        /\ list' = (list \ {Sub}) \cup (Files(disk) \cap Deep)
        /\ UNCHANGED <<disk, sub, queue, watched, pending, wpc, mpc, closed,
                       index, missed, blind>>
    BY <1>9 DEF EnterSub, folder, watcher, bounds
  <2>2. Housed' /\ Together' /\ Covered'
    BY <1>3, <1>4, <2>1 DEF Together
  <2>3. Sub \notin list'
    BY <2>1 DEF Files
  <2>4. ASSUME NEW q \in Path, Known(q) PROVE Known(q)'
    <3>1. q \in list' <=> q \in list \/ (q \in Deep /\ disk[q] # Absent)
      BY <2>1 DEF Files
    <3>2. q \in Deep => q \notin list /\ index[q] = Absent
      BY <2>1 DEF Unread
    <3> QED
      BY <2>1, <2>3, <2>4, <3>1, <3>2 DEF Known, Upcoming
  <2> QED
    BY <1>1, <2>1, <2>2, <2>3, <2>4 DEF Tracked, Coming, Unread
<1>10. CASE FinishScan
  <2>1. /\ mpc = "scan" /\ list = {} /\ list' = {} /\ baseline' = index
        /\ mpc' \in {"select", "send"}
        /\ UNCHANGED <<disk, sub, queue, watched, pending, wpc, closed, missed,
                       blind>>
    BY <1>10 DEF FinishScan, folder, watcher, bounds
  <2>2. Housed' /\ Together' /\ Covered' /\ Unread'
    BY <1>3, <1>4, <2>1 DEF Together, Unread
  <2>3. \A q \in Path : Known(q) => Known(q)'
    BY <2>1 DEF Known, Upcoming
  <2> QED
    BY <1>1, <2>1, <2>2, <2>3 DEF Tracked, Coming
<1>11. CASE WatchFails
  <2>1. /\ wpc = "select" /\ Sub \in queue /\ queue' = queue \ {Sub}
        /\ pending' = pending \cup {Sub} /\ blind' = TRUE
        /\ UNCHANGED <<disk, sub, watched, wpc, mpc, list, index, closed>>
    BY <1>11 DEF WatchFails, monitor
  <2>2. Housed' /\ Together' /\ Covered' /\ Unread'
    BY <2>1 DEF Housed, Together, Covered, Unread, Files
  <2>3. Coming'
    BY <2>1 DEF Coming
  <2> QED
    BY <1>1, <2>2, <2>3 DEF Tracked
<1> QED
  BY <1>5, <1>6, <1>7, <1>8, <1>9, <1>10, <1>11 DEF Scan, Fault

LEMMA MStepR == RInv /\ [MNext]_mvars => RInv'
<1> SUFFICES ASSUME RInv, [MNext]_mvars PROVE RInv'
  OBVIOUS
<1>1. MInv'
  BY MStepInv DEF RInv
<1> USE DEF RInv
<1>2. ASSUME UNCHANGED <<disk, sub, queue, watched, list, index, blind>>
      PROVE  Housed' /\ Unread'
  BY <1>2 DEF Housed, Unread, Files
<1>3. CASE Receive
  <2>1. /\ mpc = "send" /\ mpc' = "select"
        /\ UNCHANGED <<disk, sub, queue, watched, pending, wpc, closed, missed,
                       blind, baseline, list, index>>
    BY <1>3 DEF Receive, folder, watcher, bounds
  <2>2. Together' /\ Covered'
    BY <2>1 DEF Together, Covered
  <2>3. Tracked'
    BY <2>1 DEF Tracked, Coming, Known, Upcoming
  <2> QED
    BY <1>1, <1>2, <2>1, <2>2, <2>3
<1>4. CASE MonitorStops
  <2>1. /\ closed /\ mpc # "new" /\ mpc' = "stopped"
        /\ UNCHANGED <<disk, sub, queue, watched, pending, wpc, closed, blind,
                       list, index>>
    BY <1>4 DEF MonitorStops, Together, folder, watcher, bounds
  <2> QED
    BY <1>1, <1>2, <2>1 DEF Together, Covered, Tracked
<1>5. CASE Close
  <2>1. /\ mpc # "new" /\ closed'
        /\ UNCHANGED <<disk, sub, queue, watched, pending, wpc, mpc, blind, list,
                       index>>
    BY <1>5 DEF Close, folder, watcher, monitor, bounds
  <2> QED
    BY <1>1, <1>2, <2>1 DEF Together, Covered, Tracked
<1>6. CASE UNCHANGED mvars
  <2>1. UNCHANGED <<disk, sub, queue, watched, pending, wpc, mpc, closed, missed,
                    blind, baseline, list, index>>
    BY <1>6 DEF mvars, folder, watcher, monitor, bounds
  <2>2. Together' /\ Covered'
    BY <2>1 DEF Together, Covered
  <2>3. Tracked'
    BY <2>1 DEF Tracked, Coming, Known, Upcoming
  <2> QED
    BY <1>1, <1>2, <2>1, <2>2, <2>3
<1> QED
  BY UserKeepsR, WatchKeepsR, ScanKeepsR, <1>3, <1>4, <1>5, <1>6 DEF MNext

\* No change is lost between the kernel's queue, the watcher's collected paths,
\* the channel and a scan that races with the users, wherever the
\* subdirectory's files came from: when nothing is under way the consumer has
\* the folder, but for a change before fswatch.New, a scan that failed, and
\* what lies in a directory whose watch could not be set (Watcher.run drops the
\* error of addRecursive).
THEOREM RestIsCurrentHolds == MSpec => []RestIsCurrent
<1>1. MInit => RInv
  BY MInitR
<1>2. RInv => RestIsCurrent
  <2> SUFFICES ASSUME RInv, AtRest, ~missed, ~closed, NEW p \in Path
               PROVE  seen[p] = disk[p] \/ (blind /\ p \in Deep)
    BY DEF RestIsCurrent, Current
  <2>1. Known(p) \/ (blind /\ p \in Deep)
    BY DEF RInv, Tracked, Coming, AtRest
  <2>2. Known(p) => baseline[p] = disk[p]
    BY DEF Known, Upcoming, AtRest
  <2>3. seen = baseline
    BY DEF RInv, MInv, ConsumerFollows, AtRest
  <2> QED
    BY <2>1, <2>2, <2>3
<1> QED
  BY <1>1, <1>2, MStepR, PTL DEF MSpec
=============================================================================
