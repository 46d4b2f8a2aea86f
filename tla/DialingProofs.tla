--------------------------- MODULE DialingProofs ---------------------------
(* One round per peer, and no peer without one locked out, for any number of *)
(* peers, addresses, folders and goroutines.                                 *)
EXTENDS Dialing, SequenceTheorems, TLAPS

IInv == TypeOK /\ OneRound /\ NobodyLockedOut

USE DialingAssumption

LEMMA FreeIsNoJob == Free \notin Job
  BY DEF Free, Job

\* beginSync under its lock: the round it starts is the only one with p.
LEMMA BeginKeeps ==
  ASSUME IInv, NEW p \in Peer, NEW step \in {"ask", "check"},
         NEW eps \in Seq(Address) \ {<<>>}, Begin(p, step, eps) \/ Skip
  PROVE  /\ syncing' \subseteq Peer /\ job' \in [Slot -> Job \cup {Free}]
         /\ \A s \in Slot : job'[s].step = "pull" <=> job'[s].folders # {}
         /\ OneRound' /\ NobodyLockedOut'
<1>1. CASE Skip
  BY <1>1 DEF Skip, IInv, TypeOK, OneRound, NobodyLockedOut, Busy, FreeSlots
<1>2. CASE ~Skip
  <2> DEFINE s0 == CHOOSE s \in FreeSlots : TRUE
             r == Round(p, step, eps)
  <2>1. /\ p \notin syncing /\ s0 \in FreeSlots
        /\ syncing' = syncing \cup {p}
        /\ job' = [job EXCEPT ![s0] = r]
    BY <1>2 DEF Begin
  <2>2. r \in Job /\ r # Free /\ r.peer = p /\ r.step # "pull" /\ r.folders = {}
    BY FreeIsNoJob DEF Round, Job
  <2> HIDE DEF r, s0
  <2>3. s0 \in Slot /\ job[s0] = Free
    BY <2>1 DEF FreeSlots
  <2>4. /\ job'[s0] = r
        /\ \A s \in Slot : s # s0 => job'[s] = job[s]
    BY <2>1, <2>3 DEF IInv, TypeOK
  <2>5. Busy' = Busy \cup {s0} /\ s0 \notin Busy
    BY <2>2, <2>3, <2>4 DEF Busy, FreeSlots
  <2>6. syncing' \subseteq Peer /\ job' \in [Slot -> Job \cup {Free}]
    BY <2>1, <2>2 DEF IInv, TypeOK
  <2>7. \A s \in Slot : job'[s].step = "pull" <=> job'[s].folders # {}
    BY <2>2, <2>4 DEF IInv, TypeOK
  <2>8. \A s \in Busy : job'[s] = job[s] /\ job[s].peer # p
    BY <2>1, <2>4, <2>5 DEF IInv, NobodyLockedOut, Busy
  <2>9. OneRound'
    BY <2>2, <2>4, <2>5, <2>8 DEF IInv, OneRound
  <2>10. NobodyLockedOut'
    BY <2>1, <2>2, <2>4, <2>5, <2>8 DEF IInv, NobodyLockedOut
  <2> QED
    BY <2>6, <2>7, <2>9, <2>10
<1> QED
  BY <1>1, <1>2

\* endSync of a round that is the only one with its peer.
LEMMA EndKeeps ==
  ASSUME IInv, NEW s0 \in Slot, job[s0] # Free, End(s0)
  PROVE  /\ syncing' \subseteq Peer /\ job' \in [Slot -> Job \cup {Free}]
         /\ \A s \in Slot : job'[s].step = "pull" <=> job'[s].folders # {}
         /\ OneRound' /\ NobodyLockedOut'
<1>1. /\ job' = [job EXCEPT ![s0] = Free]
      /\ syncing' = syncing \ {job[s0].peer}
  BY DEF End
<1>2. /\ job'[s0] = Free
      /\ \A s \in Slot : s # s0 => job'[s] = job[s]
  BY <1>1 DEF IInv, TypeOK
<1>3. Busy' = Busy \ {s0} /\ s0 \in Busy
  BY <1>2 DEF Busy, FreeSlots
<1>4. syncing' \subseteq Peer /\ job' \in [Slot -> Job \cup {Free}]
  BY <1>1 DEF IInv, TypeOK
<1>5. Free.step # "pull" /\ Free.folders = {}
  BY DEF Free
<1>6. \A s \in Slot : job'[s].step = "pull" <=> job'[s].folders # {}
  BY <1>2, <1>5 DEF IInv, TypeOK
<1>7. \A s \in Busy' : job'[s] = job[s] /\ s \in Busy /\ job[s].peer # job[s0].peer
  <2>1. Busy \subseteq Slot
    BY DEF Busy
  <2> QED
    BY <1>2, <1>3, <2>1 DEF IInv, OneRound
<1>8. OneRound'
  BY <1>7 DEF IInv, OneRound
<1>9. NobodyLockedOut'
  <2>1. syncing = {job[s].peer : s \in Busy}
    BY DEF IInv, NobodyLockedOut
  <2>2. {job[s].peer : s \in Busy} \ {job[s0].peer}
          = {job'[s].peer : s \in Busy'}
    BY <1>3, <1>7
  <2> QED
    BY <1>1, <2>1, <2>2 DEF NobodyLockedOut
<1> QED
  BY <1>4, <1>6, <1>8, <1>9

\* A round that goes on keeps its peer.
LEMMA GoOnKeeps ==
  ASSUME IInv, NEW s0 \in Slot, job[s0] # Free, NEW r \in Job,
         r.peer = job[s0].peer, r.step = "pull" <=> r.folders # {},
         job' = [job EXCEPT ![s0] = r], UNCHANGED syncing
  PROVE  /\ syncing' \subseteq Peer /\ job' \in [Slot -> Job \cup {Free}]
         /\ \A s \in Slot : job'[s].step = "pull" <=> job'[s].folders # {}
         /\ OneRound' /\ NobodyLockedOut'
<1>1. /\ job'[s0] = r
      /\ \A s \in Slot : s # s0 => job'[s] = job[s]
  BY DEF IInv, TypeOK
<1>2. Busy' = Busy
  BY <1>1, FreeIsNoJob DEF Busy, FreeSlots
<1>3. \A s \in Slot : job'[s].peer = job[s].peer
  BY <1>1
<1>4. job' \in [Slot -> Job \cup {Free}]
  BY DEF IInv, TypeOK
<1>5. \A s \in Slot : job'[s].step = "pull" <=> job'[s].folders # {}
  BY <1>1 DEF IInv, TypeOK
<1>6. OneRound'
  BY <1>2, <1>3 DEF IInv, OneRound, Busy
<1>7. NobodyLockedOut'
  <2>1. {job'[s].peer : s \in Busy} = {job[s].peer : s \in Busy}
    BY <1>3 DEF Busy
  <2> QED
    BY <1>2, <2>1 DEF IInv, NobodyLockedOut
<1> QED
  BY <1>4, <1>5, <1>6, <1>7 DEF IInv, TypeOK

-----------------------------------------------------------------------------

\* The next address, or the end.
LEMMA NextAddressKeeps ==
  ASSUME IInv, NEW s0 \in Slot, NEW step \in {"ask", "check"},
         job[s0] # Free, job[s0].step # "pull", NextAddress(s0, step)
  PROVE  /\ syncing' \subseteq Peer /\ job' \in [Slot -> Job \cup {Free}]
         /\ \A s \in Slot : job'[s].step = "pull" <=> job'[s].folders # {}
         /\ OneRound' /\ NobodyLockedOut'
<1>1. CASE Len(job[s0].eps) = 1
  BY <1>1, EndKeeps DEF NextAddress
<1>2. CASE Len(job[s0].eps) # 1
  <2> DEFINE r == [job[s0] EXCEPT !.eps = Tail(@), !.step = step]
  <2>1. job[s0] \in Job /\ job[s0].folders = {}
    BY DEF IInv, TypeOK
  <2>2. Tail(job[s0].eps) \in Seq(Address) \ {<<>>}
    <3>1. job[s0].eps \in Seq(Address) /\ job[s0].eps # <<>>
      BY <2>1 DEF Job
    <3>2. ASSUME NEW e \in Seq(Address), e # <<>>, Len(e) # 1
          PROVE  Tail(e) \in Seq(Address) \ {<<>>}
      <4>1. Tail(e) \in Seq(Address) /\ Len(Tail(e)) = Len(e) - 1
        BY <3>2, HeadTailProperties
      <4>2. Len(e) \in Nat \ {0} /\ Len(<<>>) = 0
        BY <3>2, EmptySeq
      <4>3. PICK t : t = Tail(e)
        OBVIOUS
      <4>4. Len(t) # 0
        BY <3>2, <4>1, <4>2, <4>3
      <4>5. t # <<>>
        BY <4>2, <4>4
      <4> QED
        BY <4>1, <4>3, <4>5
    <3> QED
      BY <1>2, <3>1, <3>2
  <2>3. r \in Job /\ r.peer = job[s0].peer /\ r.step # "pull" /\ r.folders = {}
    BY <2>1, <2>2 DEF Job
  <2>4. job' = [job EXCEPT ![s0] = r] /\ UNCHANGED syncing
    BY <1>2 DEF NextAddress, IInv, TypeOK
  <2> HIDE DEF r
  <2> QED
    BY <2>3, <2>4, GoOnKeeps
<1> QED
  BY <1>1, <1>2

\* Every step of a round.
LEMMA WorkKeeps ==
  ASSUME IInv, NEW s0 \in Slot, Work(s0) \/ WorkFails(s0)
  PROVE  IInv'
<1> DEFINE Kept ==
      /\ syncing' \subseteq Peer /\ job' \in [Slot -> Job \cup {Free}]
      /\ \A s \in Slot : job'[s].step = "pull" <=> job'[s].folders # {}
      /\ OneRound' /\ NobodyLockedOut'
<1>1. job[s0] # Free /\ job[s0] \in Job
  BY DEF Work, WorkFails, AskFails, Asked, Check, Dial, ListFolders, Pull, Free,
         IInv, TypeOK
<1>2. ASSUME NEW r, job' = [job EXCEPT ![s0] = r], UNCHANGED syncing, r \in Job,
             r.peer = job[s0].peer, r.step = "pull" <=> r.folders # {}
      PROVE  Kept
  BY <1>1, <1>2, GoOnKeeps
<1>3. Kept
  <2>1. CASE AskFails(s0) \/ WorkFails(s0)
    BY <1>1, <2>1, NextAddressKeeps DEF AskFails, WorkFails
  <2>2. CASE Asked(s0)
    BY <1>1, <2>2, EndKeeps DEF Asked
  <2>3. CASE Check(s0) \/ Dial(s0)
    <3>1. CASE NextAddress(s0, "check")
      BY <1>1, <2>3, <3>1, NextAddressKeeps DEF Check, Dial
    <3>2. CASE ~NextAddress(s0, "check")
      <4>1. PICK step \in {"dial", "list"} :
              job' = [job EXCEPT ![s0].step = step] /\ UNCHANGED syncing
        BY <2>3, <3>2 DEF Check, Dial
      <4> DEFINE r == [job[s0] EXCEPT !.step = step]
      <4>2. r \in Job /\ r.peer = job[s0].peer /\ r.step # "pull" /\ r.folders = {}
        BY <1>1, <2>3 DEF Job, IInv, TypeOK, Check, Dial
      <4>3. job' = [job EXCEPT ![s0] = r]
        BY <4>1 DEF IInv, TypeOK
      <4> QED
        BY <1>2, <4>1, <4>2, <4>3
    <3> QED
      BY <3>1, <3>2
  <2>4. CASE ListFolders(s0)
    <3>1. CASE End(s0)
      BY <1>1, <3>1, EndKeeps
    <3>2. CASE ~End(s0)
      <4> DEFINE r == [job[s0] EXCEPT !.step = "pull", !.folders = Folder \ paused]
      <4>1. job' = [job EXCEPT ![s0] = r] /\ UNCHANGED syncing
        BY <2>4, <3>2 DEF ListFolders, IInv, TypeOK
      <4>2. r \in Job /\ r.peer = job[s0].peer /\ r.step = "pull" /\ r.folders # {}
        BY <1>1, <2>4, <3>2 DEF Job, ListFolders
      <4> QED
        BY <1>2, <4>1, <4>2
    <3> QED
      BY <3>1, <3>2
  <2>5. ASSUME NEW f \in Folder, Pull(s0, f)
        PROVE  Kept
    <3>1. CASE End(s0)
      BY <1>1, <3>1, EndKeeps
    <3>2. CASE ~End(s0)
      <4> DEFINE r == [job[s0] EXCEPT !.folders = @ \ {f}]
      <4>1. job' = [job EXCEPT ![s0] = r] /\ UNCHANGED syncing
        BY <2>5, <3>2 DEF Pull, IInv, TypeOK
      <4>2. r \in Job /\ r.peer = job[s0].peer /\ r.step = "pull" /\ r.folders # {}
        BY <1>1, <2>5, <3>2 DEF Job, Pull
      <4> QED
        BY <1>2, <4>1, <4>2
    <3> QED
      BY <3>1, <3>2
  <2> QED
    BY <2>1, <2>2, <2>3, <2>4, <2>5 DEF Work
<1>4. table' \in [Peer -> Row]
  <2>1. CASE Asked(s0)
    <3>1. \A l \in List : [trust |-> "trusted", eps |-> l] \in Row
      BY DEF Row
    <3>2. \A p \in Peer : table[p].eps \in List
      <4>1. \A r \in Row : r.eps \in List
        BY DialingAssumption DEF Row, Nobody
      <4> QED
        BY <4>1 DEF IInv, TypeOK
    <3>3. UNCHANGED table
            \/ \E p \in Peer, l \in List :
                 table' = [table EXCEPT ![p] = [trust |-> "trusted", eps |-> l]]
      <4>1. CASE job[s0].peer \in Peer
        BY <2>1, <3>2, <4>1 DEF Asked
      <4>2. CASE job[s0].peer \notin Peer
        BY <2>1, <4>2 DEF Asked, IInv, TypeOK, Job, Free
      <4> QED
        BY <4>1, <4>2
    <3> QED
      BY <3>1, <3>3 DEF IInv, TypeOK
  <2>2. CASE ~Asked(s0)
    BY <2>2 DEF Work, WorkFails, AskFails, Check, Dial, ListFolders, Pull, IInv, TypeOK
  <2> QED
    BY <2>1, <2>2
<1>5. UNCHANGED <<world, found, loop, heard>> /\ acts' \in 0 .. MaxActs
  BY DEF Work, WorkFails, Act, IInv, TypeOK
<1> QED
  BY <1>3, <1>4, <1>5 DEF IInv, TypeOK, world, loop

-----------------------------------------------------------------------------

\* The loops start rounds, and nothing else does.
LEMMA LoopKeeps ==
  ASSUME IInv, Dispatch \/ Loop
  PROVE  IInv'
<1>1. CASE Dispatch
  <2>1. CASE found = {}
    BY <2>1, <1>1 DEF Dispatch
  <2>2. PICK e \in found : IF e[1] = Self THEN Skip
                           ELSE Begin(e[1], "check", <<e[2]>>)
    BY <1>1 DEF Dispatch
  <2>3. /\ e[1] \in Peer \cup {Self} /\ <<e[2]>> \in Seq(Address) \ {<<>>}
    BY <2>2 DEF IInv, TypeOK
  <2>4. PICK p \in Peer \cup {Self} : p = e[1]
    BY <2>3
  <2>5. CASE p = Self
    BY <1>1, <2>2, <2>4, <2>5 DEF Dispatch, Skip, world, loop, IInv, TypeOK,
       OneRound, NobodyLockedOut, Busy, FreeSlots
  <2>6. CASE p # Self
    <3>1. Begin(p, "check", <<e[2]>>) /\ p \in Peer
      BY <2>2, <2>4, <2>6
    <3>2. /\ syncing' \subseteq Peer /\ job' \in [Slot -> Job \cup {Free}]
          /\ \A s \in Slot : job'[s].step = "pull" <=> job'[s].folders # {}
          /\ OneRound' /\ NobodyLockedOut'
      BY <2>3, <3>1, BeginKeeps
    <3> QED
      BY <1>1, <3>2 DEF Dispatch, IInv, TypeOK, world, loop
  <2> QED
    BY <2>5, <2>6
<1>2. CASE Tick \/ ListDevices \/ ListDone
  BY <1>2 DEF Tick, ListDevices, ListDone, world, IInv, TypeOK, OneRound,
     NobodyLockedOut, Busy, FreeSlots
<1>3. ASSUME NEW p \in Peer, Each(p)
      PROVE  IInv'
  <2> DEFINE step == IF rows[p].trust = "trusted" THEN "check" ELSE "ask"
  <2>1. rows[p] \in Row /\ rows[p].eps \in Seq(Address)
    BY DEF IInv, TypeOK, Row, Nobody
  <2>2. CASE Wanted(rows[p])
    <3>1. rows[p].eps \in Seq(Address) \ {<<>>}
      BY <2>1, <2>2 DEF Wanted
    <3>2. Begin(p, step, rows[p].eps) /\ step \in {"ask", "check"}
      BY <1>3, <2>2 DEF Each
    <3> HIDE DEF step
    <3> QED
      <4>1. /\ syncing' \subseteq Peer /\ job' \in [Slot -> Job \cup {Free}]
            /\ \A s \in Slot : job'[s].step = "pull" <=> job'[s].folders # {}
            /\ OneRound' /\ NobodyLockedOut'
        BY <3>1, <3>2, BeginKeeps
      <4>2. rows' \in [Peer -> Row]
        BY <1>3 DEF Each, IInv, TypeOK, Row
      <4> QED
        BY <1>3, <4>1, <4>2 DEF Each, IInv, TypeOK, world
  <2>3. CASE ~Wanted(rows[p])
    <3>1. rows' \in [Peer -> Row] /\ Skip
      BY <1>3, <2>3 DEF Each, IInv, TypeOK, Row
    <3> QED
      BY <1>3, <3>1 DEF Each, Skip, world, IInv, TypeOK, OneRound,
         NobodyLockedOut, Busy, FreeSlots
  <2> QED
    BY <2>2, <2>3
<1> QED
  BY <1>1, <1>2, <1>3 DEF Loop

\* What happens around the engine leaves the rounds alone.
LEMMA EnvironmentKeeps ==
  ASSUME IInv, Environment \/ ListFails \/ UNCHANGED vars
  PROVE  IInv'
<1>1. UNCHANGED <<syncing, job>>
  BY DEF Environment, Store, Move, SetPaused, SetDiscovery, Announce, ListFails, vars
<1>2. OneRound' /\ NobodyLockedOut'
  BY <1>1 DEF IInv, OneRound, NobodyLockedOut, Busy, FreeSlots
<1>3. TypeOK'
  <2>1. CASE Environment
    <3>1. CASE \E p \in Peer : Store(p)
      BY <1>1, <3>1 DEF Store, Act, world, loop, IInv, TypeOK
    <3>2. CASE \E a \in Address : Move(a)
      BY <1>1, <3>2 DEF Move, Act, loop, IInv, TypeOK
    <3>3. CASE SetPaused \/ SetDiscovery
      <4>1. internet' \in BOOLEAN
        BY <3>3, Zenon DEF SetPaused, SetDiscovery, IInv, TypeOK
      <4>2. /\ UNCHANGED <<table, host, found, loop, syncing, job, heard>>
            /\ paused' \subseteq Folder /\ acts' \in 0 .. MaxActs
        BY <3>3 DEF SetPaused, SetDiscovery, Act, IInv, TypeOK
      <4> QED
        BY <4>1, <4>2 DEF loop, IInv, TypeOK
    <3>4. CASE Announce
      BY <1>1, <3>4 DEF Announce, world, loop, IInv, TypeOK
    <3> QED
      BY <2>1, <3>1, <3>2, <3>3, <3>4 DEF Environment
  <2>2. CASE ListFails
    BY <1>1, <2>2 DEF ListFails, Act, world, loop, IInv, TypeOK
  <2>3. CASE UNCHANGED vars
    BY <2>3 DEF vars, world, loop, IInv, TypeOK
  <2> QED
    BY <2>1, <2>2, <2>3
<1> QED
  BY <1>2, <1>3 DEF IInv

\* A restart leaves no round and no mark.
LEMMA RestartKeeps ==
  ASSUME IInv, Restart
  PROVE  IInv'
<1>1. /\ UNCHANGED <<table, world, heard>> /\ acts' \in 0 .. MaxActs
      /\ found' = {} /\ lpc' = "wait" /\ lnet' = FALSE /\ rows' = NoRows
      /\ syncing' = {} /\ job' = [s \in Slot |-> Free]
  BY DEF Restart, Act, IInv, TypeOK
<1>2. \A s \in Slot : job'[s].step = "pull" <=> job'[s].folders # {}
  BY <1>1 DEF Free
<1>3. NoRows \in [Peer -> Row]
  BY DEF NoRows, Row
<1>4. TypeOK'
  BY <1>1, <1>2, <1>3 DEF IInv, TypeOK, world
<1>5. Busy' = {}
  BY <1>1 DEF Busy, FreeSlots
<1> QED
  BY <1>1, <1>4, <1>5 DEF IInv, OneRound, NobodyLockedOut

LEMMA InitIInv == Init => IInv
<1> SUFFICES ASSUME Init PROVE IInv
  OBVIOUS
<1>1. Free.step # "pull" /\ Free.folders = {}
  BY DEF Free
<1>2. TypeOK
  <2>1. NoRows \in [Peer -> Row]
    BY DEF NoRows, Row
  <2>2. job = [s \in Slot |-> Free]
    BY DEF Init
  <2>3. lnet \in BOOLEAN /\ internet \in BOOLEAN
    BY Zenon DEF Init
  <2>4. acts \in 0 .. MaxActs /\ heard \in 0 .. MaxFound
    BY DEF Init
  <2> QED
    BY <1>1, <2>1, <2>2, <2>3, <2>4 DEF Init, TypeOK
<1>3. Busy = {}
  BY DEF Init, Busy, FreeSlots
<1> QED
  BY <1>2, <1>3 DEF Init, IInv, OneRound, NobodyLockedOut

\* The invariant holds in every state of the two loops and their rounds.
THEOREM Invariance == Spec => []IInv
<1>1. IInv /\ [Next]_vars => IInv'
  BY WorkKeeps, LoopKeeps, EnvironmentKeeps, RestartKeeps DEF Next
<1> QED
  BY InitIInv, <1>1, PTL DEF Spec

\* The state of both loops and their rounds has its type: a round pulls exactly
\* while it has folders left.
THEOREM TypeCorrect == Spec => []TypeOK
<1>1. IInv => TypeOK
  BY DEF IInv
<1> QED
  BY Invariance, <1>1, PTL

\* beginSync and endSync keep rounds with one peer apart.
THEOREM OneRoundHolds == Spec => []OneRound
<1>1. IInv => OneRound
  BY DEF IInv
<1> QED
  BY Invariance, <1>1, PTL

\* Every peer marked as syncing has a round that will unmark it.
THEOREM NobodyIsLockedOut == Spec => []NobodyLockedOut
<1>1. IInv => NobodyLockedOut
  BY DEF IInv
<1> QED
  BY Invariance, <1>1, PTL
=============================================================================
