-------------------------- MODULE FriendshipProofs --------------------------
(* Trust is what both users wanted, for any number of devices, of handlers    *)
(* at a time and of steps.                                                    *)
EXTENDS Friendship, TLAPS

\* The steps of a handler that has found the other side willing: it has been
\* served as a trusted device, or has read its request.
Told == {"refreshRead", "refreshPut", "answer", "apply", "acceptPut",
         "acceptClear", "notify", "notifyRead", "notifyApply"}

\* A row is there because the device's user wanted it, pending ones too.
RowsWanted ==
  \A d, p \in Device : row[d][p] # "none" => p \in consent[d]

\* A stored request was sent by a device whose user wanted it.
RequestsWanted ==
  \A d, p \in Device : p \in request[d] => d \in consent[p]

\* A handler works for a user who wanted the friendship; once it has found the
\* other side willing, that side's user did too.  Consent is never taken back,
\* so what a handler has read still holds when it writes.
JobsWanted ==
  \A s \in Slot : job[s] # Free =>
    /\ job[s].to \in consent[job[s].at]
    /\ job[s].step \in Told => job[s].at \in consent[job[s].to]

Wanted == RowsWanted /\ RequestsWanted /\ JobsWanted

IInv == TypeOK /\ Wanted /\ TrustIsMutual

\* The invariant by what it speaks of.
RowsHold ==
  row \in [Device -> [Device -> Row]] /\ RowsWanted /\ TrustIsMutual

RequestsHold == request \in [Device -> SUBSET Device] /\ RequestsWanted

JobsHold ==
  /\ job \in [Slot -> Job \cup {Free}]
  /\ \A s, t \in Slot : job[s].loop /\ job[t].loop /\ s # t =>
       <<job[s].at, job[s].to>> # <<job[t].at, job[t].to>>
  /\ JobsWanted

RestType ==
  /\ consent \in [Device -> SUBSET Device]
  /\ manual \in [Device -> SUBSET Device]
  /\ acts \in 0 .. MaxActs /\ faults \in 0 .. MaxFaults

USE BoundAssumption

LEMMA Parts == IInv <=> RowsHold /\ RequestsHold /\ JobsHold /\ RestType
  BY DEF IInv, TypeOK, Wanted, RowsHold, RequestsHold, JobsHold, RestType

LEMMA PartsNext ==
  ASSUME RowsHold', RequestsHold', JobsHold', RestType' PROVE IInv'
  BY DEF IInv, TypeOK, Wanted, RowsHold, RequestsHold, JobsHold, RestType

LEMMA FreeFacts ==
  /\ Free \notin Job /\ Free.step \notin Steps /\ Free.loop = FALSE
  /\ Told \subseteq Steps
  BY DEF Free, Job, Steps, Told

\* A handler is under way where a step's guard finds one.
LEMMA BusyFacts ==
  ASSUME JobsHold, NEW s \in Slot, job[s].step \in Steps
  PROVE  /\ job[s] # Free /\ job[s] \in Job
         /\ job[s].at \in Device /\ job[s].to \in Device
         /\ job[s].to \in consent[job[s].at]
         /\ job[s].step \in Told => job[s].at \in consent[job[s].to]
<1>1. job[s] # Free /\ job[s] \in Job
  BY FreeFacts DEF JobsHold
<1> QED
  BY <1>1 DEF JobsHold, JobsWanted, Job

-----------------------------------------------------------------------------
(* What a step does to the handlers *)

\* The users' consent only grows.
ConsentGrows ==
  \A d \in Device : consent[d] \subseteq consent'[d] /\ manual[d] \subseteq manual'[d]

LEMMA JobsStill ==
  ASSUME JobsHold, ConsentGrows, UNCHANGED job
  PROVE  JobsHold'
<1>1. ASSUME NEW s \in Slot, job[s] # Free
      PROVE  job[s].at \in Device /\ job[s].to \in Device
  BY <1>1 DEF JobsHold, Job
<1> QED
  BY <1>1 DEF JobsHold, JobsWanted, ConsentGrows

\* A handler goes on.
LEMMA GotoKeeps ==
  ASSUME JobsHold, NEW s \in Slot, job[s].step \in Steps,
         NEW step \in Steps, Goto(s, step), UNCHANGED consent,
         step \in Told => job[s].at \in consent[job[s].to]
  PROVE  JobsHold'
<1>1. job[s] # Free /\ job[s] \in Job /\ job[s].to \in consent[job[s].at]
  BY BusyFacts
<1>2. /\ job'[s] = [job[s] EXCEPT !.step = step]
      /\ \A t \in Slot \ {s} : job'[t] = job[t]
  BY DEF Goto, JobsHold
<1>3. /\ job'[s] \in Job /\ job'[s].step = step
      /\ job'[s].at = job[s].at /\ job'[s].to = job[s].to
      /\ job'[s].loop = job[s].loop
  BY <1>1, <1>2 DEF Job
<1>4. job' \in [Slot -> Job \cup {Free}]
  BY <1>3 DEF Goto, JobsHold
<1>5. JobsWanted'
  BY <1>1, <1>2, <1>3 DEF JobsHold, JobsWanted
<1>6. \A x, y \in Slot : job'[x].loop /\ job'[y].loop /\ x # y =>
        <<job'[x].at, job'[x].to>> # <<job'[y].at, job'[y].to>>
  <2>1. \A t \in Slot : /\ job'[t].at = job[t].at /\ job'[t].to = job[t].to
                       /\ job'[t].loop = job[t].loop
    BY <1>2, <1>3
  <2> QED
    BY <2>1 DEF JobsHold
<1> QED
  BY <1>4, <1>5, <1>6 DEF JobsHold

\* A handler ends.
LEMMA DoneKeeps ==
  ASSUME JobsHold, NEW s \in Slot, Done(s), UNCHANGED consent
  PROVE  JobsHold'
<1>1. /\ job'[s] = Free /\ \A t \in Slot \ {s} : job'[t] = job[t]
      /\ job' \in [Slot -> Job \cup {Free}]
  BY DEF Done, JobsHold
<1> QED
  BY <1>1, FreeFacts DEF JobsHold, JobsWanted

\* A handler starts for a user who wants the friendship.
LEMMA StartKeeps ==
  ASSUME JobsHold, ConsentGrows, NEW d \in Device, NEW p \in Device,
         NEW step \in Steps \ Told, NEW loop \in BOOLEAN,
         Start(d, p, step, loop), p \in consent'[d],
         loop => \A s \in Slot :
                   ~(job[s].loop /\ job[s].at = d /\ job[s].to = p)
  PROVE  JobsHold'
<1> DEFINE s0 == CHOOSE s \in FreeSlots : TRUE
           new == [at |-> d, to |-> p, step |-> step, loop |-> loop]
<1>1. s0 \in Slot /\ job' = [job EXCEPT ![s0] = new]
  BY DEF Start, FreeSlots
<1>2. /\ new \in Job /\ new.at = d /\ new.to = p
      /\ new.step = step /\ new.loop = loop
  BY DEF Job
<1> HIDE DEF s0, new
<1>3. job'[s0] = new /\ \A t \in Slot \ {s0} : job'[t] = job[t]
  BY <1>1 DEF JobsHold
<1>4. job' \in [Slot -> Job \cup {Free}]
  BY <1>1, <1>2 DEF JobsHold
<1>5. ASSUME NEW t \in Slot \ {s0}, job[t] # Free
      PROVE  /\ job[t].at \in Device /\ job[t].to \in Device
             /\ job[t].to \in consent'[job[t].at]
             /\ job[t].step \in Told => job[t].at \in consent'[job[t].to]
  BY <1>5 DEF JobsHold, JobsWanted, Job, ConsentGrows
<1>6. JobsWanted'
  BY <1>2, <1>3, <1>5 DEF JobsWanted
<1>7. \A x, y \in Slot : job'[x].loop /\ job'[y].loop /\ x # y =>
        <<job'[x].at, job'[x].to>> # <<job'[y].at, job'[y].to>>
  BY <1>2, <1>3 DEF JobsHold
<1> QED
  BY <1>4, <1>6, <1>7 DEF JobsHold

-----------------------------------------------------------------------------
(* What a step does to the tables *)

LEMMA RowsStill ==
  ASSUME RowsHold, ConsentGrows, UNCHANGED row
  PROVE  RowsHold'
  BY DEF RowsHold, RowsWanted, TrustIsMutual, Trusts, ConsentGrows

\* A row is written as the users want it.
LEMMA PutKeeps ==
  ASSUME RowsHold, ConsentGrows,
         NEW d \in Device, NEW p \in Device, NEW r \in Row, Put(d, p, r),
         r # "none" => p \in consent'[d],
         r \in {"trusted", "bare"} => p \in manual'[d] \/ d \in consent'[p]
  PROVE  RowsHold'
<1>1. row' \in [Device -> [Device -> Row]]
  BY DEF Put, RowsHold
<1>2. ASSUME NEW x \in Device, NEW y \in Device
      PROVE  row'[x][y] = IF x = d /\ y = p THEN r ELSE row[x][y]
  BY DEF Put, RowsHold
<1>3. RowsWanted'
  BY <1>2 DEF RowsWanted, RowsHold, ConsentGrows
<1>4. TrustIsMutual'
  BY <1>2 DEF TrustIsMutual, Trusts, RowsHold, ConsentGrows
<1> QED
  BY <1>1, <1>3, <1>4 DEF RowsHold

LEMMA RequestsStill ==
  ASSUME RequestsHold, ConsentGrows, UNCHANGED request
  PROVE  RequestsHold'
  BY DEF RequestsHold, RequestsWanted, ConsentGrows

LEMMA TakeKeeps ==
  ASSUME RequestsHold, NEW d \in Device, NEW p \in Device,
         request' = [request EXCEPT ![d] = @ \ {p}], UNCHANGED consent
  PROVE  RequestsHold'
  BY DEF RequestsHold, RequestsWanted

LEMMA StoreKeeps ==
  ASSUME RequestsHold, NEW d \in Device, NEW p \in Device,
         request' = [request EXCEPT ![p] = @ \cup {d}], UNCHANGED consent,
         p \in consent[d]
  PROVE  RequestsHold'
  BY DEF RequestsHold, RequestsWanted

-----------------------------------------------------------------------------
(* The steps *)

\* Consent and the bounds change only with the users.
LEMMA StillGrows == UNCHANGED <<consent, manual>> => ConsentGrows
  BY DEF ConsentGrows

LEMMA InitIInv == ASSUME Init PROVE IInv
<1>1. RowsHold
  BY DEF Init, RowsHold, RowsWanted, TrustIsMutual, Trusts, Row
<1>2. RequestsHold
  BY DEF Init, RequestsHold, RequestsWanted
<1>3. JobsHold
  BY FreeFacts DEF Init, JobsHold, JobsWanted
<1>4. RestType
  BY DEF Init, RestType
<1> QED
  BY <1>1, <1>2, <1>3, <1>4, Parts

\* What a user does.
LEMMA UserKeeps ==
  ASSUME IInv, NEW d \in Device, NEW p \in Device, User(d, p)
  PROVE  IInv'
<1> USE Parts, PartsNext
<1>1. ASSUME Acts(d, p), UNCHANGED manual \/ manual' = [manual EXCEPT ![d] = @ \cup {p}]
      PROVE  ConsentGrows /\ RestType' /\ p \in consent'[d]
  BY <1>1 DEF Acts, ConsentGrows, RestType
<1>2. ASSUME UNCHANGED <<faults, consent, manual>>, acts < MaxActs, acts' = acts + 1
      PROVE  ConsentGrows /\ RestType'
  BY <1>2 DEF ConsentGrows, RestType
<1>3. {"addCheck", "acceptRead", "ask"} \subseteq Steps \ Told
  BY DEF Steps, Told
<1>4. CASE AddFriend(d, p)
  <2>1. ConsentGrows /\ RestType' /\ p \in consent'[d]
    BY <1>1, <1>4 DEF AddFriend
  <2>2. JobsHold'
    BY <1>3, <1>4, <2>1, StartKeeps DEF AddFriend
  <2> QED
    BY <1>4, <2>1, <2>2, RowsStill, RequestsStill DEF AddFriend
<1>5. CASE AcceptRequest(d, p)
  <2>1. ConsentGrows /\ RestType' /\ p \in consent'[d]
    BY <1>1, <1>5 DEF AcceptRequest
  <2>2. JobsHold'
    BY <1>3, <1>5, <2>1, StartKeeps DEF AcceptRequest
  <2> QED
    BY <1>5, <2>1, <2>2, RowsStill, RequestsStill DEF AcceptRequest
<1>6. CASE RejectRequest(d, p)
  <2>1. ConsentGrows /\ RestType'
    BY <1>2, <1>6 DEF RejectRequest
  <2> QED
    BY <1>6, <2>1, RowsStill, JobsStill, TakeKeeps DEF RejectRequest
<1>7. CASE AddDevice(d, p)
  <2>1. ConsentGrows /\ RestType' /\ p \in consent'[d]
    BY <1>1, <1>7 DEF AddDevice
  <2>2. p \in manual'[d]
    BY <1>7 DEF AddDevice, RestType
  <2>3. RowsHold'
    BY <1>7, <2>1, <2>2, PutKeeps DEF AddDevice, Row
  <2> QED
    BY <1>7, <2>1, <2>3, RequestsStill, JobsStill DEF AddDevice
<1>8. CASE RemoveDevice(d, p)
  <2>1. ConsentGrows /\ RestType'
    BY <1>2, <1>8 DEF RemoveDevice
  <2>2. RowsHold'
    BY <1>8, <2>1, PutKeeps DEF RemoveDevice, Row
  <2> QED
    BY <1>8, <2>1, <2>2, RequestsStill, JobsStill DEF RemoveDevice
<1> QED
  BY <1>4, <1>5, <1>6, <1>7, <1>8 DEF User

\* The dial loop asks again, for a row that its user wanted.
LEMMA ResendKeeps ==
  ASSUME IInv, NEW d \in Device, NEW p \in Device, Resend(d, p)
  PROVE  IInv'
<1>1. ConsentGrows /\ UNCHANGED <<row, request>>
  BY StillGrows DEF Resend
<1>2. RestType'
  BY Parts DEF Resend, RestType
<1>3. p \in consent'[d]
  BY Parts DEF Resend, RowsHold, RowsWanted
<1>4. "ask" \in Steps \ Told
  BY DEF Steps, Told
<1>5. JobsHold'
  BY <1>1, <1>3, <1>4, Parts, StartKeeps DEF Resend
<1> QED
  BY <1>1, <1>2, <1>5, Parts, PartsNext, RowsStill, RequestsStill

LEMMA BreakOffKeeps ==
  ASSUME IInv, NEW s \in Slot, BreakOff(s)
  PROVE  IInv'
<1>1. ConsentGrows /\ UNCHANGED <<row, request>>
  BY StillGrows DEF BreakOff
<1>2. RestType'
  BY Parts DEF BreakOff, RestType
<1>3. JobsHold'
  BY Parts, DoneKeeps DEF BreakOff
<1> QED
  BY <1>1, <1>2, <1>3, Parts, PartsNext, RowsStill, RequestsStill

\* The steps that only look: the handler goes on to a step for which it has
\* seen enough, or ends.
LEMMA LookKeeps ==
  ASSUME RowsHold, RequestsHold, JobsHold, NEW s \in Slot,
         NEW d, NEW p, d = job[s].at, p = job[s].to, UNCHANGED consent,
         \/ AddChecks(s, d, p) \/ AddLooksUp(s, d, p) \/ Asked(s, d, p)
         \/ RefreshReads(s, d, p) \/ Answered(s, d, p) \/ AcceptReads(s, d, p)
         \/ Notified(s, d, p) \/ NotifyReads(s, d, p)
  PROVE  JobsHold' /\ UNCHANGED <<row, request>>
<1>1. job[s].step \in Steps /\ UNCHANGED <<row, request>>
  BY DEF AddChecks, AddLooksUp, Asked, RefreshReads, Answered, AcceptReads,
     Notified, NotifyReads, Steps
<1>2. /\ d \in Device /\ p \in Device /\ p \in consent[d]
      /\ job[s].step \in Told => d \in consent[p]
  BY <1>1, BusyFacts
<1>3. ASSUME NEW step \in Steps, Goto(s, step), step \in Told => d \in consent[p]
      PROVE  JobsHold'
  BY <1>1, <1>3, GotoKeeps
<1>4. ASSUME Done(s) PROVE JobsHold'
  BY <1>4, DoneKeeps
<1>5. CASE AddChecks(s, d, p) \/ AddLooksUp(s, d, p)
  <2>1. {"addLookup", "acceptRead", "addPut"} \subseteq Steps \ Told
    BY DEF Steps, Told
  <2> QED
    BY <1>3, <1>4, <1>5, <2>1 DEF AddChecks, AddLooksUp
<1>6. CASE Asked(s, d, p)
  <2>1. "refreshRead" \in Steps /\ "record" \in Steps \ Told
    BY DEF Steps, Told
  <2>2. Trusts(p, d) => d \in consent[p]
    BY <1>2 DEF Trusts, RowsHold, RowsWanted
  <2> QED
    BY <1>3, <1>6, <2>1, <2>2 DEF Asked
<1>7. CASE AcceptReads(s, d, p)
  <2>1. "acceptPut" \in Steps
    BY DEF Steps
  <2>2. p \in request[d] => d \in consent[p]
    BY <1>2 DEF RequestsHold, RequestsWanted
  <2> QED
    BY <1>3, <1>4, <1>7, <2>1, <2>2 DEF AcceptReads
<1>8. CASE RefreshReads(s, d, p) \/ Answered(s, d, p)
           \/ Notified(s, d, p) \/ NotifyReads(s, d, p)
  <2>1. job[s].step \in Told
    BY <1>8 DEF RefreshReads, Answered, Notified, NotifyReads, Told
  <2>2. {"refreshPut", "answer", "apply", "notifyRead", "notifyApply"}
          \subseteq Steps
    BY DEF Steps
  <2> QED
    BY <1>2, <1>3, <1>4, <1>8, <2>1, <2>2
       DEF RefreshReads, Answered, Notified, NotifyReads
<1> QED
  BY <1>1, <1>5, <1>6, <1>7, <1>8

\* The steps that write: what the handler has seen still holds.
LEMMA WriteKeeps ==
  ASSUME RowsHold, RequestsHold, JobsHold, NEW s \in Slot,
         NEW d, NEW p, d = job[s].at, p = job[s].to,
         UNCHANGED <<consent, manual>>,
         \/ AddPuts(s, d, p) \/ Records(s, d, p) \/ RefreshPuts(s, d, p)
         \/ Applies(s, d, p) \/ AcceptPuts(s, d, p) \/ AcceptClears(s, d, p)
         \/ NotifyApplies(s, d, p)
  PROVE  RowsHold' /\ RequestsHold' /\ JobsHold'
<1>1. job[s].step \in Steps
  BY DEF AddPuts, Records, RefreshPuts, Applies, AcceptPuts, AcceptClears,
     NotifyApplies, Steps
<1>2. /\ d \in Device /\ p \in Device /\ p \in consent[d]
      /\ job[s].step \in Told => d \in consent[p]
  BY <1>1, BusyFacts
<1>3. ASSUME NEW step \in Steps, Goto(s, step), step \in Told => d \in consent[p]
      PROVE  JobsHold'
  BY <1>1, <1>3, GotoKeeps
<1>4. ASSUME Done(s) PROVE JobsHold'
  BY <1>4, DoneKeeps
<1>5. ConsentGrows
  BY StillGrows
<1>6. ASSUME UNCHANGED request PROVE RequestsHold'
  BY <1>5, <1>6, RequestsStill
<1>7. ASSUME UNCHANGED row PROVE RowsHold'
  BY <1>5, <1>7, RowsStill
<1>8. {"pending", "trusted"} \subseteq Row
  BY DEF Row
<1>9. ASSUME d \in consent[p], Put(d, p, "trusted") \/ Put(p, d, "trusted")
      PROVE  RowsHold'
  BY <1>2, <1>5, <1>8, <1>9, PutKeeps
<1>10. CASE AddPuts(s, d, p)
  <2>1. "ask" \in Steps \ Told
    BY DEF Steps, Told
  <2>2. RowsHold'
    BY <1>2, <1>5, <1>8, <1>10, PutKeeps DEF AddPuts
  <2> QED
    BY <1>3, <1>6, <1>10, <2>1, <2>2 DEF AddPuts
<1>11. CASE Records(s, d, p)
  <2>1. RequestsHold'
    BY <1>2, <1>11, StoreKeeps DEF Records
  <2> QED
    BY <1>4, <1>7, <1>11, <2>1 DEF Records
<1>12. CASE RefreshPuts(s, d, p) \/ AcceptPuts(s, d, p)
  <2>1. job[s].step \in Told /\ {"answer", "acceptClear"} \subseteq Steps
    BY <1>12 DEF RefreshPuts, AcceptPuts, Told, Steps
  <2> QED
    BY <1>2, <1>3, <1>6, <1>9, <1>12, <2>1 DEF RefreshPuts, AcceptPuts
<1>13. CASE Applies(s, d, p) \/ NotifyApplies(s, d, p)
  <2>1. job[s].step \in Told
    BY <1>13 DEF Applies, NotifyApplies, Told
  <2> QED
    BY <1>2, <1>4, <1>6, <1>9, <1>13, <2>1 DEF Applies, NotifyApplies
<1>14. CASE AcceptClears(s, d, p)
  <2>1. job[s].step \in Told /\ "notify" \in Steps
    BY <1>14 DEF AcceptClears, Told, Steps
  <2>2. RequestsHold'
    BY <1>2, <1>14, TakeKeeps DEF AcceptClears
  <2> QED
    BY <1>2, <1>3, <1>4, <1>7, <1>14, <2>1, <2>2 DEF AcceptClears
<1> QED
  BY <1>10, <1>11, <1>12, <1>13, <1>14

LEMMA StepKeeps ==
  ASSUME IInv, NEW s \in Slot, Step(s)
  PROVE  IInv'
<1> DEFINE d == job[s].at
           p == job[s].to
<1>1. UNCHANGED <<acts, faults, consent, manual>>
  BY DEF Step
<1>2. ConsentGrows /\ RestType'
  BY <1>1, Parts, StillGrows DEF RestType
<1>3. CASE \/ AddChecks(s, d, p) \/ AddLooksUp(s, d, p) \/ Asked(s, d, p)
           \/ RefreshReads(s, d, p) \/ Answered(s, d, p)
           \/ AcceptReads(s, d, p) \/ Notified(s, d, p) \/ NotifyReads(s, d, p)
  <2>1. JobsHold' /\ UNCHANGED <<row, request>>
    BY <1>1, <1>3, Parts, LookKeeps
  <2> QED
    BY <1>2, <2>1, Parts, PartsNext, RowsStill, RequestsStill
<1>4. CASE \/ AddPuts(s, d, p) \/ Records(s, d, p) \/ RefreshPuts(s, d, p)
           \/ Applies(s, d, p) \/ AcceptPuts(s, d, p) \/ AcceptClears(s, d, p)
           \/ NotifyApplies(s, d, p)
  <2>1. RowsHold' /\ RequestsHold' /\ JobsHold'
    BY <1>1, <1>4, Parts, WriteKeeps
  <2> QED
    BY <1>2, <2>1, PartsNext
<1> QED
  BY <1>3, <1>4 DEF Step

-----------------------------------------------------------------------------

\* Every state of the protocol is one the users wanted.
THEOREM Invariance == Spec => []IInv
<1>1. ASSUME IInv, UNCHANGED vars PROVE IInv'
  BY <1>1 DEF vars, IInv, TypeOK, Wanted, RowsWanted, RequestsWanted,
     JobsWanted, TrustIsMutual, Trusts
<1>2. IInv /\ [Next]_vars => IInv'
  BY <1>1, UserKeeps, ResendKeeps, StepKeeps, BreakOffKeeps DEF Next
<1> QED
  BY InitIInv, <1>2, PTL DEF Spec

\* The tables and handlers have their types, and the dial loop has one handler
\* per pair.
THEOREM TypeCorrect == Spec => []TypeOK
<1>1. IInv => TypeOK
  BY DEF IInv
<1> QED
  BY Invariance, <1>1, PTL

\* No interleaving of handlers makes a device trust one its user did not want.
THEOREM TrustIsWantedHolds == Spec => []TrustIsWanted
<1>1. IInv => TrustIsWanted
  BY DEF IInv, Wanted, RowsWanted, TrustIsWanted, Trusts
<1> QED
  BY Invariance, <1>1, PTL

\* Nor one whose user did not want it, unless it was added by its ID.
THEOREM TrustIsMutualHolds == Spec => []TrustIsMutual
<1>1. IInv => TrustIsMutual
  BY DEF IInv
<1> QED
  BY Invariance, <1>1, PTL
-----------------------------------------------------------------------------
(* Trust is never one-sided for good.  Settles needs that a device which is *)
(* trusted has a row for the other, so that its loop asks again.            *)

\* A device that is trusted for its answers, not by its ID, has not forgotten.
Remembered(d, p) ==
  Trusts(p, d) /\ d \notin manual[p] => row[d][p] # "none"

\* Handlers that show that d has had a row for p: d's after it asked or accepted,
\* p's after it was told.
Shows(d, p, j) ==
  \/ /\ j.at = d /\ j.to = p
     /\ j.step \in Steps \ {"addCheck", "addLookup", "addPut", "acceptRead",
                           "acceptPut"}
  \/ /\ j.at = p /\ j.to = d
     /\ j.step \in {"refreshRead", "refreshPut", "answer", "apply", "acceptPut"}

\* Without a row there is no trace: no trust, no request, no handler.
NoTrace(d, p) ==
  /\ ~(Trusts(p, d) /\ d \notin manual[p])
  /\ d \notin request[p]
  /\ \A s \in Slot : ~Shows(d, p, job[s])

Traced(d, p) == row[d][p] = "none" => NoTrace(d, p)

\* A job that has ended or begins shows nothing, unless it asks.
LEMMA ShowsFacts ==
  ASSUME NEW d, NEW p, NEW j, ~Shows(d, p, j), d # p
  PROVE  /\ ~Shows(d, p, Free)
         /\ j.at = d /\ j.to = p /\ j.step \in Steps =>
              j.step \in {"addCheck", "addLookup", "addPut", "acceptRead",
                         "acceptPut"}
         /\ j.at = p /\ j.to = d =>
              j.step \notin {"refreshRead", "refreshPut", "answer", "apply",
                            "acceptPut"}
BY DEF Shows, Free, Steps

\* A row goes only when its user removes it.
LEMMA RowStays ==
  ASSUME IInv, NEW d \in Device, NEW p \in Device, [Next]_vars,
         [~RemoveDevice(d, p)]_vars, row'[d][p] = "none"
  PROVE  row[d][p] = "none"
<1>0. row \in [Device -> [Device -> Row]]
  BY DEF IInv, TypeOK
<1>1. ASSUME NEW a \in Device, NEW b \in Device, NEW r \in Row \ {"none"},
             Put(a, b, r)
      PROVE  row[d][p] = "none"
  BY <1>0, <1>1 DEF Put
<1>2. {"pending", "trusted", "bare"} \subseteq Row \ {"none"}
  BY DEF Row
<1>3. CASE UNCHANGED row
  BY <1>3
<1>4. ASSUME NEW a \in Device, NEW b \in Device, RemoveDevice(a, b)
      PROVE  row[d][p] = "none"
  <2>1. CASE <<a, b>> = <<d, p>>
    BY <1>3, <1>4, <2>1 DEF vars
  <2>2. CASE <<a, b>> # <<d, p>>
    BY <1>0, <1>4, <2>2 DEF RemoveDevice, Put
  <2>3. QED BY <2>1, <2>2
<1>5. ASSUME NEW a \in Device, NEW b \in Device, User(a, b) \/ Resend(a, b)
      PROVE  row[d][p] = "none"
  BY <1>1, <1>2, <1>3, <1>4, <1>5
     DEF User, Resend, AddFriend, AcceptRequest, RejectRequest, AddDevice
<1>6. ASSUME NEW s \in Slot, Step(s) PROVE row[d][p] = "none"
  <2> DEFINE a == job[s].at
             b == job[s].to
  <2>1. CASE UNCHANGED row
    BY <1>3, <2>1
  <2>2. CASE \/ AddPuts(s, a, b) \/ RefreshPuts(s, a, b) \/ Applies(s, a, b)
             \/ AcceptPuts(s, a, b) \/ NotifyApplies(s, a, b)
    <3>1. job[s].step \in Steps
      BY <2>2 DEF AddPuts, RefreshPuts, Applies, AcceptPuts, NotifyApplies, Steps
    <3>2. a \in Device /\ b \in Device
      BY <3>1, BusyFacts, Parts
    <3>3. QED BY <1>1, <1>2, <2>2, <3>2
              DEF AddPuts, RefreshPuts, Applies, AcceptPuts, NotifyApplies
  <2>3. QED
    BY <1>6, <2>1, <2>2
       DEF Step, AddChecks, AddLooksUp, Asked, Records, RefreshReads, Answered,
           AcceptReads, AcceptClears, Notified, NotifyReads
<1>7. ASSUME NEW s \in Slot, BreakOff(s) PROVE row[d][p] = "none"
  BY <1>3, <1>7 DEF BreakOff
<1>8. CASE UNCHANGED vars
  BY <1>3, <1>8 DEF vars
<1>9. QED BY <1>5, <1>6, <1>7, <1>8 DEF Next

\* What becomes of the handlers when one of them moves.
LEMMA OneMoves ==
  ASSUME IInv, NEW d, NEW p, NoTrace(d, p), NEW s \in Slot, NEW j,
         job' = [job EXCEPT ![s] = j], ~Shows(d, p, j)
  PROVE  \A t \in Slot : ~Shows(d, p, job'[t])
BY DEF IInv, TypeOK, NoTrace

LEMMA UserTraces ==
  ASSUME IInv, NEW d \in Device, NEW p \in Device \ {d}, NoTrace(d, p),
         row[d][p] = "none", row'[d][p] = "none",
         NEW a \in Device, NEW b \in Device \ {a}, User(a, b) \/ Resend(a, b)
  PROVE  NoTrace(d, p)'
<1>0. /\ row \in [Device -> [Device -> Row]]
      /\ request \in [Device -> SUBSET Device]
      /\ manual \in [Device -> SUBSET Device]
  BY DEF IInv, TypeOK
<1>1. ASSUME NEW step, NEW loop, Start(a, b, step, loop),
             \/ step \in {"addCheck", "acceptRead"}
             \/ step = "ask" /\ <<a, b>> # <<d, p>>
      PROVE  \A t \in Slot : ~Shows(d, p, job'[t])
  <2> DEFINE s0 == CHOOSE s \in FreeSlots : TRUE
             j == [at |-> a, to |-> b, step |-> step, loop |-> loop]
  <2>1. s0 \in Slot /\ job' = [job EXCEPT ![s0] = j]
    BY <1>1 DEF Start, FreeSlots
  <2>2. ~Shows(d, p, j)
    BY <1>1 DEF Shows
  <2> HIDE DEF s0, j
  <2>3. QED BY <2>1, <2>2, OneMoves
<1>2. CASE AddFriend(a, b) \/ AcceptRequest(a, b)
  <2>1. \A t \in Slot : ~Shows(d, p, job'[t])
    BY <1>1, <1>2 DEF AddFriend, AcceptRequest
  <2>2. UNCHANGED <<row, request, manual>>
    BY <1>2 DEF AddFriend, AcceptRequest
  <2>3. QED BY <2>1, <2>2 DEF NoTrace, Trusts
<1>3. CASE RejectRequest(a, b)
  BY <1>0, <1>3 DEF RejectRequest, NoTrace, Trusts
<1>4. CASE AddDevice(a, b)
  <2>1. <<a, b>> # <<d, p>> /\ UNCHANGED <<request, job>>
    BY <1>0, <1>4 DEF AddDevice, Put
  <2>2. CASE <<a, b>> = <<p, d>>
    BY <1>0, <1>4, <2>1, <2>2 DEF AddDevice, NoTrace
  <2>3. CASE <<a, b>> # <<p, d>>
    <3>1. row'[p][d] = row[p][d] /\ manual[p] \subseteq manual'[p]
      BY <1>0, <1>4, <2>3 DEF AddDevice, Put
    <3>2. QED BY <2>1, <3>1 DEF NoTrace, Trusts
  <2>4. QED BY <2>2, <2>3
<1>5. CASE RemoveDevice(a, b)
  <2>1. row'[p][d] \in {row[p][d], "none"} /\ UNCHANGED <<request, job, manual>>
    BY <1>0, <1>5 DEF RemoveDevice, Put
  <2>2. QED BY <2>1 DEF NoTrace, Trusts
<1>6. CASE Resend(a, b)
  <2>1. <<a, b>> # <<d, p>> /\ UNCHANGED <<row, request, manual>>
    BY <1>6 DEF Resend
  <2>2. \A t \in Slot : ~Shows(d, p, job'[t])
    BY <1>1, <1>6, <2>1 DEF Resend
  <2>3. QED BY <2>1, <2>2 DEF NoTrace, Trusts
<1>7. QED BY <1>2, <1>3, <1>4, <1>5, <1>6 DEF User

\* A step of a handler.  One that could show something has seen a row, or a
\* request, that is not there; one that has a row to write is no step.
LEMMA StepTraces ==
  ASSUME IInv, NEW d \in Device, NEW p \in Device \ {d}, NoTrace(d, p),
         row[d][p] = "none", row'[d][p] = "none", NEW s \in Slot, Step(s)
  PROVE  NoTrace(d, p)'
<1> DEFINE a == job[s].at
           b == job[s].to
<1>0. /\ row \in [Device -> [Device -> Row]]
      /\ request \in [Device -> SUBSET Device]
      /\ job[s].step \in Steps /\ manual' = manual
      /\ ~Shows(d, p, job[s])
  BY DEF IInv, TypeOK, NoTrace, Step, AddChecks, AddLooksUp, AddPuts, Asked,
     Records, RefreshReads, RefreshPuts, Answered, Applies, AcceptReads,
     AcceptPuts, AcceptClears, Notified, NotifyReads, NotifyApplies, Steps
<1>1. a \in Device /\ b \in Device /\ job[s] \in Job
  BY <1>0, BusyFacts, Parts
<1>2. ~Trusts(d, p) /\ d \notin request[p]
  BY DEF NoTrace, Trusts
<1>3. ASSUME Done(s) PROVE \A t \in Slot : ~Shows(d, p, job'[t])
  BY <1>0, <1>3, OneMoves, ShowsFacts DEF Done
<1>4. ASSUME NEW step \in Steps, Goto(s, step),
             a = d /\ b = p => step \in {"addLookup", "addPut", "acceptRead",
                                       "acceptPut"},
             a = p /\ b = d => step \notin {"refreshRead", "refreshPut",
                                          "answer", "apply", "acceptPut"}
      PROVE  \A t \in Slot : ~Shows(d, p, job'[t])
  <2> DEFINE j == [job[s] EXCEPT !.step = step]
  <2>1. job' = [job EXCEPT ![s] = j]
    BY <1>4 DEF Goto
  <2>2. j.at = a /\ j.to = b /\ j.step = step
    BY <1>1 DEF Job
  <2>3. ~Shows(d, p, j)
    BY <1>4, <2>2 DEF Shows
  <2> HIDE DEF j
  <2>4. QED BY <2>1, <2>3, OneMoves
<1>5. /\ a = d /\ b = p => job[s].step \in {"addCheck", "addLookup", "addPut",
                                          "acceptRead", "acceptPut"}
      /\ a = p /\ b = d => job[s].step \notin {"refreshRead", "refreshPut",
                                             "answer", "apply", "acceptPut"}
  BY <1>0, ShowsFacts
<1>6. ASSUME UNCHANGED <<row, request>>, \A t \in Slot : ~Shows(d, p, job'[t])
      PROVE  NoTrace(d, p)'
  BY <1>0, <1>6 DEF NoTrace, Trusts
<1>7. CASE AddChecks(s, a, b) \/ AddLooksUp(s, a, b) \/ AcceptReads(s, a, b)
  BY <1>2, <1>3, <1>4, <1>6, <1>7
     DEF AddChecks, AddLooksUp, AcceptReads, Steps
<1>8. CASE Asked(s, a, b) \/ RefreshReads(s, a, b) \/ Answered(s, a, b)
           \/ Notified(s, a, b) \/ NotifyReads(s, a, b)
  BY <1>2, <1>3, <1>4, <1>5, <1>6, <1>8
     DEF Asked, RefreshReads, Answered, Notified, NotifyReads, Steps
<1>9. CASE AddPuts(s, a, b) \/ AcceptPuts(s, a, b)
  <2>1. <<a, b>> # <<d, p>>
    BY <1>0, <1>1, <1>9 DEF AddPuts, AcceptPuts, Put
  <2>2. a = p /\ b = d => AddPuts(s, a, b)
    BY <1>5, <1>9 DEF AcceptPuts
  <2>3. Trusts(p, d)' => Trusts(p, d)
    BY <1>0, <1>1, <1>9, <2>2 DEF AddPuts, AcceptPuts, Put, Trusts
  <2>4. \A t \in Slot : ~Shows(d, p, job'[t])
    BY <1>4, <1>9, <2>1 DEF AddPuts, AcceptPuts, Steps
  <2>5. QED BY <1>0, <1>9, <2>3, <2>4 DEF NoTrace, AddPuts, AcceptPuts
<1>10. CASE Records(s, a, b)
  <2>1. <<a, b>> # <<d, p>>
    BY <1>5, <1>10 DEF Records
  <2>2. d \notin request'[p] /\ row' = row
    BY <1>0, <1>1, <1>2, <1>10, <2>1 DEF Records
  <2>3. QED BY <1>0, <1>3, <1>10, <2>2 DEF Records, NoTrace, Trusts
<1>11. CASE RefreshPuts(s, a, b) \/ NotifyApplies(s, a, b)
  <2>1. <<b, a>> # <<d, p>>
    BY <1>0, <1>1, <1>11 DEF RefreshPuts, NotifyApplies, Put
  <2>2. <<a, b>> # <<d, p>>
    BY <1>5, <1>11 DEF RefreshPuts, NotifyApplies
  <2>3. row'[p][d] = row[p][d] /\ request' = request
    BY <1>0, <1>1, <1>11, <2>2 DEF RefreshPuts, NotifyApplies, Put
  <2>4. \A t \in Slot : ~Shows(d, p, job'[t])
    BY <1>3, <1>4, <1>11, <2>1, <2>2 DEF RefreshPuts, NotifyApplies, Steps
  <2>5. QED BY <1>0, <2>3, <2>4 DEF NoTrace, Trusts
<1>12. CASE Applies(s, a, b)
  <2>1. <<a, b>> # <<p, d>>
    BY <1>5, <1>12 DEF Applies
  <2>2. row'[p][d] = row[p][d] /\ request' = request
    BY <1>0, <1>1, <1>12, <2>1 DEF Applies, Put
  <2>3. QED BY <1>0, <1>3, <1>12, <2>2 DEF Applies, NoTrace, Trusts
<1>13. CASE AcceptClears(s, a, b)
  <2>1. <<a, b>> # <<d, p>>
    BY <1>5, <1>13 DEF AcceptClears
  <2>2. d \notin request'[p] /\ row' = row
    BY <1>0, <1>1, <1>2, <1>13 DEF AcceptClears
  <2>3. \A t \in Slot : ~Shows(d, p, job'[t])
    BY <1>3, <1>4, <1>13, <2>1 DEF AcceptClears, Steps
  <2>4. QED BY <1>0, <2>2, <2>3 DEF NoTrace, Trusts
<1>14. QED
  BY <1>7, <1>8, <1>9, <1>10, <1>11, <1>12, <1>13 DEF Step

\* As long as its user does not remove the other, a device that is trusted for
\* what it asked or accepted keeps a row for the one that trusts it: it trusts
\* that one too or asks it again (daemon.remoteDialLoop), so no handler that
\* breaks off leaves trust on one side for good.
THEOREM FriendsAreRemembered ==
  ASSUME NEW d \in Device, NEW p \in Device \ {d}
  PROVE  Spec /\ [][~RemoveDevice(d, p)]_vars => []Remembered(d, p)
<1>1. ASSUME IInv, Traced(d, p), [Next]_vars, [~RemoveDevice(d, p)]_vars
      PROVE  Traced(d, p)'
  <2> SUFFICES ASSUME row'[d][p] = "none" PROVE NoTrace(d, p)'
    BY DEF Traced
  <2>1. row[d][p] = "none" /\ NoTrace(d, p)
    BY <1>1, RowStays DEF Traced
  <2>2. ASSUME NEW a \in Device, NEW b \in Device \ {a}, User(a, b) \/ Resend(a, b)
        PROVE  NoTrace(d, p)'
    BY <1>1, <2>1, <2>2, UserTraces
  <2>3. ASSUME NEW s \in Slot, Step(s) PROVE NoTrace(d, p)'
    BY <1>1, <2>1, <2>3, StepTraces
  <2>4. ASSUME NEW s \in Slot, BreakOff(s) PROVE NoTrace(d, p)'
    <3>1. ~Shows(d, p, job[s])
      BY <2>1 DEF NoTrace
    <3>2. \A t \in Slot : ~Shows(d, p, job'[t])
      BY <1>1, <2>1, <2>4, <3>1, OneMoves, ShowsFacts DEF BreakOff, Done
    <3>3. QED BY <2>1, <2>4, <3>2 DEF BreakOff, NoTrace, Trusts
  <2>5. CASE UNCHANGED vars
    BY <2>1, <2>5 DEF vars, NoTrace, Trusts
  <2>6. QED BY <1>1, <2>2, <2>3, <2>4, <2>5 DEF Next
<1>2. ASSUME Init PROVE Traced(d, p)
  <2>1. row[p][d] = "none" /\ request[p] = {} /\ \A s \in Slot : job[s] = Free
    BY <1>2 DEF Init
  <2>2. ~Shows(d, p, Free)
    BY DEF Shows, Free, Steps
  <2>3. QED BY <2>1, <2>2 DEF Traced, NoTrace, Trusts
<1>3. Traced(d, p) => Remembered(d, p)
  BY DEF Traced, NoTrace, Remembered
<1>4. QED BY Invariance, <1>1, <1>2, <1>3, PTL DEF Spec
=============================================================================
