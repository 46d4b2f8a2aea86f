----------------------------- MODULE Friendship -----------------------------
(***************************************************************************)
(* How devices come to trust each other: invite codes, friend requests,    *)
(* acceptances and their delivery (syncengine/friends.go), the daemon that *)
(* answers them (daemon.serveConn) and the loop that sends them again      *)
(* (daemon.remoteDialLoop).                                                *)
(*                                                                         *)
(* Every handler reads the device table and writes it back in separate     *)
(* statements, without a transaction; so a handler here is a job that      *)
(* takes one store operation or one message at a time, and jobs of both    *)
(* devices interleave.  A step that is named for a message is taken by the *)
(* other device.                                                           *)
(***************************************************************************)
EXTENDS Integers

CONSTANTS
  Device,
  Slot,      \* bound: how many handlers run at a time
  MaxActs,   \* bound: how many things the users do
  MaxFaults  \* bound: how many handlers break off, or lose their connection

ASSUME BoundAssumption == MaxActs \in Nat /\ MaxFaults \in Nat

\* A row of the device table: absent, asked to be a friend (PendingOutgoing),
\* trusted with the endpoints to dial it at, or trusted without any.
Row == {"none", "pending", "trusted", "bare"}

VARIABLES
  row,      \* row[d][p]: d's row for p
  request,  \* request[d]: the devices whose friend request d has stored
  job,      \* job[s]: a handler in progress, or Free
  acts, faults,
  consent,  \* consent[d]: whom d's user ever asked, accepted or added
  manual    \* manual[d]: whom d's user ever added by device ID

vars == <<row, request, job, acts, faults, consent, manual>>

\* Where a handler of at is that concerns to.
Steps == {"addCheck", "addLookup", "addPut", "ask", "record", "refreshRead",
          "refreshPut", "answer", "apply", "acceptRead", "acceptPut",
          "acceptClear", "notify", "notifyRead", "notifyApply"}

Job == [at : Device, to : Device, step : Steps, loop : BOOLEAN]

Free == [at |-> "", to |-> "", step |-> "free", loop |-> FALSE]

Init ==
  /\ row = [d \in Device |-> [p \in Device |-> "none"]]
  /\ request = [d \in Device |-> {}]
  /\ job = [s \in Slot |-> Free]
  /\ acts = 0 /\ faults = 0
  /\ consent = [d \in Device |-> {}]
  /\ manual = [d \in Device |-> {}]

Trusts(d, p) == row[d][p] \in {"trusted", "bare"}

FreeSlots == {s \in Slot : job[s] = Free}

\* d begins to handle something that concerns p.
Start(d, p, step, loop) ==
  /\ FreeSlots # {}
  /\ job' = [job EXCEPT ![CHOOSE s \in FreeSlots : TRUE] =
               [at |-> d, to |-> p, step |-> step, loop |-> loop]]

Goto(s, step) == job' = [job EXCEPT ![s].step = step]
Done(s) == job' = [job EXCEPT ![s] = Free]

Put(d, p, r) == row' = [row EXCEPT ![d][p] = r]

-----------------------------------------------------------------------------
(* The users, through the control API *)

Acts(d, p) ==
  /\ acts < MaxActs
  /\ acts' = acts + 1
  /\ consent' = [consent EXCEPT ![d] = @ \cup {p}]
  /\ UNCHANGED faults

\* Paste p's invite code.
AddFriend(d, p) ==
  /\ Acts(d, p)
  /\ Start(d, p, "addCheck", FALSE)
  /\ UNCHANGED <<row, request, manual>>

AcceptRequest(d, p) ==
  /\ p \in request[d]
  /\ Acts(d, p)
  /\ Start(d, p, "acceptRead", FALSE)
  /\ UNCHANGED <<row, request, manual>>

RejectRequest(d, p) ==
  /\ acts < MaxActs
  /\ acts' = acts + 1
  /\ p \in request[d]
  /\ request' = [request EXCEPT ![d] = @ \ {p}]
  /\ UNCHANGED <<row, job, faults, consent, manual>>

\* Type in p's device ID: trusted at once, with no endpoints, whatever was
\* known of p before.
AddDevice(d, p) ==
  /\ Acts(d, p)
  /\ Put(d, p, "bare")
  /\ manual' = [manual EXCEPT ![d] = @ \cup {p}]
  /\ UNCHANGED <<request, job>>

RemoveDevice(d, p) ==
  /\ acts < MaxActs
  /\ acts' = acts + 1
  /\ row[d][p] # "none"
  /\ Put(d, p, "none")
  /\ UNCHANGED <<request, job, faults, consent, manual>>

User(d, p) ==
  \/ AddFriend(d, p) \/ AcceptRequest(d, p) \/ RejectRequest(d, p)
  \/ AddDevice(d, p) \/ RemoveDevice(d, p)

-----------------------------------------------------------------------------
(* Engine.AddFriendByCode *)

AddChecks(s, d, p) ==
  /\ job[s].step = "addCheck"
  /\ IF Trusts(d, p) THEN Done(s) ELSE Goto(s, "addLookup")
  /\ UNCHANGED <<row, request>>

\* A request from p is already here: accept it instead.
AddLooksUp(s, d, p) ==
  /\ job[s].step = "addLookup"
  /\ Goto(s, IF p \in request[d] THEN "acceptRead" ELSE "addPut")
  /\ UNCHANGED <<row, request>>

\* Mutant of AddPuts: the device is trusted before it has answered.
AddPutsTrusted(s, d, p) ==
  /\ job[s].step = "addPut"
  /\ Put(d, p, "trusted")
  /\ Goto(s, "ask")
  /\ UNCHANGED request

AddPuts(s, d, p) ==
  /\ job[s].step = "addPut"
  /\ Put(d, p, "pending")
  /\ Goto(s, "ask")
  /\ UNCHANGED request

(* Engine.SendFriendRequest, and the peer's answer to it *)

\* p accepts the connection and decides once how it will be served.
Asked(s, d, p) ==
  /\ job[s].step = "ask"
  /\ Goto(s, IF Trusts(p, d) THEN "refreshRead" ELSE "record")
  /\ UNCHANGED <<row, request>>

\* Mutant of Records: a request is accepted as it arrives.
RecordsTrusting(s, d, p) ==
  /\ job[s].step = "record"
  /\ Put(p, d, "trusted")
  /\ Done(s)
  /\ UNCHANGED request

\* p does not trust d: it stores the request, and its Ack ends the exchange.
Records(s, d, p) ==
  /\ job[s].step = "record"
  /\ request' = [request EXCEPT ![p] = @ \cup {d}]
  /\ Done(s)
  /\ UNCHANGED row

\* p trusts d: RefreshFriend reads d's row ...
RefreshReads(s, d, p) ==
  /\ job[s].step = "refreshRead"
  /\ Goto(s, IF Trusts(p, d) THEN "refreshPut" ELSE "answer")
  /\ UNCHANGED <<row, request>>

\* ... and writes it back with the endpoints of the request.
RefreshPuts(s, d, p) ==
  /\ job[s].step = "refreshPut"
  /\ Put(p, d, "trusted")
  /\ Goto(s, "answer")
  /\ UNCHANGED request

\* p's acceptance arrives; ApplyFriendResponse reads p's row.
Answered(s, d, p) ==
  /\ job[s].step = "answer"
  /\ IF row[d][p] = "pending" THEN Goto(s, "apply") ELSE Done(s)
  /\ UNCHANGED <<row, request>>

Applies(s, d, p) ==
  /\ job[s].step = "apply"
  /\ Put(d, p, "trusted")
  /\ Done(s)
  /\ UNCHANGED request

(* Engine.AcceptFriendRequest, and what the notified peer does *)

AcceptReads(s, d, p) ==
  /\ job[s].step = "acceptRead"
  /\ IF p \in request[d] THEN Goto(s, "acceptPut") ELSE Done(s)
  /\ UNCHANGED <<row, request>>

AcceptPuts(s, d, p) ==
  /\ job[s].step = "acceptPut"
  /\ Put(d, p, "trusted")
  /\ Goto(s, "acceptClear")
  /\ UNCHANGED request

\* The request is gone if another handler removed it: an error, and p is not
\* told.
AcceptClears(s, d, p) ==
  /\ job[s].step = "acceptClear"
  /\ request' = [request EXCEPT ![d] = @ \ {p}]
  /\ IF p \in request[d] THEN Goto(s, "notify") ELSE Done(s)
  /\ UNCHANGED row

\* p accepts the connection; a p that trusts d leaves the response unanswered.
Notified(s, d, p) ==
  /\ job[s].step = "notify"
  /\ IF Trusts(p, d) THEN Done(s) ELSE Goto(s, "notifyRead")
  /\ UNCHANGED <<row, request>>

NotifyReads(s, d, p) ==
  /\ job[s].step = "notifyRead"
  /\ IF row[p][d] = "pending" THEN Goto(s, "notifyApply") ELSE Done(s)
  /\ UNCHANGED <<row, request>>

NotifyApplies(s, d, p) ==
  /\ job[s].step = "notifyApply"
  /\ Put(p, d, "trusted")
  /\ Done(s)
  /\ UNCHANGED request

Step(s) ==
  LET d == job[s].at
      p == job[s].to
  IN  /\ \/ AddChecks(s, d, p) \/ AddLooksUp(s, d, p) \/ AddPuts(s, d, p)
         \/ Asked(s, d, p) \/ Records(s, d, p)
         \/ RefreshReads(s, d, p) \/ RefreshPuts(s, d, p)
         \/ Answered(s, d, p) \/ Applies(s, d, p)
         \/ AcceptReads(s, d, p) \/ AcceptPuts(s, d, p) \/ AcceptClears(s, d, p)
         \/ Notified(s, d, p) \/ NotifyReads(s, d, p) \/ NotifyApplies(s, d, p)
      /\ UNCHANGED <<acts, faults, consent, manual>>

-----------------------------------------------------------------------------

\* Mutant of Resend: beginSync's guard is gone.
ResendUnguarded(d, p) ==
  /\ row[d][p] = "pending"
  /\ Start(d, p, "ask", TRUE)
  /\ UNCHANGED <<row, request, acts, faults, consent, manual>>

\* Mutant of Resend: a peer is asked again only while it has not trusted us.
ResendUntilStored(d, p) ==
  /\ row[d][p] = "pending"
  /\ d \notin request[p]
  /\ ~Trusts(p, d)
  /\ \A s \in Slot : ~(job[s].loop /\ job[s].at = d /\ job[s].to = p)
  /\ Start(d, p, "ask", TRUE)
  /\ UNCHANGED <<row, request, acts, faults, consent, manual>>

\* The remote dial loop asks a pending device again; beginSync keeps the loop
\* to one handler per device.
Resend(d, p) ==
  /\ row[d][p] = "pending"
  /\ \A s \in Slot : ~(job[s].loop /\ job[s].at = d /\ job[s].to = p)
  /\ Start(d, p, "ask", TRUE)
  /\ UNCHANGED <<row, request, acts, faults, consent, manual>>

\* A handler breaks off: its connection is lost or times out, a store
\* operation fails, or a device stops.
BreakOff(s) ==
  /\ job[s] # Free
  /\ faults < MaxFaults
  /\ faults' = faults + 1
  /\ Done(s)
  /\ UNCHANGED <<row, request, acts, consent, manual>>

Next ==
  \/ \E d \in Device : \E p \in Device \ {d} : User(d, p) \/ Resend(d, p)
  \/ \E s \in Slot : Step(s) \/ BreakOff(s)

Spec == Init /\ [][Next]_vars

\* Handlers run on, and the loop's ticker fires every 30 seconds.
FairSpec ==
  /\ Spec
  /\ \A s \in Slot : WF_vars(Step(s))
  /\ \A d, p \in Device : WF_vars(d # p /\ Resend(d, p))

-----------------------------------------------------------------------------

\* The handlers of the dial loop are at most one per pair.
TypeOK ==
  /\ row \in [Device -> [Device -> Row]]
  /\ request \in [Device -> SUBSET Device]
  /\ consent \in [Device -> SUBSET Device]
  /\ manual \in [Device -> SUBSET Device]
  /\ acts \in 0 .. MaxActs /\ faults \in 0 .. MaxFaults
  /\ job \in [Slot -> Job \cup {Free}]
  /\ \A s, t \in Slot : job[s].loop /\ job[t].loop /\ s # t =>
       <<job[s].at, job[s].to>> # <<job[t].at, job[t].to>>

\* Trust is the user's doing: a device trusts another only if its own user
\* asked it, accepted it or added it.
TrustIsWanted ==
  \A d, p \in Device : Trusts(d, p) => p \in consent[d]

\* And, unless it was added by its ID, only if the other's user has wanted it
\* too: "a FriendResponse only creates trust if we previously sent that exact
\* device a friend request".
TrustIsMutual ==
  \A d, p \in Device : Trusts(d, p) /\ p \notin manual[d] => d \in consent[p]

\* A friendship that one side has accepted is completed on the other, however
\* the acceptance was lost: the requester asks again and is told.
Settles ==
  \A d, p \in Device :
    row[d][p] = "pending" /\ Trusts(p, d) ~> row[d][p] # "pending" \/ ~Trusts(p, d)

(* What comments and documents promise and the code does not do *)

\* "RefreshFriend updates a trusted device": it creates none.
RefreshOnlyUpdates ==
  [][\A s \in Slot : job[s].step = "refreshPut" /\ job'[s].step = "answer" =>
       Trusts(job[s].to, job[s].at)]_vars

\* Devices that became friends keep each other's endpoints: "Both sides now
\* trust each other and know each other's endpoints".
FriendsStayDialable ==
  [][\A d, p \in Device :
       row[d][p] = "trusted" /\ Trusts(d, p)' => row'[d][p] = "trusted"]_vars
=============================================================================
