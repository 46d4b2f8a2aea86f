------------------------------ MODULE Dialing ------------------------------
(***************************************************************************)
(* Whom a device dials, and when: daemon.dialLoop takes what mDNS finds,   *)
(* remoteDialLoop looks through the device table every 30 seconds, and     *)
(* both start rounds in goroutines of their own, one per peer at a time    *)
(* (beginSync, endSync).  A round tries the peer's addresses in turn,      *)
(* looks at the table before each, and pulls every folder over the first   *)
(* connection; with a device that was only asked to be a friend it repeats *)
(* the request.                                                            *)
(*                                                                         *)
(* What a pull does is FolderSync's subject, who enters the table is       *)
(* Friendship's; here both just happen.                                    *)
(***************************************************************************)
EXTENDS Integers, Sequences

CONSTANTS
  Self, Peer,  \* this device's ID, and the others'
  Address,
  List,        \* the endpoint lists the table may hold
  Folder,
  Slot,        \* bound: how many rounds run at a time, one per peer or more
  MaxActs,     \* bound: how often users, friends and the network change things
  MaxFound     \* bound: how many announcements mDNS hears

ASSUME DialingAssumption ==
  /\ Self \notin Peer
  /\ List \subseteq Seq(Address) /\ <<>> \in List
  /\ MaxActs \in Nat /\ MaxFound \in Nat

VARIABLES
  table,     \* table[p]: p's row of the device table
  host,      \* host[a]: the device that answers at a (Self: none does)
  paused,    \* the folders that are paused
  internet,  \* the internet discovery switch
  found,     \* what Browse hands to dialLoop: a set of at most one pair
  lpc,       \* remoteDialLoop: waiting, or looking at the table
  lnet,      \* the switch as it read it
  rows,      \* rows[p]: p's row as it read it, until it has been handled
  syncing,   \* Daemon.syncing
  job,       \* job[s]: a round, or Free
  acts, heard

world == <<host, paused, internet>>
loop  == <<lpc, lnet, rows>>
vars  == <<table, world, found, loop, syncing, job, acts, heard>>

Nobody == [trust |-> "none", eps |-> <<>>]
Free == [peer |-> Self, step |-> "free", eps |-> <<>>, folders |-> {}]
NoRows == [p \in Peer |-> Nobody]

Row == {Nobody} \cup [trust : {"pending", "trusted"}, eps : List]

\* The engine starts; the store holds what an earlier run has left there.
Init ==
  /\ table \in [Peer -> Row]
  /\ host \in [Address -> Peer \cup {Self}]
  /\ paused \in SUBSET Folder
  /\ internet \in BOOLEAN
  /\ found = {}
  /\ lpc = "wait" /\ lnet = FALSE /\ rows = NoRows
  /\ syncing = {}
  /\ job = [s \in Slot |-> Free]
  /\ acts = 0 /\ heard = 0

-----------------------------------------------------------------------------
(* The engine's restart, the users, the friends' messages and the network *)

Act == acts < MaxActs /\ acts' = acts + 1

\* A handler of Friendship writes p's row.
Store(p) ==
  /\ Act
  /\ \E r \in Row : table' = [table EXCEPT ![p] = r]
  /\ table' # table
  /\ UNCHANGED <<world, found, loop, syncing, job, heard>>

\* A device comes, goes or gets another's address.
Move(a) ==
  /\ Act
  /\ \E p \in Peer \cup {Self} : host' = [host EXCEPT ![a] = p]
  /\ UNCHANGED <<table, paused, internet, found, loop, syncing, job, heard>>

SetPaused ==
  /\ Act
  /\ paused' \in SUBSET Folder
  /\ UNCHANGED <<table, host, internet, found, loop, syncing, job, heard>>

SetDiscovery ==
  /\ Act
  /\ internet' = ~internet
  /\ UNCHANGED <<table, host, paused, found, loop, syncing, job, heard>>

\* The engine is stopped, wherever it is, and started again: the rounds and
\* their marks are gone, the store is kept.
Restart ==
  /\ Act
  /\ found' = {}
  /\ lpc' = "wait" /\ lnet' = FALSE /\ rows' = NoRows
  /\ syncing' = {}
  /\ job' = [s \in Slot |-> Free]
  /\ UNCHANGED <<table, world, heard>>

\* mDNS reports a device; Browse hands over one at a time.
Announce ==
  /\ heard < MaxFound
  /\ heard' = heard + 1
  /\ found = {}
  /\ \E p \in Peer \cup {Self}, a \in Address : found' = {<<p, a>>}
  /\ UNCHANGED <<table, world, loop, syncing, job, acts>>

-----------------------------------------------------------------------------
(* The loops *)

Skip == UNCHANGED <<syncing, job>>
FreeSlots == {s \in Slot : job[s] = Free}
Round(p, step, eps) == [peer |-> p, step |-> step, eps |-> eps, folders |-> {}]

\* Mutant of Begin: nobody looks whether a round with p is under way.
BeginAnyway(p, step, eps) ==
  /\ syncing' = syncing \cup {p}
  /\ FreeSlots # {}
  /\ job' = [job EXCEPT ![CHOOSE s \in FreeSlots : TRUE] = Round(p, step, eps)]

\* beginSync, and the goroutine if there was no round with p.
Begin(p, step, eps) ==
  IF p \in syncing THEN Skip
  ELSE /\ FreeSlots # {}
       /\ syncing' = syncing \cup {p}
       /\ job' = [job EXCEPT ![CHOOSE s \in FreeSlots : TRUE] =
                    Round(p, step, eps)]

\* dialLoop takes what was found.
Dispatch ==
  /\ \E e \in found : IF e[1] = Self THEN Skip
                      ELSE Begin(e[1], "check", <<e[2]>>)
  /\ found' = {}
  /\ UNCHANGED <<table, world, loop, acts, heard>>

\* remoteDialLoop's ticker fires and it reads the switch, then the table.
Tick ==
  /\ lpc = "wait"
  /\ lpc' = "list"
  /\ lnet' = internet
  /\ UNCHANGED <<table, world, found, rows, syncing, job, acts, heard>>

ListDevices ==
  /\ lpc = "list"
  /\ lpc' = "each"
  /\ rows' = table
  /\ UNCHANGED <<table, world, found, lnet, syncing, job, acts, heard>>

\* The table cannot be read: wait for the next tick.
ListFails ==
  /\ lpc = "list"
  /\ Act
  /\ lpc' = "wait"
  /\ UNCHANGED <<table, world, found, lnet, rows, syncing, job, heard>>

\* Mutant of Wanted: the switch is for the port mapping only.
WantedAlways(r) == r.eps # <<>> /\ r.trust # "none"

\* The loop starts rounds with friends while the switch is on, and repeats
\* requests whether it is or not, where it has an address.
Wanted(r) ==
  /\ r.eps # <<>>
  /\ r.trust = "trusted" => lnet
  /\ r.trust # "none"

\* It handles the next device it has read.
Each(p) ==
  /\ lpc = "each"
  /\ rows[p] # Nobody
  /\ IF Wanted(rows[p])
     THEN Begin(p, IF rows[p].trust = "trusted" THEN "check" ELSE "ask",
                rows[p].eps)
     ELSE Skip
  /\ rows' = [rows EXCEPT ![p] = Nobody]
  /\ UNCHANGED <<table, world, found, lpc, lnet, acts, heard>>

ListDone ==
  /\ lpc = "each"
  /\ rows = NoRows
  /\ lpc' = "wait"
  /\ UNCHANGED <<table, world, found, lnet, rows, syncing, job, acts, heard>>

-----------------------------------------------------------------------------
(* A round *)

\* Mutant of End: a round that only asked forgets endSync.
EndAsking(s) ==
  /\ job' = [job EXCEPT ![s] = Free]
  /\ syncing' = IF job[s].step = "ask" THEN syncing ELSE syncing \ {job[s].peer}

\* The goroutine returns, and its deferred endSync runs.
End(s) ==
  /\ job' = [job EXCEPT ![s] = Free]
  /\ syncing' = syncing \ {job[s].peer}

\* Mutant of NextAddress: one that does not answer ends the round.
NextAddressNone(s, step) == End(s)

\* Mutant of NextAddress: the last address is not the end.
NextAddressBlind(s, step) ==
  /\ job' = [job EXCEPT ![s].eps = Tail(@), ![s].step = step]
  /\ UNCHANGED syncing

\* Nothing came of the first address: try the next.
NextAddress(s, step) ==
  IF Len(job[s].eps) = 1 THEN End(s)
  ELSE /\ job' = [job EXCEPT ![s].eps = Tail(@), ![s].step = step]
       /\ UNCHANGED syncing

\* The device that has answered at the round's address is the expected one.
Answers(s) == host[Head(job[s].eps)] = job[s].peer

\* Engine.SendFriendRequest, an address at a time.
AskFails(s) ==
  /\ job[s].step = "ask"
  /\ ~Answers(s)
  /\ NextAddress(s, "ask")
  /\ UNCHANGED table

\* The request is acknowledged; or p has accepted, and is trusted unless it
\* was removed meanwhile, at the addresses it names, if any.
Asked(s) ==
  LET p == job[s].peer
  IN  /\ job[s].step = "ask"
      /\ Answers(s)
      /\ \/ UNCHANGED table
         \/ /\ table[p].trust = "pending"
            /\ \E l \in (List \ {<<>>}) \cup {table[p].eps} :
                 table' = [table EXCEPT ![p] = [trust |-> "trusted", eps |-> l]]
      /\ End(s)

\* syncWithAddr: is p trusted now?
Check(s) ==
  /\ job[s].step = "check"
  /\ IF table[job[s].peer].trust = "trusted"
     THEN job' = [job EXCEPT ![s].step = "dial"] /\ UNCHANGED syncing
     ELSE NextAddress(s, "check")
  /\ UNCHANGED table

Dial(s) ==
  /\ job[s].step = "dial"
  /\ IF Answers(s)
     THEN job' = [job EXCEPT ![s].step = "list"] /\ UNCHANGED syncing
     ELSE NextAddress(s, "check")
  /\ UNCHANGED table

ListFolders(s) ==
  /\ job[s].step = "list"
  /\ IF Folder \subseteq paused THEN End(s)
     ELSE /\ job' = [job EXCEPT ![s].step = "pull", ![s].folders = Folder \ paused]
          /\ UNCHANGED syncing
  /\ UNCHANGED table

\* PullFolder ends, well or not; after the last folder the round does.
Pull(s, f) ==
  /\ job[s].step = "pull"
  /\ f \in job[s].folders
  /\ IF job[s].folders = {f} THEN End(s)
     ELSE job' = [job EXCEPT ![s].folders = @ \ {f}] /\ UNCHANGED syncing
  /\ UNCHANGED table

Work(s) ==
  /\ \/ AskFails(s) \/ Asked(s) \/ Check(s) \/ Dial(s) \/ ListFolders(s)
     \/ \E f \in Folder : Pull(s, f)
  /\ UNCHANGED <<world, found, loop, acts, heard>>

\* The folders cannot be listed, or a request is not answered in time.
WorkFails(s) ==
  /\ Act
  /\ job[s].step \in {"list", "ask"}
  /\ NextAddress(s, IF job[s].step = "ask" THEN "ask" ELSE "check")
  /\ UNCHANGED <<table, world, found, loop, heard>>

Environment ==
  \/ \E p \in Peer : Store(p)
  \/ \E a \in Address : Move(a)
  \/ SetPaused \/ SetDiscovery \/ Announce

Loop == Tick \/ ListDevices \/ ListDone \/ \E p \in Peer : Each(p)

Next ==
  \/ Environment \/ Restart \/ Dispatch \/ Loop \/ ListFails
  \/ \E s \in Slot : Work(s) \/ WorkFails(s)

Spec == Init /\ [][Next]_vars

\* The goroutines run on, and the ticker fires.  That every round ends is an
\* assumption about the peer: a pull has no deadline.
FairSpec ==
  /\ Spec
  /\ WF_vars(Dispatch) /\ WF_vars(Loop)
  /\ \A s \in Slot : WF_vars(Work(s))

-----------------------------------------------------------------------------

Job == [peer : Peer, step : {"ask", "check", "dial", "list", "pull"},
        eps : Seq(Address) \ {<<>>}, folders : SUBSET Folder]

\* The state has its type; a round that is not over has an address to try, and
\* one that pulls has a folder to pull.
TypeOK ==
  /\ table \in [Peer -> Row]
  /\ host \in [Address -> Peer \cup {Self}]
  /\ paused \subseteq Folder /\ internet \in BOOLEAN
  /\ found \subseteq (Peer \cup {Self}) \X Address
  /\ lpc \in {"wait", "list", "each"} /\ lnet \in BOOLEAN
  /\ rows \in [Peer -> Row]
  /\ syncing \subseteq Peer
  /\ job \in [Slot -> Job \cup {Free}]
  /\ \A s \in Slot : job[s].step = "pull" <=> job[s].folders # {}
  /\ acts \in 0 .. MaxActs /\ heard \in 0 .. MaxFound

Busy == Slot \ FreeSlots

\* However announcements and ticks meet, no two rounds are with the same
\* device: FolderSync's rounds, and the temporary files they write, rely on it.
OneRound ==
  \A s, t \in Busy : s # t => job[s].peer # job[t].peer

\* A device that is marked as syncing has a round that will unmark it; one that
\* has not would never be dialled again.
NobodyLockedOut == syncing = {job[s].peer : s \in Busy}

Reachable(p) ==
  \E i \in 1 .. Len(table[p].eps) : host[table[p].eps[i]] = p

\* A friend that stays reachable at one of its endpoints is pulled from again
\* and again, every folder, and one that stays pending is asked again and
\* again, whatever else mDNS finds and wherever its other addresses lead: what
\* FolderSync's and Friendship's fairness stand for.
FriendsAreDialled ==
  \A p \in Peer, f \in Folder :
    /\ <>[](table[p].trust = "trusted" /\ internet /\ Reachable(p) /\ f \notin paused)
         => []<><<\E s \in Slot : job[s].peer = p /\ Pull(s, f)>>_vars
    /\ <>[](table[p].trust = "pending" /\ Reachable(p))
         => []<><<\E s \in Slot : job[s].peer = p /\ Asked(s)>>_vars

\* A device that has been removed, or a friend while internet discovery is off,
\* is left alone once the rounds under way have ended.
OthersAreLeftAlone ==
  \A p \in Peer :
    <>[](table[p].trust = "none" \/ (table[p].trust = "trusted" /\ ~internet))
      => <>[](\A s \in Slot : job[s].peer # p)
=============================================================================
