------------------------------ MODULE Monitor ------------------------------
(***************************************************************************)
(* Live changes of a folder: fswatch.Watcher collects the kernel's events  *)
(* and passes them on when they pause, monitor.Monitor scans the folder    *)
(* for each and sends what scanner.Diff finds to its consumer.             *)
(*                                                                         *)
(* The two run in goroutines of their own and meet on unbuffered channels; *)
(* users change the folder at any time, during a scan too.  The folder has *)
(* one subdirectory, which may come and go.                                *)
(***************************************************************************)
EXTENDS Integers, FiniteSets

CONSTANTS
  Path,       \* file paths, as integers in their sort order
  Deep,       \* those in the subdirectory
  Content,    \* what a file may hold
  Blank,      \* the content of size zero
  MaxOps,     \* bound: how many changes the users make
  MaxFaults   \* bound: how many scans fail for good, or watches are not set

Absent == "absent"
File   == Content \cup {Absent}
Sub    == 0   \* the subdirectory
Root   == -1  \* the watched root

ASSUME PathAssumption ==
  /\ Path \subseteq Nat \ {Sub} /\ Deep \subseteq Path
  /\ Blank \in Content /\ Absent \notin Content
ASSUME BoundAssumption == MaxOps \in Nat /\ MaxFaults \in Nat

VARIABLES
  disk,      \* disk[p]: what the folder holds at p
  sub,       \* the subdirectory exists
  watched,   \* the directories with a kernel watch
  queue,     \* the kernel's undelivered events: the paths they name
  pending,   \* the paths Watcher.run has collected
  wpc,       \* Watcher.run: not started, selecting, sending, stopped
  mpc,       \* Monitor: in New, selecting, scanning, sending, stopped
  baseline,  \* Monitor.baseline
  list,      \* the files the running scan has yet to read, and the
             \*   subdirectory when it has yet to be listed
  index,     \* what it has read
  sent,      \* the changes being sent
  seen,      \* the consumer's own index: the changes it got, applied
  closed,    \* Close was called
  ops, faults,
  missed,    \* a change came between New's scan and its watch, or a scan
             \*   failed for good, and no scan has begun since
  blind      \* the subdirectory is there, and setting its watch has failed

folder  == <<disk, sub, watched, queue>>
watcher == <<wpc, pending>>
monitor == <<mpc, baseline, list, index, sent>>
bounds  == <<ops, faults, missed, blind>>
mvars   == <<folder, watcher, monitor, seen, closed, bounds>>

None == [p \in Path |-> Absent]
Files(idx) == {p \in Path : idx[p] # Absent}

\* New has scanned the folder and not yet set the watch.
MInit ==
  /\ disk \in [Path -> File]
  /\ sub \in BOOLEAN
  /\ ~sub => Files(disk) \cap Deep = {}
  /\ watched = {} /\ queue = {}
  /\ wpc = "new" /\ pending = {}
  /\ mpc = "new"
  /\ baseline = disk
  /\ list = {} /\ index = None /\ sent = {}
  /\ seen = disk
  /\ closed = FALSE
  /\ ops = 0 /\ faults = 0
  /\ missed = FALSE /\ blind = FALSE

-----------------------------------------------------------------------------
(* scanner.Diff *)

\* The changes that turn old into new.  A deleted path and an added one with
\* the same content, which is not empty, are a rename: the first deleted goes
\* with the first added, and so on.
Diff(old, new) ==
  LET added   == Files(new) \ Files(old)
      deleted == Files(old) \ Files(new)
      place(p, ps, idx) ==
        Cardinality({q \in ps : q < p /\ idx[q] = idx[p]})
      renames == {pq \in deleted \X added :
                    /\ old[pq[1]] = new[pq[2]] /\ old[pq[1]] # Blank
                    /\ place(pq[1], deleted, old) = place(pq[2], added, new)}
  IN  {[kind |-> "modified", path |-> p, file |-> new[p]] :
         p \in {q \in Files(old) \cap Files(new) : old[q] # new[q]}}
      \cup {[kind |-> "renamed", path |-> pq[2], old |-> pq[1],
             file |-> new[pq[2]]] : pq \in renames}
      \cup {[kind |-> "added", path |-> p, file |-> new[p]] :
              p \in added \ {pq[2] : pq \in renames}}
      \cup {[kind |-> "deleted", path |-> p, file |-> old[p]] :
              p \in deleted \ {pq[1] : pq \in renames}}

\* An index to which a consumer has applied the changes cs.
Applied(idx, cs) ==
  [p \in Path |->
     IF \E c \in cs : c.path = p /\ c.kind # "deleted"
     THEN (CHOOSE c \in cs : c.path = p /\ c.kind # "deleted").file
     ELSE IF \E c \in cs : \/ c.kind = "deleted" /\ c.path = p
                           \/ c.kind = "renamed" /\ c.old = p
     THEN Absent
     ELSE idx[p]]

-----------------------------------------------------------------------------
(* The users and the kernel *)

DirOf(p) == IF p \in Deep THEN Sub ELSE Root

\* The folder becomes files, with or without the subdirectory; what is watched
\* raises an event for each of names.
Changed(files, hasSub, names) ==
  LET dirOf(x) == IF x \in Path THEN DirOf(x) ELSE Root
  IN  /\ ops < MaxOps
      /\ ops' = ops + 1
      /\ disk' = files
      /\ sub' = hasSub
      /\ watched' = IF hasSub THEN watched ELSE watched \ {Sub}
      /\ queue' = queue \cup {x \in names : dirOf(x) \in watched}
      /\ missed' = (missed \/ mpc = "new")
      /\ blind' = (blind /\ hasSub)
      /\ UNCHANGED <<watcher, monitor, seen, closed, faults>>

Exists(p) == p \in Deep => sub

Put(p) ==
  /\ Exists(p)
  /\ \E c \in Content \ {disk[p]} :
       Changed([disk EXCEPT ![p] = c], sub, {p})

Remove(p) ==
  /\ disk[p] # Absent
  /\ Changed([disk EXCEPT ![p] = Absent], sub, {p})

Move(p, q) ==
  /\ p # q /\ disk[p] # Absent /\ Exists(q)
  /\ Changed([disk EXCEPT ![q] = disk[p], ![p] = Absent], sub, {p, q})

\* The subdirectory is moved in or away with what it holds.
Mkdir ==
  /\ ~sub
  /\ \E held \in [Deep -> File] :
       Changed([p \in Path |-> IF p \in Deep THEN held[p] ELSE disk[p]],
               TRUE, {Sub})
Rmdir ==
  /\ sub
  /\ Changed([p \in Path |-> IF p \in Deep THEN Absent ELSE disk[p]],
             FALSE, {Sub})

User ==
  \/ \E p \in Path : Put(p) \/ Remove(p)
  \/ \E p, q \in Path : Move(p, q)
  \/ Mkdir \/ Rmdir

-----------------------------------------------------------------------------
(* The watcher *)

\* fswatch.New, called by monitor.New: watch every directory and start both
\* goroutines.
StartWatch ==
  /\ mpc = "new"
  /\ watched' = {Root} \cup (IF sub THEN {Sub} ELSE {})
  /\ wpc' = "select" /\ mpc' = "select"
  /\ blind' = FALSE
  /\ UNCHANGED <<disk, sub, queue, pending, baseline, list, index, sent, seen,
                 closed, ops, faults, missed>>

\* Mutant of TakeEvent: new directories are not watched.
TakeEventFlat ==
  /\ wpc = "select"
  /\ \E x \in queue :
       /\ queue' = queue \ {x}
       /\ pending' = pending \cup {x}
       /\ UNCHANGED watched
  /\ UNCHANGED <<disk, sub, wpc, monitor, seen, closed, bounds>>

\* Collect an event; a directory that was created is watched first.
TakeEvent ==
  /\ wpc = "select"
  /\ \E x \in queue :
       /\ queue' = queue \ {x}
       /\ pending' = pending \cup {x}
       /\ watched' = IF x = Sub /\ sub THEN watched \cup {Sub} ELSE watched
  /\ blind' = (blind /\ Sub \notin watched')
  /\ UNCHANGED <<disk, sub, wpc, monitor, seen, closed, ops, faults, missed>>

\* The new directory is not watched (the watches are used up, or something in it
\* has gone when it is walked), and the error is dropped: it will not be tried
\* again.
WatchFails ==
  /\ wpc = "select" /\ Sub \in queue /\ sub /\ Sub \notin watched
  /\ faults < MaxFaults
  /\ faults' = faults + 1
  /\ queue' = queue \ {Sub}
  /\ pending' = pending \cup {Sub}
  /\ blind' = TRUE
  /\ UNCHANGED <<disk, sub, watched, wpc, monitor, seen, closed, ops, missed>>

\* The events have paused: what was collected is to be sent.
Fire ==
  /\ wpc = "select" /\ pending # {}
  /\ pending' = {}
  /\ wpc' = "send"
  /\ UNCHANGED <<folder, monitor, seen, closed, bounds>>

\* Mutant of WatcherStops: done is not among the cases of the inner select.
WatcherStopsIdle ==
  /\ closed /\ wpc = "select"
  /\ wpc' = "stopped" /\ pending' = {}
  /\ UNCHANGED <<folder, monitor, seen, closed, bounds>>

WatcherStops ==
  /\ closed /\ wpc \in {"select", "send"}
  /\ wpc' = "stopped" /\ pending' = {}
  /\ UNCHANGED <<folder, monitor, seen, closed, bounds>>

-----------------------------------------------------------------------------
(* The monitor *)

\* The watcher's event is received; the scan lists the root.
StartScan ==
  /\ wpc = "send" /\ mpc = "select"
  /\ wpc' = "select" /\ mpc' = "scan"
  /\ list' = (Files(disk) \ Deep) \cup (IF sub THEN {Sub} ELSE {})
  /\ index' = None
  /\ missed' = FALSE
  /\ UNCHANGED <<folder, pending, baseline, sent, seen, closed, ops, faults,
                 blind>>

\* The walk has come to the subdirectory, and lists it.
EnterSub ==
  /\ mpc = "scan" /\ Sub \in list /\ sub
  /\ list' = (list \ {Sub}) \cup (Files(disk) \cap Deep)
  /\ UNCHANGED <<folder, watcher, mpc, baseline, index, sent, seen, closed,
                 bounds>>

\* Go back to waiting; the scan's data is dropped.
Reselect ==
  /\ mpc' = "select"
  /\ list' = {} /\ index' = None

ReadFile(p) ==
  /\ mpc = "scan" /\ p \in list /\ disk[p] # Absent
  /\ list' = list \ {p}
  /\ index' = [index EXCEPT ![p] = disk[p]]
  /\ UNCHANGED <<folder, watcher, mpc, baseline, sent, seen, closed, bounds>>

\* A listed file, or the subdirectory, has gone: the scan fails and its event is
\* forgotten.  Where nothing is watched, no other event makes good for it.
FileGone(x) ==
  /\ mpc = "scan" /\ x \in list
  /\ IF x = Sub THEN ~sub ELSE disk[x] = Absent
  /\ Reselect
  /\ missed' = (missed \/ (blind /\ x \in Deep))
  /\ UNCHANGED <<folder, watcher, baseline, sent, seen, closed, ops, faults,
                 blind>>

\* The scan fails for another reason (a file is locked, too many files open).
ScanFails ==
  /\ mpc = "scan"
  /\ faults < MaxFaults
  /\ faults' = faults + 1
  /\ missed' = TRUE
  /\ Reselect
  /\ UNCHANGED <<folder, watcher, baseline, sent, seen, closed, ops, blind>>

\* Mutant of FinishScan: the baseline is kept until something has changed, and
\* moves only with the next change.
FinishScanLate ==
  LET cs == Diff(baseline, index)
  IN  /\ mpc = "scan" /\ list = {}
      /\ IF cs = {} THEN baseline' = index ELSE UNCHANGED baseline
      /\ sent' = cs
      /\ mpc' = IF cs = {} THEN "select" ELSE "send"
      /\ list' = {} /\ index' = None
      /\ UNCHANGED <<folder, watcher, seen, closed, bounds>>

\* Mutant of FinishScan: a list of no changes is sent too.
FinishScanAlways ==
  /\ mpc = "scan" /\ list = {}
  /\ baseline' = index
  /\ sent' = Diff(baseline, index)
  /\ mpc' = "send"
  /\ list' = {} /\ index' = None
  /\ UNCHANGED <<folder, watcher, seen, closed, bounds>>

\* Compare with the baseline, which the new index replaces.
FinishScan ==
  LET cs == Diff(baseline, index)
  IN  /\ mpc = "scan" /\ list = {}
      /\ baseline' = index
      /\ sent' = cs
      /\ mpc' = IF cs = {} THEN "select" ELSE "send"
      /\ list' = {} /\ index' = None
      /\ UNCHANGED <<folder, watcher, seen, closed, bounds>>

\* The consumer receives the changes.
Receive ==
  /\ mpc = "send"
  /\ seen' = Applied(seen, sent)
  /\ sent' = {}
  /\ mpc' = "select"
  /\ UNCHANGED <<folder, watcher, baseline, list, index, closed, bounds>>

\* Close was called, or the watcher has closed its channel.
MonitorStops ==
  /\ \/ closed /\ mpc \in {"select", "send"}
     \/ wpc = "stopped" /\ mpc = "select"
  /\ mpc' = "stopped"
  /\ UNCHANGED <<folder, watcher, baseline, list, index, sent, seen, closed,
                 bounds>>

Close ==
  /\ mpc # "new" /\ ~closed
  /\ closed' = TRUE
  /\ UNCHANGED <<folder, watcher, monitor, seen, bounds>>

-----------------------------------------------------------------------------

Watch == StartWatch \/ TakeEvent \/ Fire \/ WatcherStops
Scan  == \/ \E p \in Path : ReadFile(p)
         \/ \E x \in Path \cup {Sub} : FileGone(x)
         \/ StartScan \/ EnterSub \/ FinishScan
Fault == WatchFails \/ ScanFails
MNext == User \/ Watch \/ Scan \/ Fault \/ Receive \/ MonitorStops \/ Close

MSpec == MInit /\ [][MNext]_mvars

\* The goroutines run on.
EngineSpec == MSpec /\ WF_mvars(Watch) /\ WF_mvars(WatcherStops)
                    /\ WF_mvars(Scan) /\ WF_mvars(MonitorStops)

-----------------------------------------------------------------------------

\* The goroutines' data is empty where they do not need it.
MTypeOK ==
  /\ disk \in [Path -> File] /\ sub \in BOOLEAN
  /\ watched \subseteq {Root, Sub} /\ (Sub \in watched => sub)
  /\ queue \subseteq Path \cup {Sub} /\ pending \subseteq Path \cup {Sub}
  /\ wpc \in {"new", "select", "send", "stopped"}
  /\ mpc \in {"new", "select", "scan", "send", "stopped"}
  /\ baseline \in [Path -> File] /\ seen \in [Path -> File]
  /\ index \in [Path -> File] /\ list \subseteq Path \cup {Sub}
  /\ mpc # "scan" => list = {} /\ index = None
  /\ mpc = "send" => sent # {}
  /\ mpc \in {"new", "select", "scan"} => sent = {}
  /\ closed \in BOOLEAN /\ missed \in BOOLEAN
  /\ blind \in BOOLEAN /\ (blind => sub /\ Sub \notin watched)
  /\ ops \in 0 .. MaxOps /\ faults \in 0 .. MaxFaults

\* A consumer that applies the changes it is sent, in whatever order, has the
\* index the monitor compares with: no change is sent twice or left out, and a
\* rename stands for exactly one deleted and one added path.
ConsumerFollows ==
  /\ mpc \in {"new", "select", "scan"} => seen = baseline
  /\ mpc = "send" => Applied(seen, sent) = baseline

\* What the consumer does not know of the folder lies in a subdirectory whose
\* watch could not be set.
Current == \A p \in Path : seen[p] = disk[p] \/ (blind /\ p \in Deep)

\* Once the users are done, the consumer gets to know the folder as it is,
\* whatever the scans raced with and wherever the subdirectory's files came
\* from; but for a change before the watch was set, or one whose scan failed,
\* as long as no later change has made it scan again, and but for what happens
\* in a directory that could not be watched.  A consumer that stops receiving
\* leaves the monitor in its send.
CatchesUp == <>[](closed \/ missed \/ mpc = "send" \/ Current)

\* After Close both goroutines end, though nobody receives any more.
Stops == closed ~> wpc = "stopped" /\ mpc = "stopped"

(* What a comment promises and the code does not do *)

\* "Subsequent changes arrive on Changes": those after the baseline's scan.
ChangesArrive == <>[](closed \/ mpc = "send" \/ seen = disk)
=============================================================================
