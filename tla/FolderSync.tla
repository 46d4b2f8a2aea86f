----------------------------- MODULE FolderSync -----------------------------
(***************************************************************************)
(* One shared folder, replicated on a set of devices.                      *)
(*                                                                         *)
(* Every device runs rounds.  A round dials a peer (daemon.syncWithAddr),  *)
(* scans the local folder and reads the baseline (Engine.PullFolder),      *)
(* walks the peer's index file by file (session.Pull and pullFile), scans  *)
(* again and stores the result as the new baseline.  Users edit, delete    *)
(* and rename files between any two steps of a round: the engine takes no  *)
(* lock on the folder.                                                     *)
(*                                                                         *)
(* A file's content is one member of Content (a file of up to 128 KiB is   *)
(* one block, so its hash, its block and its bytes are one thing here).    *)
(* Rounds of one device do not overlap in this module; Assembly.tla        *)
(* models two rounds that write the same file.                             *)
(***************************************************************************)
EXTENDS Integers, FiniteSets

CONSTANTS
  Device,     \* the devices that share the folder
  Source,     \* Source[d]: the trusted peers that d dials and pulls from
  Writer,     \* the devices whose users change files
  Name,       \* relative paths, the conflict copies' names included
  UserName,   \* the paths a user changes
  Root,       \* Root[n]: the path a (possibly conflict-copy) name stems from
  CopyName,   \* CopyName[n, d, t]: conflict.ConflictName
  Lists,      \* Lists[n]: the names whose stored copies versioning.Versions
              \*   takes for copies of n
  Keep,       \* maxVersions
  MaxSecond,  \* bound: how far the wall clock runs
  MaxOps,     \* bound: how many changes the users make
  MaxFaults   \* bound: how many rounds break or meet a peer without the folder
              \*   (it also bounds the copies of a file, see Dup)

Second  == 0 .. MaxSecond
Content == 1 .. MaxOps
NoFile  == 0
File    == Content \cup {NoFile}

ASSUME DeviceAssumption ==
  /\ Source \in [Device -> SUBSET Device]
  /\ \A d \in Device : d \notin Source[d]
  /\ Writer \subseteq Device

ASSUME NameAssumption ==
  /\ Name # {}
  /\ UserName \subseteq Name
  /\ Root \in [Name -> Name]
  /\ CopyName \in [Name \X Device \X Second -> Name]
  /\ \A n \in Name, d \in Device, t \in Second :
       Root[CopyName[n, d, t]] = Root[n]

\* A file's copies are listed by its stem and extension: those of files with
\* another of either are not, unless it has no extension.  So one list holds
\* the other or they have nothing in common.  (Stems that continue another one
\* by a "~" could make lists overlap; they are left out, as in Versioning.)
ASSUME ListAssumption ==
  /\ Keep \in Nat \ {0}
  /\ Lists \in [Name -> SUBSET Name]
  /\ \A n \in Name : n \in Lists[n]
  /\ \A m, n \in Name : \/ Lists[m] \subseteq Lists[n]
                        \/ Lists[n] \subseteq Lists[m]
                        \/ Lists[m] \cap Lists[n] = {}

ASSUME BoundAssumption ==
  /\ MaxSecond \in Nat
  /\ MaxOps \in Nat
  /\ MaxFaults \in Nat

VARIABLES
  disk,      \* disk[d][n]: what d holds at n
  baseline,  \* baseline[d][n]: the synced table (NoFile: the zero hash)
  archive,   \* archive[d]: the copies under .syncyversions, <<name, content,
             \*   number>>; NoFile is the content of a copy that broke off
  pc,        \* pc[d]: where d's round is
  peer,      \* peer[d]: the device d pulls from (d itself when idle)
  remote,    \* remote[d]: the index the peer serves on d's connection
  local,     \* local[d]: the index d scanned when the round began
  todo,      \* todo[d]: the names of the peer's index not yet handled
  path,      \* path[d]: the name being pulled (rf.Path)
  target,    \* target[d]: the name it is written to (targetRel)
  tmp,       \* tmp[d]: what the temporary file holds
  clock,     \* the wall clock in seconds
  ops,       \* how many changes the users have made
  faults     \* how many faults have happened

\* What the properties need to remember; no action's guard reads these.
VARIABLES
  placed,    \* <<root, content>>: a user put content at a name of that root
  kin,       \* kin[c]: the contents that c was edited from
  mine,      \* mine[d]: <<name, content>>: put there by d's user, who has
             \*   neither replaced nor removed it
  removed,   \* removed[d]: the names d's user has once removed a file from
  late,      \* the pairs of mine written between an archive and a rename
  dropped    \* dropped[d]: <<name, content>>: pruning has removed a copy

stores == <<disk, baseline, archive>>
round  == <<pc, peer, remote, local, todo, path, target, tmp>>
bounds == <<clock, ops, faults>>
ghosts == <<placed, kin, mine, removed, late, dropped>>
vars   == <<stores, round, bounds, ghosts>>

Empty == [n \in Name |-> NoFile]
SomeName == CHOOSE n \in Name : TRUE

Files(index) == {n \in Name : index[n] # NoFile}

Init ==
  /\ disk = [d \in Device |-> Empty]
  /\ baseline = [d \in Device |-> Empty]
  /\ archive = [d \in Device |-> {}]
  /\ pc = [d \in Device |-> "idle"]
  /\ peer = [d \in Device |-> d]
  /\ remote = [d \in Device |-> Empty]
  /\ local = [d \in Device |-> Empty]
  /\ todo = [d \in Device |-> {}]
  /\ path = [d \in Device |-> SomeName]
  /\ target = [d \in Device |-> SomeName]
  /\ tmp = [d \in Device |-> NoFile]
  /\ clock = 0 /\ ops = 0 /\ faults = 0
  /\ placed = {}
  /\ kin = [c \in Content |-> {}]
  /\ mine = [d \in Device |-> {}]
  /\ removed = [d \in Device |-> {}]
  /\ late = {}
  /\ dropped = [d \in Device |-> {}]

-----------------------------------------------------------------------------
(* The users *)

\* d's user changes the folder to files: mine loses what he replaced or
\* removed and gains what he put at a name of new.
Changed(d, files, new) ==
  LET gone == {n \in Name : files[n] # disk[d][n]}
      put  == {<<n, files[n]>> : n \in new}
  IN  /\ disk' = [disk EXCEPT ![d] = files]
      /\ mine' = [mine EXCEPT ![d] =
                    (@ \ {<<n, disk[d][n]>> : n \in gone}) \cup put]
      /\ removed' = [removed EXCEPT ![d] = @ \cup (gone \ Files(files))]
      /\ placed' = placed \cup {<<Root[n], files[n]>> : n \in new}
      /\ late' = IF pc[d] = "rename" /\ target[d] \in new
                 THEN late \cup {<<target[d], files[target[d]]>>}
                 ELSE late
      /\ ops' = ops + 1
      /\ UNCHANGED <<baseline, archive, dropped, round, clock, faults>>

\* Write a content nobody has written before.
UserEdit(d, n) ==
  LET c == ops + 1
      old == disk[d][n]
  IN  /\ ops < MaxOps
      /\ Changed(d, [disk[d] EXCEPT ![n] = c], {n})
      /\ kin' = [kin EXCEPT ![c] =
                   IF old = NoFile THEN {} ELSE {old} \cup kin[old]]

UserDelete(d, n) ==
  /\ ops < MaxOps
  /\ disk[d][n] # NoFile
  /\ Changed(d, [disk[d] EXCEPT ![n] = NoFile], {})
  /\ UNCHANGED kin

\* Rename n to a free m, or exchange the two files.
UserMove(d, n, m) ==
  LET files == [disk[d] EXCEPT ![n] = disk[d][m], ![m] = disk[d][n]]
  IN  /\ ops < MaxOps
      /\ n # m /\ disk[d][n] # NoFile
      /\ Changed(d, files, {n, m} \cap Files(files))
      /\ UNCHANGED kin

User(d) ==
  \/ \E n \in UserName : UserEdit(d, n) \/ UserDelete(d, n)
  \/ \E n, m \in UserName : UserMove(d, n, m)

Tick ==
  /\ clock < MaxSecond
  /\ clock' = clock + 1
  /\ UNCHANGED <<stores, round, ops, faults, ghosts>>

-----------------------------------------------------------------------------
(* One round of device d *)

\* Mutant of Idle: the names left over from a failed round are kept.
IdleKeepsTodo(d) ==
  /\ pc' = [pc EXCEPT ![d] = "idle"]
  /\ peer' = [peer EXCEPT ![d] = d]
  /\ remote' = [remote EXCEPT ![d] = Empty]
  /\ local' = [local EXCEPT ![d] = Empty]
  /\ path' = [path EXCEPT ![d] = SomeName]
  /\ target' = [target EXCEPT ![d] = SomeName]
  /\ tmp' = [tmp EXCEPT ![d] = NoFile]
  /\ UNCHANGED todo

\* Leave the round; what it had learnt is forgotten.
Idle(d) ==
  /\ pc' = [pc EXCEPT ![d] = "idle"]
  /\ peer' = [peer EXCEPT ![d] = d]
  /\ remote' = [remote EXCEPT ![d] = Empty]
  /\ local' = [local EXCEPT ![d] = Empty]
  /\ todo' = [todo EXCEPT ![d] = {}]
  /\ path' = [path EXCEPT ![d] = SomeName]
  /\ target' = [target EXCEPT ![d] = SomeName]
  /\ tmp' = [tmp EXCEPT ![d] = NoFile]

\* Leave the current file and go on with the peer's index.
NextFile(d) ==
  /\ pc' = [pc EXCEPT ![d] = "pull"]
  /\ path' = [path EXCEPT ![d] = SomeName]
  /\ target' = [target EXCEPT ![d] = SomeName]
  /\ tmp' = [tmp EXCEPT ![d] = NoFile]

\* Dial p.
Connect(d, p) ==
  /\ pc[d] = "idle"
  /\ pc' = [pc EXCEPT ![d] = "connected"]
  /\ peer' = [peer EXCEPT ![d] = p]
  /\ UNCHANGED <<stores, remote, local, todo, path, target, tmp, bounds,
                 ghosts>>

\* Both scans are made: walk the files of the peer's index.
Walk(d, index) ==
  /\ pc' = [pc EXCEPT ![d] = "pull"]
  /\ todo' = [todo EXCEPT ![d] = Files(index)]

\* The peer serves an index on d's connection.
Served(d, index) ==
  /\ remote' = [remote EXCEPT ![d] = index]
  /\ \/ pc[d] = "connected" /\ pc' = [pc EXCEPT ![d] = "served"]
                            /\ UNCHANGED todo
     \/ pc[d] = "scanned" /\ Walk(d, index)
  /\ UNCHANGED <<stores, peer, local, path, target, tmp, ghosts>>

\* The peer, which accepts the connection, scans its folders once, before or
\* after d scans its own, and serves that index as long as the connection lives.
Snapshot(d) == Served(d, disk[peer[d]]) /\ UNCHANGED bounds

\* The peer does not have the folder, or could not scan it: the folder is not
\* in its snapshot, the index request is answered by a closed stream, and the
\* puller reads that as an index without files.
SnapshotLacks(d) ==
  /\ faults < MaxFaults
  /\ faults' = faults + 1
  /\ Served(d, Empty)
  /\ UNCHANGED <<clock, ops>>

\* Scan the local folder and read the baseline (it does not change before the
\* round's own Record).
Scan(d) ==
  /\ local' = [local EXCEPT ![d] = disk[d]]
  /\ \/ pc[d] = "connected" /\ pc' = [pc EXCEPT ![d] = "scanned"]
                            /\ UNCHANGED todo
     \/ pc[d] = "served" /\ Walk(d, remote[d])
  /\ UNCHANGED <<stores, peer, remote, path, target, tmp, bounds, ghosts>>

\* Mutant of Classify: the two comparisons with the baseline are exchanged.
ClassifySwapped(here, there, base) ==
  CASE base # NoFile /\ there = base -> "takeRemote"
    [] base # NoFile /\ here = base /\ there # base -> "keepLocal"
    [] OTHER -> "conflictCopy"

\* What to do with a file that differs on the two sides.
Classify(here, there, base) ==
  CASE base # NoFile /\ here = base -> "takeRemote"
    [] base # NoFile /\ here # base /\ there = base -> "keepLocal"
    [] OTHER -> "conflictCopy"

\* What to do with name n of the peer's index.
Verdict(d, n) ==
  CASE local[d][n] = NoFile -> "takeRemote"
    [] local[d][n] = remote[d][n] -> "same"
    [] OTHER -> Classify(local[d][n], remote[d][n], baseline[d][n])

Leave(d, n) ==
  /\ pc[d] = "pull"
  /\ n \in todo[d]
  /\ Verdict(d, n) \in {"same", "keepLocal"}
  /\ todo' = [todo EXCEPT ![d] = @ \ {n}]
  /\ UNCHANGED <<stores, pc, peer, remote, local, path, target, tmp,
                 bounds, ghosts>>

\* Begin to pull n, beside the local file when both sides have changed.
Take(d, n) ==
  /\ pc[d] = "pull"
  /\ n \in todo[d]
  /\ Verdict(d, n) \in {"takeRemote", "conflictCopy"}
  /\ todo' = [todo EXCEPT ![d] = @ \ {n}]
  /\ pc' = [pc EXCEPT ![d] = "fetch"]
  /\ path' = [path EXCEPT ![d] = n]
  /\ target' = [target EXCEPT ![d] =
       IF Verdict(d, n) = "conflictCopy" THEN CopyName[n, d, clock] ELSE n]
  /\ UNCHANGED <<stores, peer, remote, local, tmp, bounds, ghosts>>

\* Where the data of the file being pulled comes from, as <<device, name>>: a
\* local file that held it when the round began (the code takes the first one
\* of a map's random order), or the peer's live file.
Origins(d) ==
  LET kept == {m \in Name : local[d][m] = remote[d][path[d]]}
  IN  IF kept # {} THEN {d} \X kept ELSE {<<peer[d], path[d]>>}

\* What an origin holds now: the peer serves a block, and a local block is
\* read, from the live file at the offset the index gave.
Read(o) == disk[o[1]][o[2]]

\* Mutant of Fetch: data is not compared with the advertised hash.
FetchUnchecked(d) ==
  /\ pc[d] = "fetch"
  /\ \E o \in Origins(d) :
       /\ Read(o) # NoFile
       /\ tmp' = [tmp EXCEPT ![d] = Read(o)]
  /\ pc' = [pc EXCEPT ![d] = "archive"]
  /\ UNCHANGED <<stores, peer, remote, local, todo, path, target, bounds,
                 ghosts>>

\* The data matches the advertised hash: the temporary file is complete.
Fetch(d) ==
  /\ pc[d] = "fetch"
  /\ \E o \in Origins(d) :
       /\ Read(o) = remote[d][path[d]]
       /\ tmp' = [tmp EXCEPT ![d] = Read(o)]
  /\ pc' = [pc EXCEPT ![d] = "archive"]
  /\ UNCHANGED <<stores, peer, remote, local, todo, path, target, bounds,
                 ghosts>>

\* The file at its origin has changed or gone: the whole round fails.
FetchFails(d) ==
  /\ pc[d] = "fetch"
  /\ \E o \in Origins(d) : Read(o) # remote[d][path[d]]
  /\ Idle(d)
  /\ UNCHANGED <<stores, bounds, ghosts>>

\* The copies in the store s that are listed for n.
Listed(n, s) == {v \in s : v[1] \in Lists[n]}

\* A copy of n is added, under the first number that is free: two copies of the
\* same content are two files.  (As long as copies are pruned, Keep of them and
\* one for every pruning that broke off are the most there are.)
Dup == 0 .. Keep + MaxFaults
Added(n, c, s) ==
  {s \cup {<<n, c, k>>} :
     k \in {i \in Dup : /\ <<n, c, i>> \notin s
                        /\ \A j \in 0 .. i - 1 : <<n, c, j>> \in s}}

\* What pruning n's copies may leave of s when it stops somewhere, and at its
\* end.  It goes by modification times, which the users' programs may set: which
\* copies stay is open here, and Versioning's subject.
Cut(n, s) ==
  {t \in SUBSET s : /\ s \ t \subseteq Listed(n, s)
                    /\ t = s \/ Cardinality(Listed(n, t)) >= Keep}
Pruned(n, s) == {t \in Cut(n, s) : Cardinality(Listed(n, t)) <= Keep}

\* d's store becomes t, of what it was with the new copy, s.
Store(d, s, t) ==
  /\ archive' = [archive EXCEPT ![d] = t]
  /\ dropped' = [dropped EXCEPT ![d] = @ \cup {<<v[1], v[2]>> : v \in s \ t}]

\* Mutant of Archive: only a file the round's first scan saw is archived.
ArchiveIndexed(d) ==
  LET n   == target[d]
      old == disk[d][n]
  IN  /\ pc[d] = "archive"
      /\ \/ NoFile \in {old, local[d][n]} /\ UNCHANGED <<archive, dropped>>
         \/ /\ NoFile \notin {old, local[d][n]}
            /\ \E s \in Added(n, old, archive[d]) :
                 \E t \in Pruned(n, s) : Store(d, s, t)
      /\ pc' = [pc EXCEPT ![d] = "rename"]
      /\ UNCHANGED <<disk, baseline, peer, remote, local, todo, path, target,
                     tmp, bounds, placed, kin, mine, removed, late>>

\* Copy what is at the target, if there is a file, into the version store, and
\* prune the copies listed for it.
Archive(d) ==
  LET n   == target[d]
      old == disk[d][n]
  IN  /\ pc[d] = "archive"
      /\ \/ old = NoFile /\ UNCHANGED <<archive, dropped>>
         \/ /\ old # NoFile
            /\ \E s \in Added(n, old, archive[d]) :
                 \E t \in Pruned(n, s) : Store(d, s, t)
      /\ pc' = [pc EXCEPT ![d] = "rename"]
      /\ UNCHANGED <<disk, baseline, peer, remote, local, todo, path, target,
                     tmp, bounds, placed, kin, mine, removed, late>>

\* The copying breaks off, or the pruning before it is done, and the round ends.
ArchiveFails(d) ==
  LET n   == target[d]
      old == disk[d][n]
  IN  /\ pc[d] = "archive" /\ old # NoFile
      /\ faults < MaxFaults
      /\ faults' = faults + 1
      /\ \/ \E s \in Added(n, NoFile, archive[d]) : Store(d, s, s)
         \/ \E s \in Added(n, old, archive[d]) :
              \E t \in Cut(n, s) : Store(d, s, t)
      /\ Idle(d)
      /\ UNCHANGED <<disk, baseline, clock, ops, placed, kin, mine, removed,
                     late>>

\* Rename the temporary file over the target.
Install(d) ==
  /\ pc[d] = "rename"
  /\ disk' = [disk EXCEPT ![d][target[d]] = tmp[d]]
  /\ NextFile(d)
  /\ UNCHANGED <<baseline, archive, peer, remote, local, todo, bounds, ghosts>>

\* Scan again and store every local hash as the new baseline.
Record(d) ==
  /\ pc[d] = "pull"
  /\ todo[d] = {}
  /\ baseline' = [baseline EXCEPT ![d] = disk[d]]
  /\ Idle(d)
  /\ UNCHANGED <<disk, archive, bounds, ghosts>>

\* The connection breaks, the process stops, or a file operation fails: the
\* round ends with the baseline of the previous one.
Abort(d) ==
  /\ pc[d] # "idle"
  /\ faults < MaxFaults
  /\ faults' = faults + 1
  /\ Idle(d)
  /\ UNCHANGED <<stores, clock, ops, ghosts>>

Work(d) ==
  \/ \E p \in Source[d] : Connect(d, p)
  \/ Snapshot(d) \/ Scan(d)
  \/ \E n \in todo[d] : Leave(d, n) \/ Take(d, n)
  \/ Fetch(d) \/ FetchFails(d)
  \/ Archive(d) \/ Install(d) \/ Record(d)

Fault(d) == SnapshotLacks(d) \/ ArchiveFails(d) \/ Abort(d)

Next ==
  \/ \E d \in Writer : User(d)
  \/ \E d \in Device : Work(d) \/ Fault(d)
  \/ Tick

Spec == Init /\ [][Next]_vars

\* Peers are dialled again and again (discovery announcements, the 30-second
\* remote dial) and a started round runs on: some step of it is always taken.
FairSpec == Spec /\ \A d \in Device : WF_vars(Work(d))
-----------------------------------------------------------------------------
(* What the folder promises *)

Opening == {"connected", "served", "scanned"}
Busy == {"fetch", "archive", "rename"}

\* The state has its type, and outside a round nothing of a round is left:
\* Engine.PullFolder keeps all of it in local variables.
TypeOK ==
  /\ disk \in [Device -> [Name -> File]]
  /\ baseline \in [Device -> [Name -> File]]
  /\ archive \in [Device -> SUBSET (Name \X File \X Dup)]
  /\ pc \in [Device -> {"idle", "pull"} \cup Opening \cup Busy]
  /\ peer \in [Device -> Device]
  /\ remote \in [Device -> [Name -> File]]
  /\ local \in [Device -> [Name -> File]]
  /\ todo \in [Device -> SUBSET Name]
  /\ path \in [Device -> Name]
  /\ target \in [Device -> Name]
  /\ tmp \in [Device -> File]
  /\ clock \in Second /\ ops \in 0 .. MaxOps /\ faults \in 0 .. MaxFaults
  /\ placed \subseteq Name \X Content
  /\ kin \in [Content -> SUBSET Content]
  /\ mine \in [Device -> SUBSET (Name \X Content)]
  /\ removed \in [Device -> SUBSET Name]
  /\ late \subseteq Name \X Content
  /\ dropped \in [Device -> SUBSET (Name \X File)]
  /\ \A d \in Device :
       pc[d] = "idle" => peer[d] = d /\ todo[d] = {} /\ tmp[d] = NoFile

\* A file never holds what no user put at that path.  session.pullFile builds
\* it from blocks that were read off a stale index or off the peer's live
\* file; whatever changed under it, only the advertised content is installed,
\* and a conflict copy keeps to the file it is a copy of.
NoForeignContent ==
  \A d \in Device, n \in Name :
    disk[d][n] # NoFile => <<Root[n], disk[d][n]>> \in placed

\* The store s has a complete copy of w[2] at the name w[1].
Stored(w, s) == \E v \in s : v[1] = w[1] /\ v[2] = w[2]

\* A list in which copies of n are has Keep copies in the store s.
Crowded(n, s) ==
  \E k \in Name : n \in Lists[k] /\ Cardinality(Listed(k, s)) >= Keep

\* What a device's user has put in the folder, and has not replaced or removed
\* himself, is still there or in the version store, or the store had it until
\* pruning dropped it for others and still has Keep of these: whichever rounds
\* ran, broke off (in Store.Archive too) or took the peer's file, nothing goes
\* without having been copied, and nothing from a list that has room.  Only what
\* he writes between pullFile's archiving of the old file and its rename escapes
\* (OverwrittenIsArchived).
UserWorkKept ==
  \A d \in Device : \A w \in mine[d] :
    \/ disk[d][w[1]] = w[2]
    \/ Stored(w, archive[d])
    \/ w \in dropped[d] /\ Crowded(w[1], archive[d])
    \/ w \in late

\* d's user has himself written what d has at n, or has once removed a file
\* there.
UsersOwn(d, n) == <<n, disk[d][n]>> \in mine[d] \/ n \in removed[d]

\* Once the users are done, a device has, for good, at every name its source's
\* file or its own user's: a file that only the source's users have touched
\* since follows them, and no fault, no failed round (blocks read from a local
\* file the round itself has overwritten) and no conflict copy leaves it behind.
\* What becomes of a file that the puller's user has changed too is not said.
Delivered ==
  \A d \in Device : \A p \in Source[d] : \A n \in UserName :
    <>[](disk[p][n] # NoFile => disk[d][n] = disk[p][n] \/ UsersOwn(d, n))

(* What the documentation promises and the code does not do *)

\* Sync never replaces a file by a content it was edited from: "a
\* locally-ahead file is kept".
LocallyAheadKept ==
  [][ops' = ops =>
       \A d \in Device, n \in Name : disk[d][n] \in Content =>
         disk'[d][n] \notin kin[disk[d][n]]]_vars

\* Sync replaces a file only by one pulled while the local file was the
\* baseline: local changes get a conflict copy "instead of overwriting".
LocalChangesNotOverwritten ==
  [][ops' = ops =>
       \A d \in Device, n \in UserName :
         disk[d][n] \notin {NoFile, disk'[d][n]} =>
           disk[d][n] = baseline[d][n]]_vars

\* What sync overwrites is in the version store: "an incoming change never
\* silently discards the previous content".
OverwrittenIsArchived ==
  [][ops' = ops =>
       \A d \in Device, n \in Name :
         disk[d][n] \notin {NoFile, disk'[d][n]} =>
           Stored(<<n, disk[d][n]>>, archive[d])]_vars

\* With a single user, no file gets a conflict copy: "a file only changed on
\* one side fast-forwards".
NoCopyWithoutConflict ==
  \A d \in Device, n \in Name : disk[d][n] # NoFile => Root[n] = n

\* Once the users are done, the devices end up with the same files: "both
\* sides move toward the union of their newest files".
Converges ==
  <>[](\A d, e \in Device : disk[d] = disk[e])
=============================================================================
