-------------------------- MODULE FolderSyncProofs --------------------------
(***************************************************************************)
(* Proofs about FolderSync, for every set of devices, peers and names and  *)
(* every bound.                                                            *)
(***************************************************************************)
EXTENDS FolderSync, FiniteSetTheorems, TLAPS

LEMMA SomeNameType == SomeName \in Name
BY NameAssumption DEF SomeName

LEMMA EmptyType == Empty \in [Name -> File]
BY DEF Empty, File

\* What a user's change does to the state's type: files is a folder, and the
\* names he put something at hold a content.
LEMMA ChangedType ==
  ASSUME TypeOK, NEW d \in Device, NEW files \in [Name -> File],
         NEW new \in SUBSET Files(files), Changed(d, files, new),
         ops < MaxOps
  PROVE  /\ disk' \in [Device -> [Name -> File]]
         /\ mine' \in [Device -> SUBSET (Name \X Content)]
         /\ placed' \subseteq Name \X Content
         /\ removed' \in [Device -> SUBSET Name]
         /\ late' \subseteq Name \X Content
         /\ ops' \in 0 .. MaxOps
         /\ UNCHANGED <<baseline, archive, dropped, round, clock, faults>>
<1> DEFINE put == {<<n, files[n]>> : n \in new}
<1>1. \A n \in new : n \in Name /\ files[n] \in Content
  BY DEF Files, File
<1>2. put \subseteq Name \X Content
  BY <1>1
<1>3. {<<Root[n], files[n]>> : n \in new} \subseteq Name \X Content
  <2>1. \A n \in new : Root[n] \in Name
    BY <1>1, NameAssumption
  <2>2. QED BY <1>1, <2>1
<1>4. disk' \in [Device -> [Name -> File]]
  BY DEF Changed, TypeOK
<1>5. mine' \in [Device -> SUBSET (Name \X Content)]
  BY <1>2 DEF Changed, TypeOK
<1>6. placed' \subseteq Name \X Content
  BY <1>3 DEF Changed, TypeOK
<1>7. late' \subseteq Name \X Content
  BY <1>1 DEF Changed, TypeOK
<1>8. ops' \in 0 .. MaxOps
  BY BoundAssumption DEF Changed, TypeOK
<1>9. UNCHANGED <<baseline, archive, dropped, round, clock, faults>>
  BY DEF Changed
<1>10. removed' \in [Device -> SUBSET Name]
  BY DEF Changed, TypeOK
<1>11. QED BY <1>4, <1>5, <1>6, <1>7, <1>8, <1>9, <1>10

\* Every way to leave a round gives its variables back their idle values.
LEMMA IdleType ==
  ASSUME TypeOK, NEW d \in Device, Idle(d)
  PROVE  /\ pc' \in [Device -> {"idle", "pull"} \cup Opening \cup Busy]
         /\ peer' \in [Device -> Device]
         /\ remote' \in [Device -> [Name -> File]]
         /\ local' \in [Device -> [Name -> File]]
         /\ todo' \in [Device -> SUBSET Name]
         /\ path' \in [Device -> Name]
         /\ target' \in [Device -> Name]
         /\ tmp' \in [Device -> File]
         /\ \A e \in Device :
              pc'[e] = "idle" => peer'[e] = e /\ todo'[e] = {} /\ tmp'[e] = NoFile
BY SomeNameType, EmptyType DEF Idle, TypeOK, File

\* The initial state has its type.
LEMMA InitType == Init => TypeOK
BY SomeNameType, EmptyType, BoundAssumption
   DEF Init, TypeOK, File, Second

\* Every user action changes the folder to some files, each of which is the
\* old one, is gone, or is one he put there.
LEMMA UserChange ==
  ASSUME TypeOK, NEW d \in Device, User(d)
  PROVE  /\ ops < MaxOps /\ kin' \in [Content -> SUBSET Content]
         /\ \E files \in [Name -> File] : \E new \in SUBSET Files(files) :
              /\ Changed(d, files, new)
              /\ \A n \in Name : files[n] \in {NoFile, disk[d][n]} \/ n \in new
<1> DEFINE Goal == \E files \in [Name -> File] :
                   \E new \in SUBSET Files(files) :
                     /\ Changed(d, files, new)
                     /\ \A n \in Name :
                          files[n] \in {NoFile, disk[d][n]} \/ n \in new
           Typed == ops < MaxOps /\ kin' \in [Content -> SUBSET Content]
<1>0. disk[d] \in [Name -> File] /\ kin \in [Content -> SUBSET Content]
  BY DEF TypeOK
<1>1. ASSUME NEW n \in UserName, UserEdit(d, n) PROVE Typed /\ Goal
  <2> DEFINE c == ops + 1
             files == [disk[d] EXCEPT ![n] = c]
  <2>1. ops \in 0 .. MaxOps /\ ops < MaxOps
    BY <1>1 DEF UserEdit, TypeOK
  <2>2. c \in Content
    BY <2>1, BoundAssumption DEF Content
  <2>3. n \in Name
    BY NameAssumption
  <2>4. files \in [Name -> File] /\ {n} \in SUBSET Files(files)
    BY <1>0, <2>2, <2>3 DEF File, Files, NoFile, Content
  <2>5. \A m \in Name : files[m] \in {NoFile, disk[d][m]} \/ m \in {n}
    BY <1>0
  <2>6. Changed(d, files, {n})
    BY <1>1 DEF UserEdit
  <2>7. Typed
    BY <1>0, <1>1, <2>1, <2>2, <2>3 DEF UserEdit, File
  <2> HIDE DEF files, Typed
  <2>8. QED BY <2>4, <2>5, <2>6, <2>7
<1>2. ASSUME NEW n \in UserName, UserDelete(d, n) PROVE Typed /\ Goal
  <2> DEFINE files == [disk[d] EXCEPT ![n] = NoFile]
  <2>1. n \in Name
    BY NameAssumption
  <2>2. files \in [Name -> File] /\ {} \in SUBSET Files(files)
    BY <1>0, <2>1 DEF File
  <2>3. \A m \in Name : files[m] \in {NoFile, disk[d][m]} \/ m \in {}
    BY <1>0
  <2>4. Changed(d, files, {}) /\ Typed
    BY <1>0, <1>2 DEF UserDelete
  <2> HIDE DEF files, Typed
  <2>5. QED BY <2>2, <2>3, <2>4
<1>3. ASSUME NEW n \in UserName, NEW m \in UserName, UserMove(d, n, m)
      PROVE Typed /\ Goal
  <2> DEFINE files == [disk[d] EXCEPT ![n] = disk[d][m], ![m] = disk[d][n]]
             new == {n, m} \cap Files(files)
  <2>1. n \in Name /\ m \in Name
    BY NameAssumption
  <2>2. files \in [Name -> File]
    BY <1>0, <2>1
  <2>3. \A o \in Name : files[o] \in {NoFile, disk[d][o]} \/ o \in new
    BY <1>0, <2>1, <2>2 DEF Files
  <2>4. Changed(d, files, new) /\ Typed
    BY <1>0, <1>3 DEF UserMove
  <2> HIDE DEF files, Typed
  <2>5. QED BY <2>2, <2>3, <2>4
<1> HIDE DEF Goal, Typed
<1>4. Typed /\ Goal
  BY <1>1, <1>2, <1>3 DEF User
<1>5. QED BY <1>4 DEF Goal, Typed

\* A user's change keeps the type.
LEMMA UserType ==
  ASSUME TypeOK, NEW d \in Device, User(d)
  PROVE  TypeOK'
<1>1. PICK files \in [Name -> File] : \E new \in SUBSET Files(files) :
        Changed(d, files, new)
  BY UserChange
<1>2. ops < MaxOps /\ kin' \in [Content -> SUBSET Content]
  BY UserChange
<1>3. QED BY <1>1, <1>2, ChangedType DEF TypeOK, round

\* What either of the two opening scans does to pc and todo.
Opened(d) ==
  /\ todo' \in [Device -> SUBSET Name]
  /\ pc' \in [Device -> {"idle", "pull"} \cup Opening \cup Busy]
  /\ pc'[d] # "idle"
  /\ \A e \in Device \ {d} : pc'[e] = pc[e] /\ todo'[e] = todo[e]

\* The second of the two scans starts the walk; the first starts nothing.
LEMMA OpenType ==
  ASSUME TypeOK, NEW d \in Device, NEW index, NEW step \in Opening,
         \/ pc' = [pc EXCEPT ![d] = step] /\ UNCHANGED todo
         \/ Walk(d, index)
  PROVE  Opened(d)
<1>1. Files(index) \in SUBSET Name
  BY DEF Files
<1>2. CASE pc' = [pc EXCEPT ![d] = step] /\ UNCHANGED todo
  BY <1>2 DEF TypeOK, Opening, Opened
<1>3. CASE Walk(d, index)
  BY <1>1, <1>3 DEF Walk, TypeOK, Opening, Opened
<1>4. QED BY <1>2, <1>3

\* The peer's index arrives: the rest of the state keeps its type.
LEMMA OpenedType ==
  ASSUME TypeOK, NEW d \in Device, Opened(d),
         remote' \in [Device -> [Name -> File]],
         faults' \in 0 .. MaxFaults,
         UNCHANGED <<stores, peer, local, path, target, tmp, clock, ops, ghosts>>
  PROVE  TypeOK'
<1>1. ASSUME NEW e \in Device, pc'[e] = "idle"
      PROVE  peer'[e] = e /\ todo'[e] = {} /\ tmp'[e] = NoFile
  <2>1. e # d /\ pc[e] = "idle"
    BY <1>1 DEF Opened
  <2>2. peer[e] = e /\ todo[e] = {} /\ tmp[e] = NoFile
    BY <2>1 DEF TypeOK
  <2>3. QED BY <2>1, <2>2 DEF Opened
<1>2. /\ todo' \in [Device -> SUBSET Name]
      /\ pc' \in [Device -> {"idle", "pull"} \cup Opening \cup Busy]
  BY DEF Opened
<1>3. UNCHANGED <<disk, baseline, archive, peer, local, path, target, tmp>>
  BY DEF stores
<1>4. UNCHANGED <<clock, ops, placed, kin, mine, removed, late, dropped>>
  BY DEF ghosts
<1>5. QED BY <1>1, <1>2, <1>3, <1>4 DEF TypeOK

\* The store's new copy has a name, a content or none, and a number.
LEMMA AddedType ==
  ASSUME NEW s \in SUBSET (Name \X File \X Dup), NEW n \in Name,
         NEW c \in File, NEW t \in Added(n, c, s)
  PROVE  t \in SUBSET (Name \X File \X Dup)
<1>1. PICK k \in Dup : t = s \cup {<<n, c, k>>}
  BY DEF Added
<1>2. QED BY <1>1

LEMMA StoreType ==
  ASSUME TypeOK, NEW d \in Device, NEW c \in File,
         NEW s \in Added(target[d], c, archive[d]), NEW t \in SUBSET s,
         Store(d, s, t)
  PROVE  /\ archive' \in [Device -> SUBSET (Name \X File \X Dup)]
         /\ dropped' \in [Device -> SUBSET (Name \X File)]
<1>1. target[d] \in Name /\ archive[d] \in SUBSET (Name \X File \X Dup)
  BY DEF TypeOK
<1>2. s \in SUBSET (Name \X File \X Dup)
  BY <1>1, AddedType
<1>3. {<<v[1], v[2]>> : v \in s \ t} \in SUBSET (Name \X File)
  BY <1>2
<1>4. QED BY <1>2, <1>3 DEF Store, TypeOK

\* A step of a round keeps the type.
LEMMA WorkType ==
  ASSUME TypeOK, NEW d \in Device, Work(d)
  PROVE  TypeOK'
<1> USE DEF TypeOK, Opening, Busy
<1>1. ASSUME NEW p \in Source[d], Connect(d, p) PROVE TypeOK'
  BY <1>1, DeviceAssumption DEF Connect, stores, bounds, ghosts
<1>2. CASE Scan(d)
  <2>1. \/ pc' = [pc EXCEPT ![d] = "scanned"] /\ UNCHANGED todo
        \/ Walk(d, remote[d])
    BY <1>2 DEF Scan
  <2>2. Opened(d)
    BY <2>1, OpenType
  <2>3. QED BY <1>2, <2>2 DEF Scan, Opened, stores, bounds, ghosts
<1>3. CASE Snapshot(d)
  <2>1. \/ pc' = [pc EXCEPT ![d] = "served"] /\ UNCHANGED todo
        \/ Walk(d, disk[peer[d]])
    BY <1>3 DEF Snapshot, Served
  <2>2. Opened(d)
    BY <2>1, OpenType
  <2>3. remote' \in [Device -> [Name -> File]]
    BY <1>3 DEF Snapshot, Served
  <2>4. /\ UNCHANGED <<stores, peer, local, path, target, tmp, clock, ops, ghosts>>
        /\ faults' \in 0 .. MaxFaults
    BY <1>3 DEF Snapshot, Served, bounds
  <2> HIDE DEF TypeOK
  <2>5. QED BY <2>2, <2>3, <2>4, OpenedType
<1>4. ASSUME NEW n \in todo[d], Leave(d, n) PROVE TypeOK'
  BY <1>4 DEF Leave, stores, bounds, ghosts
<1>5. ASSUME NEW n \in todo[d], Take(d, n) PROVE TypeOK'
  <2>1. n \in Name /\ CopyName[n, d, clock] \in Name
    BY <1>5, NameAssumption
  <2>2. /\ todo' \in [Device -> SUBSET Name]
        /\ path' \in [Device -> Name]
        /\ target' \in [Device -> Name]
    BY <1>5, <2>1 DEF Take
  <2>3. pc' = [pc EXCEPT ![d] = "fetch"] /\ pc[d] = "pull"
        /\ \A e \in Device \ {d} : todo'[e] = todo[e]
    BY <1>5 DEF Take
  <2>4. UNCHANGED <<stores, peer, remote, local, tmp, bounds, ghosts>>
    BY <1>5 DEF Take
  <2>5. QED BY <2>2, <2>3, <2>4 DEF stores, bounds, ghosts
<1>6. CASE Fetch(d)
  BY <1>6 DEF Fetch, Read, stores, bounds, ghosts
<1>7. CASE FetchFails(d)
  BY <1>7, IdleType DEF FetchFails, stores, bounds, ghosts
<1>8. CASE Archive(d)
  <2>1. /\ archive' \in [Device -> SUBSET (Name \X File \X Dup)]
        /\ dropped' \in [Device -> SUBSET (Name \X File)]
    <3>1. CASE disk[d][target[d]] = NoFile
      BY <1>8, <3>1 DEF Archive
    <3>2. CASE disk[d][target[d]] # NoFile
      BY <1>8, <3>2, StoreType DEF Archive, Pruned, Cut
    <3>3. QED BY <3>1, <3>2
  <2>2. QED BY <1>8, <2>1 DEF Archive, bounds
<1>9. CASE Install(d)
  BY <1>9, SomeNameType DEF Install, NextFile, bounds, ghosts, File
<1>10. CASE Record(d)
  BY <1>10, IdleType DEF Record, bounds, ghosts
<1>11. QED
  BY <1>1, <1>2, <1>3, <1>4, <1>5, <1>6, <1>7, <1>8, <1>9, <1>10
     DEF Work

\* A broken round keeps the type.
LEMMA FaultType ==
  ASSUME TypeOK, NEW d \in Device, Fault(d)
  PROVE  TypeOK'
<1> USE DEF TypeOK, Opening, Busy
<1>1. CASE SnapshotLacks(d)
  <2>1. faults' \in 0 .. MaxFaults
    BY <1>1, BoundAssumption DEF SnapshotLacks
  <2>2. \/ pc' = [pc EXCEPT ![d] = "served"] /\ UNCHANGED todo
        \/ Walk(d, Empty)
    BY <1>1 DEF SnapshotLacks, Served
  <2>3. Opened(d)
    BY <2>2, OpenType
  <2>4. remote' \in [Device -> [Name -> File]]
    BY <1>1, EmptyType DEF SnapshotLacks, Served
  <2>5. UNCHANGED <<stores, peer, local, path, target, tmp, clock, ops, ghosts>>
    BY <1>1 DEF SnapshotLacks, Served
  <2> HIDE DEF TypeOK
  <2>6. QED BY <2>1, <2>3, <2>4, <2>5, OpenedType
<1>2. CASE Abort(d)
  <2>1. faults' \in 0 .. MaxFaults
    BY <1>2, BoundAssumption DEF Abort
  <2>2. QED BY <1>2, <2>1, IdleType DEF Abort, stores, ghosts
<1>3. CASE ArchiveFails(d)
  <2>1. faults' \in 0 .. MaxFaults
    BY <1>3, BoundAssumption DEF ArchiveFails
  <2>2. /\ archive' \in [Device -> SUBSET (Name \X File \X Dup)]
        /\ dropped' \in [Device -> SUBSET (Name \X File)]
    BY <1>3, StoreType DEF ArchiveFails, Cut, File
  <2>3. QED BY <1>3, <2>1, <2>2, IdleType DEF ArchiveFails
<1>4. QED BY <1>1, <1>2, <1>3 DEF Fault

LEMMA NextType == TypeOK /\ [Next]_vars => TypeOK'
<1> SUFFICES ASSUME TypeOK, [Next]_vars PROVE TypeOK'
  OBVIOUS
<1>1. ASSUME NEW d \in Writer, User(d) PROVE TypeOK'
  BY <1>1, UserType, DeviceAssumption
<1>2. ASSUME NEW d \in Device, Work(d) PROVE TypeOK'
  BY <1>2, WorkType
<1>3. ASSUME NEW d \in Device, Fault(d) PROVE TypeOK'
  BY <1>3, FaultType
<1>4. CASE Tick
  BY <1>4, BoundAssumption DEF Tick, TypeOK, Second, stores, round, ghosts
<1>5. CASE UNCHANGED vars
  BY <1>5 DEF vars, TypeOK, stores, round, bounds, ghosts
<1>6. QED BY <1>1, <1>2, <1>3, <1>4, <1>5 DEF Next

\* Every reachable state has its type, and between rounds nothing of a round
\* of Engine.PullFolder is left.
THEOREM TypeCorrect == Spec => []TypeOK
BY InitType, NextType, PTL DEF Spec

-----------------------------------------------------------------------------
(* NoForeignContent.  It is not inductive: an install writes what the round *)
(* fetched, and what it fetched is what the peer's snapshot held.           *)

\* Every file of an index is one that some user put at a path of that root.
Placed(index) ==
  \A n \in Name : index[n] # NoFile => <<Root[n], index[n]>> \in placed

Provenance ==
  /\ \A d \in Device : Placed(disk[d]) /\ Placed(remote[d])
  /\ \A d \in Device : todo[d] \subseteq Files(remote[d])
  /\ \A d \in Device : pc[d] \in Opening => todo[d] = {}
  /\ \A d \in Device : pc[d] \in Busy =>
       /\ remote[d][path[d]] # NoFile
       /\ Root[target[d]] = Root[path[d]]
  /\ \A d \in Device :
       pc[d] \in {"archive", "rename"} => tmp[d] = remote[d][path[d]]

LEMMA InitProvenance == Init => Provenance
BY DEF Init, Provenance, Placed, Empty, Opening, Busy, Files

\* A user only adds to placed, and what he puts in the folder he adds.
LEMMA ChangedProvenance ==
  ASSUME TypeOK, Provenance, NEW d \in Device, NEW files \in [Name -> File],
         NEW new \in SUBSET Files(files), Changed(d, files, new),
         \A n \in Name : files[n] \in {NoFile, disk[d][n]} \/ n \in new
  PROVE  Provenance'
<1>1. placed \subseteq placed'
  BY DEF Changed
<1>2. \A n \in new : <<Root[n], files[n]>> \in placed'
  BY DEF Changed
<1>3. \A n \in Name : files[n] # NoFile => <<Root[n], files[n]>> \in placed'
  BY <1>1, <1>2 DEF Provenance, Placed
<1>4. disk' = [disk EXCEPT ![d] = files] /\ UNCHANGED round
  BY DEF Changed
<1>5. \A e \in Device : disk'[e] = IF e = d THEN files ELSE disk[e]
  BY <1>4 DEF TypeOK
<1>6. \A e \in Device : Placed(disk[e])'
  <2> SUFFICES ASSUME NEW e \in Device, NEW n \in Name,
                      disk'[e][n] # NoFile
               PROVE  <<Root[n], disk'[e][n]>> \in placed'
    BY DEF Placed
  <2>1. CASE e = d
    BY <2>1, <1>3, <1>5
  <2>2. CASE e # d
    BY <2>2, <1>1, <1>5 DEF Provenance, Placed
  <2>3. QED BY <2>1, <2>2
<1>7. \A e \in Device : Placed(remote[e])'
  BY <1>1, <1>4 DEF Provenance, Placed, round
<1>8. QED
  BY <1>4, <1>6, <1>7 DEF Provenance, round, Files

LEMMA UserProvenance ==
  ASSUME TypeOK, Provenance, NEW d \in Device, User(d)
  PROVE  Provenance'
<1>1. PICK files \in [Name -> File] : \E new \in SUBSET Files(files) :
        /\ Changed(d, files, new)
        /\ \A n \in Name : files[n] \in {NoFile, disk[d][n]} \/ n \in new
  BY UserChange
<1>2. QED BY <1>1, ChangedProvenance

LEMMA IdleProvenance ==
  ASSUME TypeOK, Provenance, NEW d \in Device, Idle(d), UNCHANGED <<disk, placed>>
  PROVE  Provenance'
BY DEF Idle, Provenance, Placed, Empty, Files, Opening, Busy, TypeOK

\* The peer's index, once served, is that of a folder as it was.
LEMMA ServedProvenance ==
  ASSUME TypeOK, Provenance, NEW d \in Device, NEW index, Served(d, index),
         Placed(index)
  PROVE  Provenance'
<1>1. todo[d] = {} /\ UNCHANGED <<disk, placed, path, target, tmp>>
  BY DEF Served, stores, ghosts, Provenance, Opening
<1>2. remote' = [remote EXCEPT ![d] = index]
  BY DEF Served
<1>3. CASE pc' = [pc EXCEPT ![d] = "served"] /\ UNCHANGED todo
  BY <1>1, <1>2, <1>3 DEF Provenance, Placed, Files, Opening, Busy, TypeOK
<1>4. CASE Walk(d, index)
  BY <1>1, <1>2, <1>4 DEF Walk, Provenance, Placed, Files, Opening, Busy, TypeOK
<1>5. QED BY <1>3, <1>4 DEF Served

LEMMA WorkProvenance ==
  ASSUME TypeOK, Provenance, NEW d \in Device, Work(d)
  PROVE  Provenance'
<1> USE DEF Provenance, Opening, Busy
<1>1. ASSUME NEW p \in Source[d], Connect(d, p) PROVE Provenance'
  BY <1>1 DEF Connect, stores, bounds, ghosts, Placed, Files, TypeOK
<1>2. CASE Scan(d)
  <2>1. UNCHANGED <<disk, remote, path, target, tmp, placed>> /\ todo[d] = {}
    BY <1>2 DEF Scan, stores, ghosts
  <2>2. CASE pc' = [pc EXCEPT ![d] = "scanned"] /\ UNCHANGED todo
    BY <2>1, <2>2 DEF Placed, Files, TypeOK
  <2>3. CASE Walk(d, remote[d])
    BY <2>1, <2>3 DEF Walk, Placed, Files, TypeOK
  <2>4. QED BY <1>2, <2>2, <2>3 DEF Scan
<1>3. CASE Snapshot(d)
  <2>1. Placed(disk[peer[d]])
    BY DEF TypeOK
  <2>2. QED BY <1>3, <2>1, ServedProvenance DEF Snapshot
<1>4. ASSUME NEW n \in todo[d], Leave(d, n) PROVE Provenance'
  BY <1>4 DEF Leave, stores, bounds, ghosts, Placed, Files, TypeOK
<1>5. ASSUME NEW n \in todo[d], Take(d, n) PROVE Provenance'
  <2>1. n \in Name /\ remote[d][n] # NoFile
    BY DEF Files
  <2>2. clock \in Second
    BY DEF TypeOK
  <2>3. Root[CopyName[n, d, clock]] = Root[n]
    BY ONLY NameAssumption, <2>1, <2>2, d \in Device, Zenon
  <2>4. Root[target'[d]] = Root[path'[d]]
    BY <1>5, <2>3 DEF Take, TypeOK
  <2>5. /\ UNCHANGED <<disk, remote, tmp, placed>>
        /\ path'[d] = n /\ pc'[d] = "fetch" /\ todo'[d] \subseteq todo[d]
        /\ \A e \in Device \ {d} :
             UNCHANGED <<pc[e], todo[e], path[e], target[e]>>
    <3>1. /\ UNCHANGED <<disk, remote, tmp, placed>>
          /\ todo' = [todo EXCEPT ![d] = todo[d] \ {n}]
          /\ pc' = [pc EXCEPT ![d] = "fetch"]
          /\ path' = [path EXCEPT ![d] = n]
      BY ONLY <1>5 DEF Take, stores, ghosts
    <3>2. \E x : target' = [target EXCEPT ![d] = x]
      BY ONLY <1>5, Zenon DEF Take
    <3>3. /\ todo \in [Device -> SUBSET Name] /\ DOMAIN pc = Device
          /\ pc = [e \in Device |-> pc[e]] /\ path \in [Device -> Name] /\ target \in [Device -> Name]
      BY ONLY TypeOK DEF TypeOK
    <3> QED
      BY ONLY <3>1, <3>2, <3>3, d \in Device
  <2>6. \A e \in Device : pc'[e] \in Busy =>
          /\ remote[e][path'[e]] # NoFile
          /\ Root[target'[e]] = Root[path'[e]]
    BY <2>1, <2>4, <2>5
  <2>7. QED BY <2>5, <2>6 DEF Placed, Files
<1>6. CASE Fetch(d)
  BY <1>6 DEF Fetch, Read, stores, bounds, ghosts, Placed, Files, TypeOK
<1>7. CASE FetchFails(d)
  BY <1>7, IdleProvenance DEF FetchFails, stores, bounds, ghosts
<1>8. CASE Archive(d)
  BY <1>8 DEF Archive, bounds, ghosts, Placed, Files, TypeOK
<1>9. CASE Install(d)
  <2>1. /\ tmp[d] # NoFile
        /\ tmp[d] = remote[d][path[d]]
        /\ Root[target[d]] = Root[path[d]]
        /\ path[d] \in Name /\ target[d] \in Name
    BY <1>9 DEF Install, TypeOK
  <2>2. <<Root[target[d]], tmp[d]>> \in placed
    BY <2>1 DEF Placed
  <2>3. disk' = [disk EXCEPT ![d] = [disk[d] EXCEPT ![target[d]] = tmp[d]]]
    BY <1>9 DEF Install
  <2>4. placed' = placed /\ UNCHANGED <<remote, todo>>
    BY <1>9 DEF Install, ghosts
  <2>5. \A e \in Device : Placed(disk[e])'
    <3> SUFFICES ASSUME NEW e \in Device, NEW n \in Name, disk'[e][n] # NoFile
                 PROVE  <<Root[n], disk'[e][n]>> \in placed
      BY <2>4 DEF Placed
    <3>1. CASE e = d /\ n = target[d]
      BY <3>1, <2>1, <2>2, <2>3 DEF TypeOK
    <3>2. CASE ~(e = d /\ n = target[d])
      <4>1. disk'[e][n] = disk[e][n]
        BY <3>2, <2>1, <2>3 DEF TypeOK
      <4>2. QED BY <4>1 DEF Placed
    <3>3. QED BY <3>1, <3>2
  <2>6. QED
    BY <1>9, <2>4, <2>5 DEF Install, NextFile, ghosts, Placed, Files, TypeOK
<1>10. CASE Record(d)
  BY <1>10, IdleProvenance DEF Record, bounds, ghosts
<1>11. QED
  BY <1>1, <1>2, <1>3, <1>4, <1>5, <1>6, <1>7, <1>8, <1>9, <1>10
     DEF Work

LEMMA FaultProvenance ==
  ASSUME TypeOK, Provenance, NEW d \in Device, Fault(d)
  PROVE  Provenance'
<1>1. CASE SnapshotLacks(d)
  <2>1. Placed(Empty)
    BY DEF Placed, Empty
  <2>2. QED BY <1>1, <2>1, ServedProvenance DEF SnapshotLacks
<1>2. CASE Abort(d)
  BY <1>2, IdleProvenance DEF Abort, stores, ghosts
<1>3. CASE ArchiveFails(d)
  BY <1>3, IdleProvenance DEF ArchiveFails
<1>4. QED BY <1>1, <1>2, <1>3 DEF Fault

LEMMA NextProvenance == TypeOK /\ Provenance /\ [Next]_vars => Provenance'
<1> SUFFICES ASSUME TypeOK, Provenance, [Next]_vars PROVE Provenance'
  OBVIOUS
<1>1. ASSUME NEW d \in Writer, User(d) PROVE Provenance'
  BY <1>1, UserProvenance, DeviceAssumption
<1>2. ASSUME NEW d \in Device, Work(d) PROVE Provenance'
  BY <1>2, WorkProvenance
<1>3. ASSUME NEW d \in Device, Fault(d) PROVE Provenance'
  BY <1>3, FaultProvenance
<1>4. CASE Tick
  BY <1>4 DEF Tick, stores, round, ghosts, Provenance, Placed, Files
<1>5. CASE UNCHANGED vars
  BY <1>5 DEF vars, stores, round, ghosts, Provenance, Placed, Files
<1>6. QED BY <1>1, <1>2, <1>3, <1>4, <1>5 DEF Next

\* Whatever the users, the peers and the faults do, a file only ever holds
\* what a user put at that path: pullFile installs nothing it did not verify.
THEOREM NoForeignContentHolds == Spec => []NoForeignContent
<1>1. Provenance => NoForeignContent
  BY DEF Provenance, Placed, NoForeignContent
<1>2. QED
  BY <1>1, TypeCorrect, InitProvenance, NextProvenance, PTL DEF Spec

-----------------------------------------------------------------------------
(* UserWorkKept.  It is not inductive: an install needs that what it will   *)
(* overwrite was archived, or written after the archiving.                  *)

\* Pruning leaves a list with Keep copies with Keep copies: the list it goes
\* through, the ones that hold that list, and the ones that have nothing in
\* common with it.  A name in a list within that list is in that list.
LEMMA CutLeavesCrowded ==
  ASSUME NEW s, IsFiniteSet(s), NEW n \in Name, NEW t \in Cut(n, s),
         NEW m \in Name, Crowded(m, s)
  PROVE  Crowded(m, t)
<1>1. PICK k \in Name : m \in Lists[k] /\ Cardinality(Listed(k, s)) >= Keep
  BY DEF Crowded
<1>2. t \subseteq s /\ s \ t \subseteq Listed(n, s)
  BY DEF Cut
<1>3. CASE t = s
  BY <1>3
<1>4. CASE t # s
  <2>1. Cardinality(Listed(n, t)) >= Keep
    BY <1>4 DEF Cut
  <2>2. CASE Lists[k] \subseteq Lists[n]
    BY <1>1, <2>1, <2>2 DEF Crowded
  <2>3. CASE Lists[n] \subseteq Lists[k]
    <3>1. Listed(n, t) \subseteq Listed(k, t)
      BY <2>3 DEF Listed
    <3>2. IsFiniteSet(t)
      BY <1>2, FS_Subset
    <3>3. IsFiniteSet(Listed(k, t))
      BY <3>2, FS_Subset DEF Listed
    <3>4. /\ Cardinality(Listed(n, t)) \in Nat
          /\ Cardinality(Listed(k, t)) \in Nat
          /\ Cardinality(Listed(n, t)) <= Cardinality(Listed(k, t))
      BY <3>1, <3>3, FS_Subset, FS_CardinalityType
    <3>5. Cardinality(Listed(k, t)) >= Keep
      BY <2>1, <3>4, ListAssumption
    <3>6. QED BY <1>1, <3>5 DEF Crowded
  <2>4. CASE Lists[k] \cap Lists[n] = {}
    <3>1. Listed(k, t) = Listed(k, s)
      BY <1>2, <2>4 DEF Listed
    <3>2. QED BY <1>1, <3>1 DEF Crowded
  <2>5. QED BY <2>2, <2>3, <2>4, ListAssumption
<1>5. QED BY <1>3, <1>4

\* What pruning drops was in a list that keeps Keep copies.
LEMMA CutDropsCrowded ==
  ASSUME NEW s, NEW n \in Name, NEW t \in Cut(n, s), NEW v \in s \ t
  PROVE  Crowded(v[1], t)
<1>1. v[1] \in Lists[n] /\ Cardinality(Listed(n, t)) >= Keep
  BY DEF Cut, Listed
<1>2. QED BY <1>1 DEF Crowded

\* w needs no place in d's folder.
Safe(d, w) ==
  \/ Stored(w, archive[d])
  \/ w \in dropped[d] /\ Crowded(w[1], archive[d])
  \/ w \in late

LEMMA AddedFacts ==
  ASSUME NEW a, IsFiniteSet(a), NEW n, NEW c, NEW s \in Added(n, c, a)
  PROVE  /\ a \subseteq s /\ IsFiniteSet(s) /\ Stored(<<n, c>>, s)
         /\ \A m \in Name : Crowded(m, a) => Crowded(m, s)
<1>1. PICK k \in Dup : s = a \cup {<<n, c, k>>}
  BY DEF Added
<1>2. a \subseteq s /\ IsFiniteSet(s)
  BY <1>1, FS_AddElement
<1>3. Stored(<<n, c>>, s)
  <2>1. <<n, c, k>> \in s
    BY <1>1
  <2>2. <<n, c, k>>[1] = <<n, c>>[1] /\ <<n, c, k>>[2] = <<n, c>>[2]
    OBVIOUS
  <2>3. QED BY <2>1, <2>2 DEF Stored
<1>4. ASSUME NEW m \in Name, Crowded(m, a) PROVE Crowded(m, s)
  <2>1. PICK k2 \in Name : m \in Lists[k2] /\ Cardinality(Listed(k2, a)) >= Keep
    BY <1>4 DEF Crowded
  <2>2. Listed(k2, a) \subseteq Listed(k2, s)
    BY <1>2 DEF Listed
  <2>3. IsFiniteSet(Listed(k2, s))
    BY <1>2, FS_Subset DEF Listed
  <2>4. /\ Cardinality(Listed(k2, a)) \in Nat
        /\ Cardinality(Listed(k2, s)) \in Nat
        /\ Cardinality(Listed(k2, a)) <= Cardinality(Listed(k2, s))
    BY <2>2, <2>3, FS_Subset, FS_CardinalityType
  <2>5. Cardinality(Listed(k2, s)) >= Keep
    BY <2>1, <2>4, ListAssumption
  <2>6. QED BY <2>1, <2>5 DEF Crowded
<1>5. QED BY <1>2, <1>3, <1>4

\* Storing a copy of c, and pruning however far, leaves safe what was safe, and
\* makes what was copied safe.
LEMMA StoreKeepsSafe ==
  ASSUME TypeOK, NEW d \in Device, IsFiniteSet(archive[d]), NEW c \in File,
         NEW s \in Added(target[d], c, archive[d]),
         NEW t \in Cut(target[d], s), Store(d, s, t), late' = late
  PROVE  /\ IsFiniteSet(archive'[d])
         /\ \A w \in Name \X Content :
              Safe(d, w) \/ w = <<target[d], c>> => Safe(d, w)'
         /\ \A e \in Device \ {d} : archive'[e] = archive[e] /\ dropped'[e] = dropped[e]
<1>1. /\ archive'[d] = t
      /\ dropped'[d] = dropped[d] \cup {<<v[1], v[2]>> : v \in s \ t}
      /\ \A e \in Device \ {d} : archive'[e] = archive[e] /\ dropped'[e] = dropped[e]
  BY DEF Store, TypeOK
<1>2. target[d] \in Name
  BY DEF TypeOK
<1>3. /\ archive[d] \subseteq s /\ IsFiniteSet(s)
      /\ Stored(<<target[d], c>>, s)
      /\ \A m \in Name : Crowded(m, archive[d]) => Crowded(m, s)
  BY AddedFacts
<1>4. IsFiniteSet(t)
  BY <1>3, FS_Subset DEF Cut
<1>5. ASSUME NEW w \in Name \X Content, Safe(d, w) \/ w = <<target[d], c>>
      PROVE  Safe(d, w)'
  <2>1. CASE w \in late
    BY <2>1 DEF Safe
  <2>2. CASE w \in dropped[d] /\ Crowded(w[1], archive[d])
    <3>1. Crowded(w[1], t)
      BY <1>2, <1>3, <2>2, CutLeavesCrowded
    <3>2. QED BY <1>1, <2>2, <3>1 DEF Safe
  <2>3. CASE Stored(w, archive[d]) \/ w = <<target[d], c>>
    <3>1. Stored(w, s)
      BY <1>3, <2>3 DEF Stored
    <3>2. PICK v \in s : v[1] = w[1] /\ v[2] = w[2]
      BY <3>1 DEF Stored
    <3>3. CASE v \in t
      BY <1>1, <3>2, <3>3 DEF Safe, Stored
    <3>4. CASE v \notin t
      <4>1. Crowded(w[1], t)
        BY <1>2, <3>2, <3>4, CutDropsCrowded
      <4>2. <<v[1], v[2]>> = w
        BY <3>2
      <4>3. w \in dropped'[d]
        BY <1>1, <3>4, <4>2
      <4>4. QED BY <1>1, <4>1, <4>3 DEF Safe
    <3>5. QED BY <3>3, <3>4
  <2>4. QED BY <1>5, <2>1, <2>2, <2>3 DEF Safe
<1>6. QED BY <1>1, <1>4, <1>5

Covered ==
  \A d \in Device : pc[d] = "rename" /\ disk[d][target[d]] # NoFile =>
    Safe(d, <<target[d], disk[d][target[d]]>>)

Finite == \A d \in Device : IsFiniteSet(archive[d])

Keeping == UserWorkKept /\ Covered /\ Finite

LEMMA InitKeeping == Init => Keeping
BY FS_EmptySet DEF Init, Keeping, UserWorkKept, Covered, Finite

\* A user takes out of mine what he replaces or removes, and what he writes
\* over the target of a pending rename is late.
LEMMA ChangedKeeping ==
  ASSUME TypeOK, Keeping, NEW d \in Device, NEW files \in [Name -> File],
         NEW new \in SUBSET Files(files), Changed(d, files, new),
         \A n \in Name : files[n] \in {NoFile, disk[d][n]} \/ n \in new
  PROVE  Keeping'
<1> DEFINE gone == {n \in Name : files[n] # disk[d][n]}
           lost == {<<n, disk[d][n]>> : n \in gone}
           put  == {<<n, files[n]>> : n \in new}
<1>1. /\ disk' = [disk EXCEPT ![d] = files]
      /\ mine' = [mine EXCEPT ![d] = (mine[d] \ lost) \cup put]
      /\ UNCHANGED <<archive, dropped, pc, target>>
      /\ late \subseteq late'
      /\ pc[d] = "rename" /\ target[d] \in new =>
           <<target[d], files[target[d]]>> \in late'
  BY DEF Changed, round
<1>2. \A e \in Device : /\ e # d => disk'[e] = disk[e] /\ mine'[e] = mine[e]
                        /\ e = d => disk'[e] = files
                                 /\ mine'[e] = (mine[d] \ lost) \cup put
  BY <1>1 DEF TypeOK
<1>3. \A e \in Device : \A w : Safe(e, w) => Safe(e, w)'
  BY <1>1 DEF Safe
<1>4. UserWorkKept'
  <2> SUFFICES ASSUME NEW e \in Device, NEW w \in mine'[e]
               PROVE  disk'[e][w[1]] = w[2] \/ Safe(e, w)'
    BY DEF UserWorkKept, Safe
  <2>1. CASE e # d
    BY <2>1, <1>2, <1>3 DEF Keeping, UserWorkKept, Safe
  <2>2. CASE e = d /\ w \in put
    BY <2>2, <1>2
  <2>3. CASE e = d /\ w \in mine[d] \ lost
    <3>1. w \in Name \X Content /\ w = <<w[1], w[2]>>
      BY <2>3 DEF TypeOK
    <3>2. CASE disk[d][w[1]] = w[2]
      <4>1. w[1] \notin gone
        BY <2>3, <3>1, <3>2
      <4>2. files[w[1]] = disk[d][w[1]]
        BY <3>1, <4>1
      <4>3. QED BY <2>3, <1>2, <3>2, <4>2
    <3>3. CASE Safe(d, w)
      BY <3>3, <2>3, <1>3
    <3>4. QED BY <2>3, <3>2, <3>3 DEF Keeping, UserWorkKept, Safe
  <2> HIDE DEF put, lost
  <2>4. QED BY <2>1, <2>2, <2>3, <1>2
<1>5. Covered'
  <2> SUFFICES ASSUME NEW e \in Device, pc[e] = "rename", NEW m, m = target[e],
                      NEW c, c = disk'[e][m], c # NoFile
               PROVE  Safe(e, <<m, c>>)'
    BY <1>1 DEF Covered, Safe
  <2>1. m \in Name
    BY DEF TypeOK
  <2>2. CASE e # d \/ (e = d /\ m \notin new)
    <3>1. c = disk[e][m]
      BY <2>1, <2>2, <1>2
    <3>2. Safe(e, <<m, c>>)
      BY <3>1 DEF Keeping, Covered
    <3>3. QED BY <1>3, <3>2
  <2>3. CASE e = d /\ m \in new
    <3>1. <<m, c>> \in late'
      BY <2>3, <1>1, <1>2
    <3>2. QED BY <3>1 DEF Safe
  <2>4. QED BY <2>2, <2>3
<1>6. QED BY <1>1, <1>4, <1>5 DEF Keeping, Finite

LEMMA UserKeeping ==
  ASSUME TypeOK, Keeping, NEW d \in Device, User(d)
  PROVE  Keeping'
<1>1. PICK files \in [Name -> File] : \E new \in SUBSET Files(files) :
        /\ Changed(d, files, new)
        /\ \A n \in Name : files[n] \in {NoFile, disk[d][n]} \/ n \in new
  BY UserChange
<1>2. QED BY <1>1, ChangedKeeping

\* Every step of a round but the archiving and the install leaves the files,
\* the version store and the users' marks alone, and starts no rename.
LEMMA QuietKeeping ==
  ASSUME TypeOK, Keeping, UNCHANGED <<disk, archive, mine, late, dropped>>,
         \A d \in Device :
           pc'[d] = "rename" => pc[d] = "rename" /\ target'[d] = target[d]
  PROVE  Keeping'
BY DEF Keeping, UserWorkKept, Covered, Safe, Finite

\* A step that stores a copy, and begins a rename only when that copy is of what
\* it will replace.
LEMMA StoreKeeping ==
  ASSUME TypeOK, Keeping, NEW d \in Device, NEW c \in File,
         NEW s \in Added(target[d], c, archive[d]),
         NEW t \in Cut(target[d], s), Store(d, s, t),
         UNCHANGED <<disk, mine, late>>,
         \A e \in Device \ {d} : pc'[e] = pc[e] /\ target'[e] = target[e],
         pc'[d] = "rename" => c = disk[d][target[d]] /\ target'[d] = target[d]
  PROVE  Keeping'
<1>1. /\ IsFiniteSet(archive'[d])
      /\ \A w \in Name \X Content :
           Safe(d, w) \/ w = <<target[d], c>> => Safe(d, w)'
      /\ \A e \in Device \ {d} : archive'[e] = archive[e] /\ dropped'[e] = dropped[e]
  BY StoreKeepsSafe DEF Keeping, Finite
<1>2. \A e \in Device \ {d} : \A w : Safe(e, w) => Safe(e, w)'
  BY <1>1 DEF Safe
<1>3. Finite'
  BY <1>1 DEF Keeping, Finite
<1>4. UserWorkKept'
  <2> SUFFICES ASSUME NEW e \in Device, NEW w \in mine[e]
               PROVE  disk[e][w[1]] = w[2] \/ Safe(e, w)'
    BY DEF UserWorkKept, Safe
  <2>1. disk[e][w[1]] = w[2] \/ Safe(e, w)
    BY DEF Keeping, UserWorkKept, Safe
  <2>2. w \in Name \X Content
    BY DEF TypeOK
  <2>3. QED BY <1>1, <1>2, <2>1, <2>2
<1>5. Covered'
  <2> SUFFICES ASSUME NEW e \in Device, pc'[e] = "rename",
                      NEW m, m = target'[e], NEW f, f = disk[e][m], f # NoFile
               PROVE  Safe(e, <<m, f>>)'
    BY DEF Covered
  <2>1. m = target[e] /\ m \in Name
    BY DEF TypeOK
  <2>2. CASE e = d
    <3>1. <<m, f>> \in Name \X Content /\ <<m, f>> = <<target[d], c>>
      BY <2>1, <2>2 DEF TypeOK, File
    <3>2. QED BY <1>1, <2>2, <3>1
  <2>3. CASE e # d
    <3>1. Safe(e, <<m, f>>)
      BY <2>1, <2>3 DEF Keeping, Covered
    <3>2. QED BY <1>2, <2>3, <3>1
  <2>4. QED BY <2>2, <2>3
<1>6. QED BY <1>3, <1>4, <1>5 DEF Keeping

LEMMA WorkKeeping ==
  ASSUME TypeOK, Keeping, NEW d \in Device, Work(d)
  PROVE  Keeping'
<1>1. ASSUME NEW p \in Source[d], Connect(d, p) PROVE Keeping'
  BY <1>1, QuietKeeping DEF Connect, stores, ghosts, TypeOK
<1>2. CASE Scan(d)
  BY <1>2, QuietKeeping DEF Scan, Walk, stores, ghosts, TypeOK
<1>3. CASE Snapshot(d)
  BY <1>3, QuietKeeping DEF Snapshot, Served, Walk, stores, ghosts, TypeOK
<1>4. ASSUME NEW n \in todo[d], Leave(d, n) PROVE Keeping'
  BY <1>4, QuietKeeping DEF Leave, stores, ghosts, TypeOK
<1>5. ASSUME NEW n \in todo[d], Take(d, n) PROVE Keeping'
  BY <1>5, QuietKeeping DEF Take, stores, ghosts, TypeOK
<1>6. CASE Fetch(d)
  BY <1>6, QuietKeeping DEF Fetch, Read, stores, ghosts, TypeOK
<1>7. CASE FetchFails(d)
  BY <1>7, QuietKeeping DEF FetchFails, Idle, stores, ghosts, TypeOK
<1>8. CASE Archive(d)
  <2>1. /\ UNCHANGED <<disk, mine, late, target>> /\ pc[d] = "archive"
        /\ \A e \in Device \ {d} : pc'[e] = pc[e]
    BY <1>8 DEF Archive, TypeOK
  <2>2. CASE disk[d][target[d]] = NoFile
    <3>1. UNCHANGED <<archive, dropped>>
      BY <1>8, <2>2 DEF Archive
    <3>2. QED BY <2>1, <2>2, <3>1 DEF Keeping, UserWorkKept, Covered, Safe, Finite
  <2>3. CASE disk[d][target[d]] # NoFile
    <3>1. PICK s \in Added(target[d], disk[d][target[d]], archive[d]) :
                 \E t \in Pruned(target[d], s) : Store(d, s, t)
      BY <1>8, <2>3 DEF Archive
    <3>2. PICK t \in Cut(target[d], s) : Store(d, s, t)
      BY <3>1 DEF Pruned
    <3>3. disk[d][target[d]] \in File
      BY DEF TypeOK
    <3>4. QED BY <2>1, <3>2, <3>3, StoreKeeping
  <2>4. QED BY <2>2, <2>3
<1>9. CASE Install(d)
  <2>1. /\ pc[d] = "rename" /\ target[d] \in Name
        /\ UNCHANGED <<archive, dropped, mine, late>>
        /\ pc' = [pc EXCEPT ![d] = "pull"]
        /\ \A e \in Device \ {d} : disk'[e] = disk[e] /\ target'[e] = target[e]
        /\ \A n \in Name \ {target[d]} : disk'[d][n] = disk[d][n]
    BY <1>9 DEF Install, NextFile, ghosts, TypeOK
  <2>2. ASSUME NEW w \in mine[d]
        PROVE  disk'[d][w[1]] = w[2] \/ Safe(d, w)
    <3>1. w \in Name \X Content /\ w = <<w[1], w[2]>> /\ w[2] # NoFile
      BY DEF TypeOK, Content, NoFile
    <3>2. CASE w[1] = target[d]
      BY <3>1, <3>2, <2>1 DEF Keeping, UserWorkKept, Covered, Safe
    <3>3. CASE w[1] # target[d]
      BY <3>1, <3>3, <2>1 DEF Keeping, UserWorkKept, Safe
    <3>4. QED BY <3>2, <3>3
  <2>3. UserWorkKept'
    BY <2>1, <2>2 DEF Keeping, UserWorkKept, Safe
  <2>4. Covered'
    BY <2>1 DEF Keeping, Covered, Safe, TypeOK
  <2>5. QED BY <2>1, <2>3, <2>4 DEF Keeping, Finite
<1>10. CASE Record(d)
  BY <1>10, QuietKeeping DEF Record, Idle, ghosts, TypeOK
<1>11. QED
  BY <1>1, <1>2, <1>3, <1>4, <1>5, <1>6, <1>7, <1>8, <1>9, <1>10
     DEF Work

LEMMA FaultKeeping ==
  ASSUME TypeOK, Keeping, NEW d \in Device, Fault(d)
  PROVE  Keeping'
<1>1. CASE SnapshotLacks(d)
  BY <1>1, QuietKeeping DEF SnapshotLacks, Served, Walk, stores, ghosts, TypeOK
<1>2. CASE Abort(d)
  BY <1>2, QuietKeeping DEF Abort, Idle, stores, ghosts, TypeOK
<1>3. CASE ArchiveFails(d)
  <2>1. /\ UNCHANGED <<disk, mine, late>> /\ pc'[d] = "idle"
        /\ \A e \in Device \ {d} : pc'[e] = pc[e] /\ target'[e] = target[e]
    BY <1>3 DEF ArchiveFails, Idle, TypeOK
  <2>2. PICK c \in File :
          \E s \in Added(target[d], c, archive[d]) :
            \E t \in Cut(target[d], s) : Store(d, s, t)
    <3>1. disk[d][target[d]] \in File /\ NoFile \in File
      BY DEF TypeOK, File
    <3>2. \A s : s \in Cut(target[d], s)
      BY DEF Cut
    <3>3. QED BY <1>3, <3>1, <3>2 DEF ArchiveFails
  <2>3. QED BY <2>1, <2>2, StoreKeeping
<1>4. QED BY <1>1, <1>2, <1>3 DEF Fault

LEMMA NextKeeping == TypeOK /\ Keeping /\ [Next]_vars => Keeping'
<1> SUFFICES ASSUME TypeOK, Keeping, [Next]_vars PROVE Keeping'
  OBVIOUS
<1>1. ASSUME NEW d \in Writer, User(d) PROVE Keeping'
  BY <1>1, UserKeeping, DeviceAssumption
<1>2. ASSUME NEW d \in Device, Work(d) PROVE Keeping'
  BY <1>2, WorkKeeping
<1>3. ASSUME NEW d \in Device, Fault(d) PROVE Keeping'
  BY <1>3, FaultKeeping
<1>4. CASE Tick
  BY <1>4, QuietKeeping DEF Tick, stores, round, ghosts
<1>5. CASE UNCHANGED vars
  BY <1>5, QuietKeeping DEF vars, stores, round, ghosts
<1>6. QED BY <1>1, <1>2, <1>3, <1>4, <1>5 DEF Next

\* Sync never takes a user's last content from him without a copy: it is on disk
\* or in the version store, or the store has dropped it for Keep others, unless he
\* wrote it between an archiving and a rename.
THEOREM UserWorkIsKept == Spec => []UserWorkKept
<1>1. Keeping => UserWorkKept
  BY DEF Keeping
<1>2. QED BY <1>1, TypeCorrect, InitKeeping, NextKeeping, PTL DEF Spec
-----------------------------------------------------------------------------
(* What a round does.  While its user leaves it alone, a folder ends up, at  *)
(* the end of a complete round, as session.Pull has decided for every name: *)
(* the peer's file, or the one that was there.                              *)

\* d's user makes his changes between rounds.
LeftAlone(d) == [][User(d) => pc[d] = "idle"]_vars

Outcome(d, n) ==
  IF remote[d][n] # NoFile /\ Verdict(d, n) = "takeRemote"
  THEN remote[d][n] ELSE local[d][n]

\* No conflict copy that the round may write has the name n.
NoCopy(d, n) ==
  \A m \in Files(remote[d]) : \A t \in Second :
    Verdict(d, m) = "conflictCopy" => CopyName[m, d, t] # n

\* The round has handled the whole index.
Walked(d) == pc[d] = "pull" /\ todo[d] = {}

AsDecided(d) ==
  Walked(d) => \A n \in Name : NoCopy(d, n) => disk[d][n] = Outcome(d, n)

\* A folder that is as the last round recorded it gets every file that the peer
\* serves and loses none, and no file of it gets a copy.
FastForwards(d) ==
  Walked(d) /\ local[d] = baseline[d] =>
    disk[d] = [n \in Name |-> IF remote[d][n] = NoFile THEN local[d][n]
                                                       ELSE remote[d][n]]

\* The names that the round has yet to handle, or is handling.
Ahead(d) == todo[d] \cup IF pc[d] \in Busy THEN {path[d]} ELSE {}

\* Where the file being pulled goes.
Aimed(d) ==
  \/ Verdict(d, path[d]) = "takeRemote" /\ target[d] = path[d]
  \/ /\ Verdict(d, path[d]) = "conflictCopy"
     /\ \E t \in Second : target[d] = CopyName[path[d], d, t]

\* The folder is as it was scanned at the names ahead, and as it will be at the
\* others.
Forward(d) ==
  /\ pc[d] = "scanned" => local[d] = disk[d]
  /\ pc[d] \in Busy => path[d] \notin todo[d] /\ Aimed(d)
  /\ pc[d] \in {"pull"} \cup Busy =>
       \A n \in Name : NoCopy(d, n) =>
         disk[d][n] = IF n \in Ahead(d) THEN local[d][n] ELSE Outcome(d, n)

LEMMA InitForward == ASSUME NEW d \in Device, Init PROVE Forward(d)
BY DEF Init, Forward, Busy

\* As long as neither index nor the baseline changes, nor does what has been
\* decided.
Settled(d) ==
  /\ remote'[d] = remote[d] /\ local'[d] = local[d]
  /\ baseline'[d] = baseline[d]

LEMMA Decided ==
  ASSUME NEW d \in Device, Settled(d)
  PROVE  /\ \A n \in Name : Verdict(d, n)' = Verdict(d, n)
         /\ \A n \in Name : Outcome(d, n)' = Outcome(d, n)
         /\ \A n \in Name : NoCopy(d, n)' = NoCopy(d, n)
BY DEF Settled, Verdict, Outcome, NoCopy, Files

\* Nothing of d is touched.
Apart(d) ==
  /\ disk'[d] = disk[d] /\ baseline'[d] = baseline[d] /\ pc'[d] = pc[d]
  /\ remote'[d] = remote[d] /\ local'[d] = local[d] /\ todo'[d] = todo[d]
  /\ path'[d] = path[d] /\ target'[d] = target[d]

LEMMA ApartForward ==
  ASSUME NEW d \in Device, Forward(d), Apart(d)
  PROVE  Forward(d)'
<1>1. Settled(d) /\ Ahead(d)' = Ahead(d) /\ (Aimed(d) => Aimed(d)')
  BY DEF Apart, Settled, Ahead, Aimed, Verdict
<1>2. QED BY <1>1, Decided DEF Apart, Forward, Busy

\* Users, and the rounds of other devices, leave d's folder and round alone.
LEMMA OthersApart ==
  ASSUME TypeOK, NEW d \in Device, NEW e \in Device, e # d,
         User(e) \/ Work(e) \/ Fault(e)
  PROVE  Apart(d)
<1> USE DEF TypeOK, Apart
<1>1. CASE User(e)
  <2>1. PICK files : disk' = [disk EXCEPT ![e] = files]
                     /\ UNCHANGED <<baseline, round>>
    BY <1>1 DEF User, UserEdit, UserDelete, UserMove, Changed
  <2>2. QED BY <2>1 DEF round
<1>2. CASE \E p \in Source[e] : Connect(e, p)
  BY <1>2 DEF Connect, stores
<1>3. CASE Snapshot(e) \/ SnapshotLacks(e)
  BY <1>3 DEF Snapshot, SnapshotLacks, Served, Walk, stores
<1>4. CASE Scan(e)
  BY <1>4 DEF Scan, Walk, stores
<1>5. ASSUME NEW n \in todo[e], Leave(e, n) \/ Take(e, n) PROVE Apart(d)
  <2>1. CASE Leave(e, n)
    BY <2>1 DEF Leave, stores
  <2>2. CASE Take(e, n)
    BY <2>2 DEF Take, stores
  <2>3. QED BY <1>5, <2>1, <2>2
<1>6. CASE Fetch(e)
  BY <1>6 DEF Fetch, stores
<1>7. CASE FetchFails(e) \/ ArchiveFails(e) \/ Abort(e)
  BY <1>7 DEF FetchFails, ArchiveFails, Abort, Idle, stores
<1>8. CASE Archive(e)
  BY <1>8 DEF Archive
<1>9. CASE Install(e)
  BY <1>9 DEF Install, NextFile
<1>10. CASE Record(e)
  BY <1>10 DEF Record, Idle
<1>11. QED
  BY <1>1, <1>2, <1>3, <1>4, <1>5, <1>6, <1>7, <1>8, <1>9, <1>10
     DEF Work, Fault

\* The walk begins where the folder is as it was scanned.
LEMMA WalkForward ==
  ASSUME TypeOK, NEW d \in Device, NEW index \in [Name -> File],
         Walk(d, index), remote'[d] = index, disk' = disk, local'[d] = disk[d]
  PROVE  Forward(d)'
<1>1. pc'[d] = "pull" /\ todo'[d] = Files(index)
  BY DEF Walk, TypeOK
<1>2. \A n \in Name : n \notin todo'[d] => Outcome(d, n)' = local'[d][n]
  BY <1>1 DEF Files, Outcome
<1>3. Ahead(d)' = todo'[d]
  BY <1>1 DEF Ahead, Busy
<1>4. QED BY <1>1, <1>2, <1>3 DEF Forward, Busy

\* A step of d's own round.
LEMMA WorkForward ==
  ASSUME TypeOK, Provenance, NEW d \in Device, Forward(d),
         Work(d) \/ Fault(d)
  PROVE  Forward(d)'
<1>0. /\ disk[d] \in [Name -> File] /\ remote[d] \in [Name -> File]
      /\ local[d] \in [Name -> File] /\ peer[d] \in Device
      /\ todo[d] \subseteq Files(remote[d])
      /\ pc[d] \in Busy => path[d] \in Files(remote[d])
  BY DEF TypeOK, Provenance, Files
<1>1. CASE \E p \in Source[d] : Connect(d, p)
  BY <1>1 DEF Connect, Forward, TypeOK, Busy
<1>2. ASSUME NEW index \in [Name -> File], Served(d, index)
      PROVE  Forward(d)'
  <2>1. remote'[d] = index /\ local'[d] = local[d] /\ disk' = disk
    BY <1>2 DEF Served, stores, TypeOK
  <2>2. CASE pc' = [pc EXCEPT ![d] = "served"]
    BY <2>2 DEF Forward, Busy, TypeOK
  <2>3. CASE pc[d] = "scanned" /\ Walk(d, index)
    BY <2>1, <2>3, WalkForward DEF Forward
  <2>4. QED BY <1>2, <2>2, <2>3 DEF Served
<1>3. CASE Snapshot(d)
  <2>1. disk[peer[d]] \in [Name -> File]
    BY <1>0 DEF TypeOK
  <2>2. QED BY <1>2, <1>3, <2>1 DEF Snapshot
<1>4. CASE SnapshotLacks(d)
  BY <1>2, <1>4, EmptyType DEF SnapshotLacks
<1>5. CASE Scan(d)
  <2>1. remote'[d] = remote[d] /\ local'[d] = disk[d] /\ disk' = disk
    BY <1>5 DEF Scan, stores, TypeOK
  <2>2. CASE pc' = [pc EXCEPT ![d] = "scanned"]
    BY <2>1, <2>2 DEF Forward, Busy, TypeOK
  <2>3. CASE Walk(d, remote[d])
    BY <1>0, <2>1, <2>3, WalkForward
  <2>4. QED BY <1>5, <2>2, <2>3 DEF Scan
<1>6. ASSUME NEW n \in todo[d], Leave(d, n) PROVE Forward(d)'
  <2>1. /\ pc[d] = "pull" /\ pc'[d] = "pull" /\ todo'[d] = todo[d] \ {n}
        /\ Verdict(d, n) \in {"same", "keepLocal"} /\ n \in Name
        /\ disk' = disk /\ local' = local /\ Settled(d)
    BY <1>6 DEF Leave, stores, TypeOK, Settled
  <2>2. Outcome(d, n) = local[d][n]
    BY <2>1 DEF Outcome
  <2>3. Ahead(d) = todo[d] /\ Ahead(d)' = todo[d] \ {n}
    BY <2>1 DEF Ahead, Busy
  <2>4. QED BY <2>1, <2>2, <2>3, Decided DEF Forward, Busy
<1>7. ASSUME NEW n \in todo[d], Take(d, n) PROVE Forward(d)'
  <2>1. /\ pc[d] = "pull" /\ pc'[d] = "fetch" /\ n \in Name
        /\ todo'[d] = todo[d] \ {n} /\ path'[d] = n
        /\ target'[d] = IF Verdict(d, n) = "conflictCopy"
                        THEN CopyName[n, d, clock] ELSE n
        /\ Verdict(d, n) \in {"takeRemote", "conflictCopy"}
        /\ disk' = disk /\ local' = local /\ Settled(d) /\ clock \in Second
    BY <1>7 DEF Take, stores, TypeOK, Settled
  <2>2. Aimed(d)'
    BY <2>1, Decided DEF Aimed
  <2>3. Ahead(d)' = todo[d] /\ Ahead(d) = todo[d]
    BY <2>1 DEF Ahead, Busy
  <2>4. path'[d] \notin todo'[d]
    BY <2>1
  <2>5. ASSUME NEW m \in Name, NoCopy(d, m)'
        PROVE  disk'[d][m] = IF m \in Ahead(d)' THEN local'[d][m]
                                                ELSE Outcome(d, m)'
    <3>1. NoCopy(d, m) /\ Outcome(d, m)' = Outcome(d, m)
      BY <2>1, <2>5, Decided
    <3>2. disk[d][m] = IF m \in Ahead(d) THEN local[d][m] ELSE Outcome(d, m)
      BY <2>1, <3>1 DEF Forward
    <3>3. QED BY <2>1, <2>3, <3>1, <3>2
  <2>6. QED BY <2>1, <2>2, <2>4, <2>5 DEF Forward
<1>8. CASE Fetch(d) \/ Archive(d)
  <2>1. /\ pc[d] \in Busy /\ pc'[d] \in Busy
        /\ UNCHANGED <<disk, baseline, remote, local, todo, path, target>>
    <3>1. CASE Fetch(d)
      BY <3>1 DEF Fetch, stores, TypeOK, Busy
    <3>2. CASE Archive(d)
      BY <3>2 DEF Archive, TypeOK, Busy
    <3>3. QED BY <1>8, <3>1, <3>2
  <2>2. Settled(d) /\ Ahead(d)' = Ahead(d) /\ (Aimed(d) => Aimed(d)')
    BY <2>1 DEF Settled, Ahead, Aimed, Verdict
  <2>3. pc'[d] # "scanned"
    BY <2>1 DEF Busy
  <2>4. QED BY <2>1, <2>2, <2>3, Decided DEF Forward, Busy
<1>9. CASE Install(d)
  <2>1. /\ pc[d] = "rename" /\ pc'[d] = "pull" /\ target[d] \in Name
        /\ disk'[d] = [disk[d] EXCEPT ![target[d]] = tmp[d]]
        /\ todo' = todo /\ local' = local /\ Settled(d)
    BY <1>9 DEF Install, NextFile, TypeOK, Settled
  <2>2. path[d] \notin todo[d] /\ Aimed(d)
    BY <2>1 DEF Forward, Busy
  <2>3. tmp[d] = remote[d][path[d]] /\ path[d] \in Files(remote[d])
    BY <1>0, <2>1 DEF Provenance, Busy
  <2>4. Ahead(d) = todo[d] \cup {path[d]} /\ Ahead(d)' = todo[d]
    BY <2>1 DEF Ahead, Busy
  <2>5. SUFFICES ASSUME NEW n \in Name, NoCopy(d, n)
                 PROVE  disk'[d][n] = IF n \in todo[d] THEN local[d][n]
                                                       ELSE Outcome(d, n)
    BY <2>1, <2>4, Decided DEF Forward, Busy
  <2>6. disk[d][n] = IF n \in Ahead(d) THEN local[d][n] ELSE Outcome(d, n)
    BY <2>1, <2>5 DEF Forward, Busy
  <2>7. CASE n # target[d]
    <3>1. disk'[d][n] = disk[d][n]
      BY <1>0, <2>1, <2>7
    <3>2. n = path[d] => Outcome(d, n) = local[d][n]
      BY <2>2, <2>7 DEF Aimed, Outcome
    <3>3. QED BY <2>4, <2>6, <3>1, <3>2
  <2>8. CASE n = target[d]
    <3>1. Verdict(d, path[d]) = "takeRemote" /\ n = path[d]
      BY <2>2, <2>3, <2>5, <2>8 DEF Aimed, NoCopy
    <3>2. Outcome(d, n) = tmp[d]
      BY <2>3, <3>1 DEF Outcome, Files
    <3>3. disk'[d][n] = tmp[d] /\ n \notin todo[d]
      BY <1>0, <2>1, <2>2, <2>8, <3>1
    <3>4. QED BY <3>2, <3>3
  <2>9. QED BY <2>7, <2>8
<1>10. CASE FetchFails(d) \/ Record(d) \/ ArchiveFails(d) \/ Abort(d)
  <2>1. pc'[d] = "idle"
    BY <1>10 DEF FetchFails, Record, ArchiveFails, Abort, Idle, TypeOK
  <2>2. QED BY <2>1 DEF Forward, Busy
<1>11. QED
  BY <1>1, <1>3, <1>4, <1>5, <1>6, <1>7, <1>8, <1>9, <1>10 DEF Work, Fault

LEMMA NextForward ==
  ASSUME NEW d \in Device, TypeOK, Provenance, Forward(d), [Next]_vars,
         [User(d) => pc[d] = "idle"]_vars
  PROVE  Forward(d)'
<1>1. ASSUME NEW e \in Writer, User(e), e # d PROVE Forward(d)'
  BY <1>1, DeviceAssumption, OthersApart, ApartForward
<1>2. CASE User(d)
  <2>1. UNCHANGED round
    BY <1>2 DEF User, UserEdit, UserDelete, UserMove, Changed
  <2>2. CASE pc[d] = "idle"
    BY <2>1, <2>2 DEF round, Forward, Busy
  <2>3. CASE UNCHANGED vars
    <3>1. Apart(d)
      BY <2>3 DEF vars, stores, round, Apart
    <3>2. QED BY <3>1, ApartForward
  <2>4. QED BY <1>2, <2>2, <2>3
<1>3. ASSUME NEW e \in Device, Work(e) \/ Fault(e) PROVE Forward(d)'
  BY <1>3, WorkForward, OthersApart, ApartForward
<1>4. CASE Tick \/ UNCHANGED vars
  <2>1. Apart(d)
    BY <1>4 DEF Tick, vars, stores, round, Apart
  <2>2. QED BY <2>1, ApartForward
<1>5. QED BY <1>1, <1>2, <1>3, <1>4 DEF Next

\* A complete round has done at every name what session.Pull decided there,
\* from one scan and one index: the file is what the peer advertised or what
\* was there, whatever else has changed meanwhile on any device.
THEOREM RoundsDoAsDecided ==
  ASSUME NEW d \in Device
  PROVE  Spec /\ LeftAlone(d) => []AsDecided(d)
<1>1. Forward(d) => AsDecided(d)
  BY DEF Forward, AsDecided, Walked, Ahead, Busy
<1>2. Init => TypeOK /\ Provenance /\ Forward(d)
  BY InitType, InitProvenance, InitForward
<1>3. TypeOK /\ Provenance /\ Forward(d) /\ [Next]_vars
          /\ [User(d) => pc[d] = "idle"]_vars
        => TypeOK' /\ Provenance' /\ Forward(d)'
  BY NextType, NextProvenance, NextForward
<1>4. QED BY <1>1, <1>2, <1>3, PTL DEF Spec, LeftAlone

\* A folder that is as recorded has no conflict with any index: what it does
\* not take is already the same.
LEMMA NoConflict ==
  ASSUME NEW d \in Device, NEW n \in Files(remote[d]), local[d] = baseline[d]
  PROVE  Verdict(d, n) =
           IF local[d][n] = remote[d][n] THEN "same" ELSE "takeRemote"
<1>1. remote[d][n] # NoFile
  BY DEF Files
<1>2. CASE local[d][n] \in {NoFile, remote[d][n]}
  BY <1>1, <1>2 DEF Verdict
<1>3. CASE local[d][n] \notin {NoFile, remote[d][n]}
  <2>1. Classify(local[d][n], remote[d][n], baseline[d][n]) = "takeRemote"
    BY <1>3 DEF Classify
  <2>2. QED BY <1>3, <2>1 DEF Verdict
<1>4. QED BY <1>2, <1>3

\* So a complete round fast-forwards it.
THEOREM RoundsFastForward ==
  ASSUME NEW d \in Device
  PROVE  Spec /\ LeftAlone(d) => []FastForwards(d)
<1>1. ASSUME TypeOK, AsDecided(d) PROVE FastForwards(d)
  <2> SUFFICES ASSUME Walked(d), local[d] = baseline[d], NEW n \in Name
               PROVE  disk[d][n] = IF remote[d][n] = NoFile THEN local[d][n]
                                                           ELSE remote[d][n]
    BY <1>1 DEF FastForwards, TypeOK
  <2>1. NoCopy(d, n)
    BY NoConflict DEF NoCopy
  <2>2. disk[d][n] = Outcome(d, n)
    BY <1>1, <2>1 DEF AsDecided
  <2>3. CASE n \in Files(remote[d])
    BY <2>2, <2>3, NoConflict DEF Outcome, Files
  <2>4. CASE n \notin Files(remote[d])
    BY <2>2, <2>4 DEF Outcome, Files
  <2>5. QED BY <2>3, <2>4
<1>2. QED BY <1>1, TypeCorrect, RoundsDoAsDecided, PTL
-----------------------------------------------------------------------------
(* Where both sides have changed, both contents are kept.                   *)

\* The names for copies of m are for nothing else.
OwnNames(d, m) ==
  \A t \in Second :
    /\ CopyName[m, d, t] \notin Files(remote[d])
    /\ \A o \in Files(remote[d]) \ {m} : \A u \in Second :
         CopyName[o, d, u] # CopyName[m, d, t]

Copied(d, m) == \E t \in Second : disk[d][CopyName[m, d, t]] = remote[d][m]

\* A file in conflict stays, and what the peer has is beside it.
KeepsBoth(d) ==
  Walked(d) =>
    \A m \in Files(remote[d]) :
      Verdict(d, m) = "conflictCopy" /\ OwnNames(d, m) /\ NoCopy(d, m) =>
        disk[d][m] = local[d][m] /\ Copied(d, m)

\* The copies are made one by one.
Copying(d) ==
  pc[d] \in {"pull"} \cup Busy =>
    \A m \in Files(remote[d]) \ Ahead(d) :
      Verdict(d, m) = "conflictCopy" /\ OwnNames(d, m) => Copied(d, m)

\* A step that leaves d's folder and what was decided, and handles no conflict.
LEMMA QuietCopying ==
  ASSUME NEW d \in Device, Copying(d), Settled(d), disk'[d] = disk[d],
         pc'[d] \in {"pull"} \cup Busy => pc[d] \in {"pull"} \cup Busy,
         \A m \in Files(remote[d]) :
           Verdict(d, m) = "conflictCopy" /\ m \notin Ahead(d)' => m \notin Ahead(d)
  PROVE  Copying(d)'
<1>1. /\ \A m \in Name : Verdict(d, m)' = Verdict(d, m)
      /\ \A m \in Name : OwnNames(d, m)' = OwnNames(d, m)
      /\ \A m \in Name : Copied(d, m)' = Copied(d, m)
      /\ Files(remote[d])' = Files(remote[d]) /\ Files(remote[d]) \subseteq Name
  BY Decided DEF Settled, OwnNames, Copied, Files
<1>2. QED BY <1>1 DEF Copying

\* A step of another device, or of the clock.
LEMMA ApartCopying ==
  ASSUME NEW d \in Device, Copying(d), Apart(d)
  PROVE  Copying(d)'
BY QuietCopying DEF Apart, Settled, Ahead

LEMMA WorkCopying ==
  ASSUME TypeOK, Provenance, NEW d \in Device, Forward(d), Copying(d),
         Work(d) \/ Fault(d)
  PROVE  Copying(d)'
<1>1. ASSUME pc'[d] \notin {"pull"} \cup Busy PROVE Copying(d)'
  BY <1>1 DEF Copying
<1>2. CASE (\E p \in Source[d] : Connect(d, p)) \/ FetchFails(d) \/ Record(d)
           \/ ArchiveFails(d) \/ Abort(d)
  BY <1>1, <1>2
     DEF Connect, FetchFails, Record, ArchiveFails, Abort, Idle, TypeOK, Busy
<1>3. ASSUME NEW index, Walk(d, index), remote'[d] = index PROVE Copying(d)'
  BY <1>3 DEF Walk, TypeOK, Copying, Ahead
<1>4. CASE Scan(d)
  BY <1>1, <1>3, <1>4 DEF Scan, TypeOK, Busy
<1>5. CASE Snapshot(d) \/ SnapshotLacks(d)
  <2>1. PICK index : Served(d, index)
    BY <1>5 DEF Snapshot, SnapshotLacks
  <2>2. QED BY <1>1, <1>3, <2>1 DEF Served, TypeOK, Busy
<1>6. ASSUME NEW n \in todo[d], Leave(d, n) PROVE Copying(d)'
  <2>1. /\ Ahead(d) = todo[d] /\ Ahead(d)' = todo[d] \ {n}
        /\ Verdict(d, n) # "conflictCopy" /\ pc[d] = "pull"
        /\ disk' = disk /\ Settled(d)
    BY <1>6 DEF Leave, stores, TypeOK, Ahead, Busy, Settled
  <2>2. QED BY <2>1, QuietCopying
<1>7. ASSUME NEW n \in todo[d], Take(d, n) PROVE Copying(d)'
  <2>1. /\ pc[d] = "pull" /\ pc'[d] = "fetch" /\ path'[d] = n
        /\ todo'[d] = todo[d] \ {n} /\ disk' = disk /\ Settled(d)
    BY <1>7 DEF Take, stores, TypeOK, Settled
  <2>2. Ahead(d)' = Ahead(d)
    BY <2>1 DEF Ahead, Busy
  <2>3. QED BY <2>1, <2>2, QuietCopying
<1>8. CASE Fetch(d) \/ Archive(d)
  <2>1. /\ pc[d] \in Busy /\ pc'[d] \in Busy
        /\ UNCHANGED <<disk, baseline, remote, local, todo, path>>
    <3>1. CASE Fetch(d)
      BY <3>1 DEF Fetch, stores, TypeOK, Busy
    <3>2. CASE Archive(d)
      BY <3>2 DEF Archive, TypeOK, Busy
    <3>3. QED BY <1>8, <3>1, <3>2
  <2>2. Settled(d) /\ Ahead(d)' = Ahead(d)
    BY <2>1 DEF Settled, Ahead
  <2>3. QED BY <2>1, <2>2, QuietCopying
<1>9. CASE Install(d)
  <2>1. /\ pc[d] = "rename" /\ pc'[d] = "pull" /\ target[d] \in Name
        /\ disk[d] \in [Name -> File]
        /\ disk'[d] = [disk[d] EXCEPT ![target[d]] = tmp[d]]
        /\ todo' = todo /\ Settled(d)
    BY <1>9 DEF Install, NextFile, TypeOK, Settled
  <2>2. /\ Aimed(d) /\ path[d] \in Files(remote[d])
        /\ tmp[d] = remote[d][path[d]]
    <3>1. path[d] \in Name
      BY DEF TypeOK
    <3>2. Aimed(d)
      BY <2>1 DEF Forward, Busy
    <3>3. QED BY <2>1, <3>1, <3>2 DEF Provenance, Busy, Files
  <2>3. Ahead(d) = todo[d] \cup {path[d]} /\ Ahead(d)' = todo[d]
    BY <2>1 DEF Ahead, Busy
  <2>4. SUFFICES ASSUME NEW m \in Files(remote[d]), m \notin todo[d],
                        Verdict(d, m) = "conflictCopy", OwnNames(d, m)
                 PROVE  \E t \in Second :
                          disk'[d][CopyName[m, d, t]] = remote[d][m]
    <3>1. Files(remote[d])' = Files(remote[d]) /\ remote'[d] = remote[d]
      BY <2>1 DEF Settled, Files
    <3>2. \A m \in Files(remote[d]) : Verdict(d, m)' = Verdict(d, m)
      BY <2>1, Decided DEF Files
    <3>3. \A m \in Files(remote[d]) : OwnNames(d, m)' => OwnNames(d, m)
      BY <3>1 DEF OwnNames
    <3>4. QED BY <2>3, <3>1, <3>2, <3>3 DEF Copying, Copied
  <2>5. \A t \in Second : CopyName[m, d, t] \in Name
    BY NameAssumption DEF Files
  <2>6. CASE m = path[d]
    <3>1. PICK t \in Second : target[d] = CopyName[m, d, t]
      BY <2>2, <2>4, <2>6 DEF Aimed
    <3>2. disk'[d][CopyName[m, d, t]] = remote[d][m]
      BY <2>1, <2>2, <2>6, <3>1
    <3>3. QED BY <3>2
  <2>7. CASE m # path[d]
    <3>1. PICK t \in Second : disk[d][CopyName[m, d, t]] = remote[d][m]
      BY <2>1, <2>3, <2>4, <2>7 DEF Copying, Copied, Busy
    <3>2. target[d] # CopyName[m, d, t]
      BY <2>2, <2>4, <2>7 DEF Aimed, OwnNames
    <3>3. disk'[d][CopyName[m, d, t]] = remote[d][m]
      BY <2>1, <2>5, <3>1, <3>2
    <3>4. QED BY <3>3
  <2>8. QED BY <2>6, <2>7
<1>10. QED
  BY <1>2, <1>4, <1>5, <1>6, <1>7, <1>8, <1>9 DEF Work, Fault

LEMMA NextCopying ==
  ASSUME NEW d \in Device, TypeOK, Provenance, Forward(d), Copying(d),
         [Next]_vars, [User(d) => pc[d] = "idle"]_vars
  PROVE  Copying(d)'
<1>1. ASSUME NEW e \in Writer, User(e), e # d PROVE Copying(d)'
  BY <1>1, DeviceAssumption, OthersApart, ApartCopying
<1>2. CASE UNCHANGED vars \/ Tick
  <2>1. Apart(d)
    BY <1>2 DEF Tick, vars, stores, round, Apart
  <2>2. QED BY <2>1, ApartCopying
<1>3. CASE User(d) /\ pc[d] = "idle"
  <2>1. UNCHANGED round
    BY <1>3 DEF User, UserEdit, UserDelete, UserMove, Changed
  <2>2. QED BY <1>3, <2>1 DEF round, Copying, Busy
<1>4. ASSUME NEW e \in Device, Work(e) \/ Fault(e) PROVE Copying(d)'
  BY <1>4, WorkCopying, OthersApart, ApartCopying
<1>5. QED BY <1>1, <1>2, <1>3, <1>4 DEF Next

\* After a complete round, a file that was in conflict is as it was, and the
\* peer's is in a copy beside it, unless the copy's name is one that the peer
\* serves, or another file's copy has it.
THEOREM ConflictsKeepBoth ==
  ASSUME NEW d \in Device
  PROVE  Spec /\ LeftAlone(d) => []KeepsBoth(d)
<1>1. ASSUME Forward(d), Copying(d) PROVE KeepsBoth(d)
  <2> SUFFICES ASSUME Walked(d), NEW m \in Files(remote[d]), OwnNames(d, m),
                      Verdict(d, m) = "conflictCopy", NoCopy(d, m)
               PROVE  disk[d][m] = local[d][m] /\ Copied(d, m)
    BY DEF KeepsBoth
  <2>1. Ahead(d) = {}
    BY DEF Walked, Ahead, Busy
  <2>2. Copied(d, m)
    BY <1>1, <2>1 DEF Copying, Walked
  <2>3. disk[d][m] = Outcome(d, m)
    BY <1>1, <2>1 DEF Forward, Walked, Files
  <2>4. QED BY <2>2, <2>3 DEF Outcome
<1>2. Init => TypeOK /\ Provenance /\ Forward(d) /\ Copying(d)
  BY InitType, InitProvenance, InitForward DEF Init, Copying, Busy
<1>3. TypeOK /\ Provenance /\ Forward(d) /\ Copying(d) /\ [Next]_vars
          /\ [User(d) => pc[d] = "idle"]_vars
        => TypeOK' /\ Provenance' /\ Forward(d)' /\ Copying(d)'
  BY NextType, NextProvenance, NextForward, NextCopying
<1>4. QED BY <1>1, <1>2, <1>3, PTL DEF Spec, LeftAlone
=============================================================================
