------------------------------ MODULE Assembly ------------------------------
(***************************************************************************)
(* session.pullFile, one system call at a time, for one destination file:  *)
(* the blocks go to a temporary file beside it, which is renamed over it.  *)
(*                                                                         *)
(* A puller is a round with one peer; daemon.beginSync keeps two rounds    *)
(* with the same peer apart, not two rounds with different peers, and both *)
(* use the same temporary name.  Files are inodes, as the names move       *)
(* between them while descriptors stay open.                               *)
(***************************************************************************)
EXTENDS Integers, Sequences

CONSTANTS
  Puller,     \* the rounds that may pull this file
  Inode,      \* enough of them: two names and a descriptor per puller
  Block,      \* what files are made of
  Version,    \* the file versions (block sequences) a peer may advertise
  Old,        \* the version at the destination to begin with
  Hole,       \* what a reader gets where nothing was written
  Nil,        \* no inode, no version
  MaxCrashes  \* bound: how many times the process stops

ASSUME VersionAssumption ==
  /\ Version \subseteq Seq(Block) /\ Old \in Seq(Block) \ Version
  /\ Nil \notin Version
  /\ MaxCrashes \in Nat

\* When the temporary name is free, some inode is too.
ASSUME InodeAssumption ==
  /\ Inode # {} /\ Nil \notin Inode
  /\ \A i \in Inode : \A f \in [Puller -> Inode \cup {Nil}] :
       \E j \in Inode : j # i /\ \A p \in Puller : f[p] # j

VARIABLES
  dest,     \* the inode the destination names
  temp,     \* the inode the temporary name stands for, or Nil
  data,     \* data[i]: the blocks in inode i
  pc,       \* pc[p]: where puller p is
  want,     \* want[p]: the version p's peer advertised
  fd,       \* fd[p]: the inode p's descriptor writes to
  pos,      \* pos[p]: how many blocks p has written and hashed
  crashes

vars == <<dest, temp, data, pc, want, fd, pos, crashes>>

FirstInode == CHOOSE i \in Inode : TRUE

Init ==
  /\ dest = FirstInode
  /\ temp = Nil
  /\ data = [i \in Inode |-> IF i = FirstInode THEN Old ELSE <<>>]
  /\ pc = [p \in Puller |-> "idle"]
  /\ want = [p \in Puller |-> Nil]
  /\ fd = [p \in Puller |-> Nil]
  /\ pos = [p \in Puller |-> 0]
  /\ crashes = 0

\* An inode that no name and no descriptor holds.
Unused == Inode \ ({dest, temp} \cup {fd[p] : p \in Puller})

\* os.Create: a new inode, or the one the name has, emptied.
Creat(p, i) ==
  /\ temp' = i
  /\ fd' = [fd EXCEPT ![p] = i]
  /\ data' = [data EXCEPT ![i] = <<>>]

\* Mutant of Begin: os.OpenFile without truncation.
BeginKeeping(p) ==
  /\ pc[p] = "idle"
  /\ \E v \in Version : want' = [want EXCEPT ![p] = v]
  /\ IF temp # Nil
     THEN fd' = [fd EXCEPT ![p] = temp] /\ UNCHANGED <<temp, data>>
     ELSE Creat(p, CHOOSE i \in Unused : TRUE)
  /\ pos' = [pos EXCEPT ![p] = 0]
  /\ pc' = [pc EXCEPT ![p] = "write"]
  /\ UNCHANGED <<dest, crashes>>

\* The blocks have been fetched; open the temporary file.
Begin(p) ==
  /\ pc[p] = "idle"
  /\ \E v \in Version : want' = [want EXCEPT ![p] = v]
  /\ IF temp # Nil THEN Creat(p, temp)
     ELSE Creat(p, CHOOSE i \in Unused : TRUE)
  /\ pos' = [pos EXCEPT ![p] = 0]
  /\ pc' = [pc EXCEPT ![p] = "write"]
  /\ UNCHANGED <<dest, crashes>>

\* A file after block b is written at position k; a gap reads as Hole.
Put(file, k, b) ==
  LET top == IF Len(file) < k THEN k ELSE Len(file)
  IN  [j \in 1 .. top |->
         IF j = k THEN b ELSE IF j <= Len(file) THEN file[j] ELSE Hole]

\* Write the next block: its data matched the block's hash.
Write(p) ==
  LET k == pos[p] + 1
  IN  /\ pc[p] = "write"
      /\ k <= Len(want[p])
      /\ data' = [data EXCEPT ![fd[p]] = Put(@, k, want[p][k])]
      /\ pos' = [pos EXCEPT ![p] = k]
      /\ UNCHANGED <<dest, temp, pc, want, fd, crashes>>

\* Forget the pulled file.
Leave(p) ==
  /\ pc' = [pc EXCEPT ![p] = "idle"]
  /\ want' = [want EXCEPT ![p] = Nil]
  /\ fd' = [fd EXCEPT ![p] = Nil]
  /\ pos' = [pos EXCEPT ![p] = 0]

\* Mutant of Fail: what has been written is installed as it is.
FailInstalling(p) ==
  /\ pc[p] = "write"
  /\ temp # Nil
  /\ dest' = temp
  /\ temp' = Nil
  /\ Leave(p)
  /\ UNCHANGED <<data, crashes>>

\* A block is missing or does not match, or a file operation fails: close, and
\* remove whatever has the temporary name.
Fail(p) ==
  /\ pc[p] \in {"write", "closed"}
  /\ temp' = Nil
  /\ Leave(p)
  /\ UNCHANGED <<dest, data, crashes>>

\* Mutant of Close: the descriptor stays open.
CloseLeaking(p) ==
  /\ pc[p] = "write"
  /\ pos[p] = Len(want[p])
  /\ pc' = [pc EXCEPT ![p] = "closed"]
  /\ UNCHANGED <<dest, temp, data, want, fd, pos, crashes>>

\* All blocks written: close, and compare the whole-file hash.  The hash is
\* that of the blocks p wrote, in order, whatever the file now holds.
Close(p) ==
  /\ pc[p] = "write"
  /\ pos[p] = Len(want[p])
  /\ pc' = [pc EXCEPT ![p] = "closed"]
  /\ fd' = [fd EXCEPT ![p] = Nil]
  /\ UNCHANGED <<dest, temp, data, want, pos, crashes>>

\* Rename whatever has the temporary name over the destination.
Rename(p) ==
  /\ pc[p] = "closed"
  /\ temp # Nil
  /\ dest' = temp
  /\ temp' = Nil
  /\ Leave(p)
  /\ UNCHANGED <<data, crashes>>

\* os.Rename returns an error, because the temporary name is gone or the
\* destination cannot be replaced: the temporary file, if any, stays.
RenameFails(p) ==
  /\ pc[p] = "closed"
  /\ Leave(p)
  /\ UNCHANGED <<dest, temp, data, crashes>>

\* The process stops; the temporary file stays for a later round to find.
Crash ==
  /\ crashes < MaxCrashes
  /\ crashes' = crashes + 1
  /\ pc' = [p \in Puller |-> "idle"]
  /\ want' = [p \in Puller |-> Nil]
  /\ fd' = [p \in Puller |-> Nil]
  /\ pos' = [p \in Puller |-> 0]
  /\ UNCHANGED <<dest, temp, data>>

Next ==
  \/ \E p \in Puller :
       \/ Begin(p) \/ Write(p) \/ Close(p)
       \/ Rename(p) \/ RenameFails(p) \/ Fail(p)
  \/ Crash

Spec == Init /\ [][Next]_vars

-----------------------------------------------------------------------------

\* Descriptors and names stand for inodes; a puller that is not writing has
\* no descriptor; the process that crashed left at most the temporary file.
TypeOK ==
  /\ dest \in Inode /\ temp \in (Inode \cup {Nil}) \ {dest}
  /\ pc \in [Puller -> {"idle", "write", "closed"}]
  /\ want \in [Puller -> Version \cup {Nil}]
  /\ fd \in [Puller -> Inode \cup {Nil}]
  /\ pos \in [Puller -> Nat]
  /\ data \in [Inode -> Seq(Block \cup {Hole})]
  /\ \A p \in Puller :
       /\ pc[p] = "write" <=> fd[p] # Nil
       /\ pc[p] = "idle" <=> want[p] = Nil
       /\ want[p] # Nil => pos[p] <= Len(want[p])
  /\ crashes \in 0 .. MaxCrashes

\* Whoever opens the destination reads a whole version, never a torn one or a
\* mixture: "when a file's blocks are complete, its whole-file hash is
\* verified and it is atomically renamed into place".
WholeFile == data[dest] \in Version \cup {Old}

\* The abstract file that the destination implements.
Atomic == INSTANCE AtomicFile WITH
            file <- data[dest],
            pulling <- [p \in Puller |-> IF want[p] = Nil THEN Old ELSE want[p]]

\* One puller, stopped and restarted at will, replaces the file atomically.
ReplacesAtomically == Atomic!Spec
=============================================================================
