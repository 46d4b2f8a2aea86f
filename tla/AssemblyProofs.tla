--------------------------- MODULE AssemblyProofs ---------------------------
(* One puller at a time replaces its file atomically: for every set of       *)
(* versions and any number of crashes, Assembly implements AtomicFile.  The  *)
(* state has its type however many pullers there are.                        *)
EXTENDS Assembly, SequenceTheorems, TLAPS

\* daemon.beginSync, with a single peer to pull from.
OnePuller == \A p, q \in Puller : p = q

\* What is under the temporary name is what p has written.
Begun(p) ==
  pc[p] = "write" =>
    /\ fd[p] = temp
    /\ Len(data[temp]) = pos[p]
    /\ \A j \in 1 .. pos[p] : data[temp][j] = want[p][j]

Finished(p) == pc[p] = "closed" => temp # Nil /\ data[temp] = want[p]

IInv ==
  /\ TypeOK
  /\ WholeFile
  /\ \A p \in Puller : Begun(p) /\ Finished(p)

-----------------------------------------------------------------------------

\* With one puller the invariant holds before the first step.
LEMMA InitIInv == Init => IInv
<1> SUFFICES ASSUME Init PROVE IInv
  OBVIOUS
<1> USE VersionAssumption, InodeAssumption
<1>1. FirstInode \in Inode
  BY DEF FirstInode
<1>2. data \in [Inode -> Seq(Block \cup {Hole})]
  <2>1. Old \in Seq(Block \cup {Hole}) /\ <<>> \in Seq(Block \cup {Hole})
    OBVIOUS
  <2> QED
    BY <2>1 DEF Init
<1>3. TypeOK
  BY <1>1, <1>2 DEF Init, TypeOK
<1>4. WholeFile
  BY <1>1 DEF Init, WholeFile
<1>5. \A p \in Puller : Begun(p) /\ Finished(p)
  BY DEF Init, Begun, Finished
<1> QED
  BY <1>3, <1>4, <1>5 DEF IInv

-----------------------------------------------------------------------------

(* The type, for any number of pullers *)

\* What Begin opens is empty and not the destination.
LEMMA Opened ==
  ASSUME TypeOK, NEW p \in Puller, Begin(p)
  PROVE  /\ temp' \in Inode \ {dest}
         /\ fd' = [fd EXCEPT ![p] = temp']
         /\ data' = [data EXCEPT ![temp'] = <<>>]
<1>1. CASE temp # Nil
  BY <1>1 DEF Begin, Creat, TypeOK
<1>2. CASE temp = Nil
  <2>1. \E j \in Inode : j # dest /\ \A q \in Puller : fd[q] # j
    BY InodeAssumption DEF TypeOK
  <2>2. PICK j \in Inode : j # dest /\ \A q \in Puller : fd[q] # j
    BY <2>1
  <2>3. j \in Unused
    <3>1. j # temp
      BY <1>2, InodeAssumption
    <3> QED
      BY <2>2, <3>1 DEF Unused
  <2>4. (CHOOSE i \in Unused : TRUE) \in Unused
    BY <2>3
  <2> QED
    BY <1>2, <2>4 DEF Begin, Creat, Unused
<1> QED
  BY <1>1, <1>2

\* Writing at any position of a file leaves a file, with a hole if need be.
LEMMA PutTyped ==
  ASSUME NEW S, NEW f \in Seq(S), NEW k \in Nat \ {0}, NEW b \in S, Hole \in S
  PROVE  Put(f, k, b) \in Seq(S)
<1> DEFINE top == IF Len(f) < k THEN k ELSE Len(f)
           g == Put(f, k, b)
<1>1. top \in Nat
  BY LenProperties
<1>2. g = [j \in 1 .. top |-> IF j = k THEN b
                             ELSE IF j <= Len(f) THEN f[j] ELSE Hole]
  BY DEF Put
<1>3. \A j \in 1 .. top : (IF j = k THEN b
                           ELSE IF j <= Len(f) THEN f[j] ELSE Hole) \in S
  BY <1>1, LenProperties, ElementOfSeq
<1>4. g \in [1 .. top -> S]
  BY <1>2, <1>3
<1> HIDE DEF g, top
<1>5. g \in Seq(S)
  BY <1>1, <1>4, SeqDef
<1> QED
  BY <1>5 DEF g

LEMMA BeginTyped ==
  ASSUME TypeOK, NEW p \in Puller, Begin(p)
  PROVE  TypeOK'
<1> USE VersionAssumption, InodeAssumption
<1>1. PICK v \in Version : want' = [want EXCEPT ![p] = v]
  BY DEF Begin
<1>2. v # Nil /\ Len(v) \in Nat
  BY <1>1, LenProperties
<1>3. /\ temp' \in Inode \ {dest}
      /\ fd' = [fd EXCEPT ![p] = temp']
      /\ data' = [data EXCEPT ![temp'] = <<>>]
  BY Opened
<1>4. data' \in [Inode -> Seq(Block \cup {Hole})]
  BY <1>3 DEF TypeOK
<1>5. /\ dest' \in Inode /\ temp' \in (Inode \cup {Nil}) \ {dest'}
      /\ crashes' \in 0 .. MaxCrashes
  BY <1>3 DEF Begin, TypeOK
<1>6. /\ pc' \in [Puller -> {"idle", "write", "closed"}]
      /\ want' \in [Puller -> Version \cup {Nil}]
      /\ fd' \in [Puller -> Inode \cup {Nil}]
      /\ pos' \in [Puller -> Nat]
  BY <1>1, <1>3 DEF Begin, TypeOK
<1>7. \A q \in Puller :
        IF q = p THEN pc'[q] = "write" /\ fd'[q] # Nil /\ want'[q] = v
                      /\ pos'[q] = 0
        ELSE /\ pc'[q] = pc[q] /\ fd'[q] = fd[q] /\ want'[q] = want[q]
             /\ pos'[q] = pos[q]
  BY <1>1, <1>3 DEF Begin, TypeOK
<1>8. \A q \in Puller :
        /\ pc'[q] = "write" <=> fd'[q] # Nil
        /\ pc'[q] = "idle" <=> want'[q] = Nil
        /\ want'[q] # Nil => pos'[q] <= Len(want'[q])
  BY <1>2, <1>7 DEF TypeOK
<1> QED
  BY <1>4, <1>5, <1>6, <1>8 DEF TypeOK

LEMMA WriteTyped ==
  ASSUME TypeOK, NEW p \in Puller, Write(p)
  PROVE  TypeOK'
<1> DEFINE k == pos[p] + 1
           S == Block \cup {Hole}
           g == Put(data[fd[p]], k, want[p][k])
<1> USE VersionAssumption, InodeAssumption
<1>1. /\ fd[p] \in Inode /\ data[fd[p]] \in Seq(S)
      /\ want[p] \in Seq(Block) /\ want[p] # Nil
      /\ pos[p] \in Nat /\ k \in 1 .. Len(want[p])
  BY LenProperties DEF Write, TypeOK
<1>2. want[p][k] \in S /\ Hole \in S /\ k \in Nat \ {0}
  BY <1>1
<1>3. g \in Seq(S)
  <2> HIDE DEF k, S
  <2> QED
    BY <1>1, <1>2, PutTyped
<1>4. /\ data' = [data EXCEPT ![fd[p]] = g]
      /\ pos' = [pos EXCEPT ![p] = k]
      /\ UNCHANGED <<dest, temp, pc, want, fd, crashes>>
  BY <1>1 DEF Write, TypeOK
<1> HIDE DEF g
<1>5. data' \in [Inode -> Seq(S)]
  BY <1>1, <1>3, <1>4 DEF TypeOK
<1>6. pos' \in [Puller -> Nat] /\ pos'[p] <= Len(want[p])
      /\ \A q \in Puller \ {p} : pos'[q] = pos[q]
  BY <1>1, <1>4 DEF TypeOK
<1> QED
  BY <1>4, <1>5, <1>6 DEF TypeOK

LEMMA StepTyped ==
  ASSUME TypeOK, [Next]_vars
  PROVE  TypeOK'
<1> USE VersionAssumption, InodeAssumption
<1>1. ASSUME NEW p \in Puller, Close(p) PROVE TypeOK'
  BY <1>1 DEF Close, TypeOK
<1>2. ASSUME NEW p \in Puller, Rename(p) \/ RenameFails(p) \/ Fail(p)
      PROVE  TypeOK'
  <2>1. Leave(p) /\ UNCHANGED <<data, crashes>>
    BY <1>2 DEF Rename, RenameFails, Fail
  <2>2. dest' \in Inode /\ temp' \in (Inode \cup {Nil}) \ {dest'}
    BY <1>2 DEF Rename, RenameFails, Fail, TypeOK
  <2> QED
    BY <2>1, <2>2 DEF Leave, TypeOK
<1>3. CASE Crash
  BY <1>3 DEF Crash, TypeOK
<1>4. CASE UNCHANGED vars
  BY <1>4 DEF vars, TypeOK
<1> QED
  BY BeginTyped, WriteTyped, <1>1, <1>2, <1>3, <1>4 DEF Next

-----------------------------------------------------------------------------
(* The file, for one puller *)

LEMMA BeginKeeps ==
  ASSUME IInv, NEW p \in Puller, \A q \in Puller : q = p, Begin(p)
  PROVE  IInv'
<1> USE VersionAssumption, InodeAssumption
<1>1. /\ temp' \in Inode \ {dest}
      /\ fd' = [fd EXCEPT ![p] = temp']
      /\ data' = [data EXCEPT ![temp'] = <<>>]
  BY Opened DEF IInv
<1>2. TypeOK'
  BY BeginTyped DEF IInv
<1>3. WholeFile'
  BY <1>1 DEF Begin, IInv, TypeOK, WholeFile
<1>4. \A q \in Puller : Begun(q)' /\ Finished(q)'
  BY <1>1 DEF Begin, IInv, TypeOK, Begun, Finished
<1> QED
  BY <1>2, <1>3, <1>4 DEF IInv

LEMMA WriteKeeps ==
  ASSUME IInv, NEW p \in Puller, \A q \in Puller : q = p, Write(p)
  PROVE  IInv'
<1> DEFINE k == pos[p] + 1
           S == Block \cup {Hole}
           g == Put(data[temp], k, want[p][k])
<1> USE VersionAssumption, InodeAssumption
<1>1. /\ pc[p] = "write" /\ fd[p] = temp /\ temp \in Inode \ {dest}
      /\ Len(data[temp]) = pos[p] /\ data[temp] \in Seq(S)
      /\ \A j \in 1 .. pos[p] : data[temp][j] = want[p][j]
      /\ pos[p] \in Nat
  BY DEF Write, IInv, TypeOK, Begun
<1>2. want[p] \in Seq(Block) /\ k \in 1 .. Len(want[p]) /\ want[p] # Nil
  BY <1>1, LenProperties DEF Write, IInv, TypeOK
<1>3. want[p][k] \in S
  BY <1>2
<1>4. /\ g \in Seq(S) /\ Len(g) = k /\ g[k] = want[p][k]
      /\ \A j \in 1 .. pos[p] : g[j] = data[temp][j]
  <2> DEFINE n == pos[p]
             f == data[temp]
  <2>1. f \in [1 .. n -> S] /\ n \in Nat /\ k = n + 1
    BY <1>1, LenProperties
  <2>2. g = [j \in 1 .. k |-> IF j = k THEN want[p][k]
                             ELSE IF j <= n THEN f[j] ELSE Hole]
    BY <1>1, <2>1 DEF Put
  <2>3. \A j \in 1 .. k : (IF j = k THEN want[p][k]
                           ELSE IF j <= n THEN f[j] ELSE Hole) \in S
    BY <1>3, <2>1
  <2>4. g \in [1 .. k -> S]
    BY <2>2, <2>3
  <2>5. g \in Seq(S) /\ Len(g) = k
    <3> HIDE DEF g, k, S
    <3>1. k \in Nat
      BY <2>1
    <3>2. g \in Seq(S)
      BY <2>4, <3>1, SeqDef
    <3> QED
      BY <2>4, <3>1, <3>2, LenProperties
  <2>6. g[k] = want[p][k] /\ \A j \in 1 .. n : g[j] = f[j]
    BY <2>1, <2>2
  <2> QED
    BY <2>5, <2>6
<1> HIDE DEF g
<1>5. /\ data' = [data EXCEPT ![temp] = g]
      /\ pos' = [pos EXCEPT ![p] = k]
      /\ UNCHANGED <<dest, temp, pc, want, fd, crashes>>
  BY <1>1 DEF Write, IInv, TypeOK, g
<1>6. data' \in [Inode -> Seq(S)] /\ data'[temp] = g /\ data'[dest] = data[dest]
  BY <1>1, <1>4, <1>5 DEF IInv, TypeOK
<1>7. TypeOK'
  BY WriteTyped DEF IInv
<1>8. WholeFile'
  BY <1>5, <1>6 DEF IInv, WholeFile
<1>9. Begun(p)' /\ Finished(p)'
  <2>1. pos'[p] = k
    BY <1>5 DEF IInv, TypeOK
  <2>2. \A j \in 1 .. k : g[j] = want[p][j]
    BY <1>1, <1>4
  <2> QED
    BY <1>1, <1>4, <1>5, <1>6, <2>1, <2>2 DEF Begun, Finished
<1> QED
  BY <1>7, <1>8, <1>9 DEF IInv

LEMMA CloseKeeps ==
  ASSUME IInv, NEW p \in Puller, \A q \in Puller : q = p, Close(p)
  PROVE  IInv'
<1> USE VersionAssumption, InodeAssumption
<1>1. /\ temp \in Inode /\ data[temp] \in Seq(Block \cup {Hole})
      /\ want[p] \in Version
      /\ Len(data[temp]) = Len(want[p])
      /\ \A j \in 1 .. Len(want[p]) : data[temp][j] = want[p][j]
  BY DEF Close, IInv, TypeOK, Begun
<1>2. want[p] \in Seq(Block \cup {Hole})
  BY <1>1
<1>3. data[temp] = want[p]
  BY <1>1, <1>2, SeqEqual
<1>4. TypeOK'
  BY StepTyped DEF IInv, Next
<1>5. Begun(p)' /\ Finished(p)'
  BY <1>1, <1>3 DEF Close, IInv, TypeOK, Begun, Finished
<1> QED
  BY <1>4, <1>5 DEF Close, IInv, WholeFile

LEMMA EndKeeps ==
  ASSUME IInv, NEW p \in Puller, \A q \in Puller : q = p,
         Rename(p) \/ RenameFails(p) \/ Fail(p)
  PROVE  IInv'
<1> USE VersionAssumption, InodeAssumption
<1>1. Leave(p) /\ UNCHANGED <<data, crashes>>
  BY DEF Rename, RenameFails, Fail
<1>2. TypeOK'
  BY StepTyped DEF IInv, Next
<1>3. WholeFile'
  BY <1>1 DEF Rename, RenameFails, Fail, IInv, TypeOK, Finished, WholeFile
<1>4. Begun(p)' /\ Finished(p)'
  BY <1>1 DEF Leave, IInv, TypeOK, Begun, Finished
<1> QED
  BY <1>2, <1>3, <1>4 DEF IInv

LEMMA CrashKeeps ==
  ASSUME IInv, Crash
  PROVE  IInv'
<1> USE VersionAssumption, InodeAssumption
<1>1. TypeOK'
  BY StepTyped DEF IInv, Next
<1>2. \A q \in Puller : Begun(q)' /\ Finished(q)'
  BY DEF Crash, Begun, Finished
<1> QED
  BY <1>1, <1>2 DEF Crash, IInv, WholeFile

LEMMA StepIInv ==
  ASSUME OnePuller, IInv, [Next]_vars
  PROVE  IInv'
<1>1. ASSUME NEW p \in Puller,
             \/ Begin(p) \/ Write(p) \/ Close(p)
             \/ Rename(p) \/ RenameFails(p) \/ Fail(p)
      PROVE  IInv'
  <2>1. \A q \in Puller : q = p
    BY DEF OnePuller
  <2> QED
    BY <1>1, <2>1, BeginKeeps, WriteKeeps, CloseKeeps, EndKeeps
<1>2. CASE Crash
  BY <1>2, CrashKeeps
<1>3. CASE UNCHANGED vars
  BY <1>3 DEF vars, IInv, TypeOK, WholeFile, Begun, Finished
<1> QED
  BY <1>1, <1>2, <1>3 DEF Next

\* However many pullers share the temporary name, names and descriptors stand
\* for inodes, and the temporary name never for the destination's.
THEOREM TypeCorrect == Spec => []TypeOK
<1>1. Init => TypeOK
  BY InitIInv DEF IInv
<1>2. TypeOK /\ [Next]_vars => TypeOK'
  BY StepTyped
<1> QED
  BY <1>1, <1>2, PTL DEF Spec

\* Every state of session.pullFile satisfies the invariant.
THEOREM Invariance ==
  ASSUME OnePuller
  PROVE  Spec => []IInv
<1>1. IInv /\ [Next]_vars => IInv'
  BY StepIInv
<1> QED
  BY InitIInv, <1>1, PTL DEF Spec

\* A reader of the destination sees a whole version, at every moment and
\* after every crash, while one puller writes the temporary file.
THEOREM WholeFileHolds ==
  ASSUME OnePuller
  PROVE  Spec => []WholeFile
<1>1. IInv => WholeFile
  BY DEF IInv
<1> QED
  BY Invariance, <1>1, PTL

-----------------------------------------------------------------------------

\* The versions the pullers bring, as AtomicFile sees them.
Bringing == [p \in Puller |-> IF want[p] = Nil THEN Old ELSE want[p]]

\* A step of the abstract file: a puller begins, replaces, or some give up.
LEMMA Refines ==
  ASSUME OnePuller, IInv, [Next]_vars
  PROVE  [Atomic!Next]_<<data[dest], Bringing>>
<1> USE VersionAssumption
<1>1. ASSUME NEW p \in Puller, Begin(p)
      PROVE  Atomic!Begin(p)
  <2>1. PICK v \in Version : want' = [want EXCEPT ![p] = v]
    BY <1>1 DEF Begin
  <2>2. Bringing' = [Bringing EXCEPT ![p] = v]
    BY <2>1 DEF Bringing, IInv, TypeOK
  <2>3. data'[dest'] = data[dest]
    BY <1>1, Opened DEF Begin, IInv, TypeOK
  <2> QED
    BY <2>2, <2>3 DEF Atomic!Begin, Bringing
<1>2. ASSUME NEW p \in Puller, Write(p)
      PROVE  UNCHANGED <<data[dest], Bringing>>
  BY <1>2 DEF Write, Bringing, IInv, TypeOK, Begun
<1>3. ASSUME NEW p \in Puller, Close(p)
      PROVE  UNCHANGED <<data[dest], Bringing>>
  BY <1>3 DEF Close, Bringing
<1>4. ASSUME NEW p \in Puller, Leave(p)
      PROVE  Bringing' = [Bringing EXCEPT ![p] = Old]
  BY <1>4 DEF Leave, Bringing, IInv, TypeOK
<1>5. ASSUME NEW p \in Puller, Rename(p)
      PROVE  Atomic!Replace(p)
  <2>1. Bringing' = [Bringing EXCEPT ![p] = Old]
    BY <1>4, <1>5 DEF Rename
  <2>2. Bringing[p] = want[p] /\ want[p] \in Version
    BY <1>5 DEF Rename, Bringing, IInv, TypeOK
  <2>3. data'[dest'] = want[p]
    BY <1>5 DEF Rename, IInv, Finished
  <2> QED
    BY <2>1, <2>2, <2>3 DEF Atomic!Replace, Bringing
<1>6. ASSUME NEW p \in Puller, RenameFails(p) \/ Fail(p)
      PROVE  Atomic!GiveUp
  <2>1. Bringing' = [q \in Puller |-> IF q \in {p} THEN Old ELSE Bringing[q]]
    BY <1>4, <1>6 DEF RenameFails, Fail, Bringing
  <2>2. data'[dest'] = data[dest]
    BY <1>6 DEF RenameFails, Fail
  <2> QED
    BY <2>1, <2>2 DEF Atomic!GiveUp, Bringing
<1>7. CASE Crash
  <2>1. Bringing' = [q \in Puller |-> IF q \in Puller THEN Old ELSE Bringing[q]]
    BY <1>7 DEF Crash, Bringing
  <2>2. data'[dest'] = data[dest]
    BY <1>7 DEF Crash
  <2> QED
    BY <2>1, <2>2 DEF Atomic!Next, Atomic!GiveUp, Bringing
<1>8. CASE UNCHANGED vars
  BY <1>8 DEF vars, Bringing
<1> QED
  BY <1>1, <1>2, <1>3, <1>5, <1>6, <1>7, <1>8 DEF Next, Atomic!Next

\* Pulling a file with one puller, crashes included, implements AtomicFile: the
\* destination changes in one step, to the version the puller was bringing.
THEOREM Replacing ==
  ASSUME OnePuller
  PROVE  Spec => ReplacesAtomically
<1>1. Init => Atomic!Init
  BY InodeAssumption DEF Init, Atomic!Init, FirstInode
<1>2. IInv /\ [Next]_vars => [Atomic!Next]_<<data[dest], Bringing>>
  BY Refines
<1> QED
  BY Invariance, <1>1, <1>2, PTL DEF Spec, ReplacesAtomically, Atomic!Spec, Bringing
=============================================================================
