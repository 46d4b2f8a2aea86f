----------------------------- MODULE IndexProofs -----------------------------
(***************************************************************************)
(* Proofs about what an index says of a file: its blocks and how they come *)
(* to the puller (Chunker, Exchange), for any bytes, edits and failures,   *)
(* and its version vector (VersionVector), for any number of devices and   *)
(* changes.                                                                *)
(***************************************************************************)
EXTENDS Exchange, VersionVector, SequenceTheorems, FiniteSetTheorems,
        WellFoundedInduction, TLAPS

\* Where the first k blocks end.
End(k) == IF k = 0 THEN 0 ELSE chunks[k].offset + chunks[k].length

\* The blocks lie end to end from the beginning of the file on, and what is in
\* the buffer follows them.
Tiled ==
  /\ \A k \in 1 .. Len(chunks) : /\ chunks[k].offset = End(k - 1)
                                 /\ End(k) <= Len(file)
  /\ offset = End(Len(chunks))
  /\ taken = offset + Len(buf)

\* The file a pull is about has been split, and its index says so.
Indexed ==
  /\ stage # "start" => pc = "done"
  /\ blocks \in {<<>>, Advertised}
  /\ stage \notin {"start", "nothing"} => blocks = Advertised

\* A frame answers a request: it has as many bytes as its hash is for.
Frame ==
  {f \in [hash : {blocks[k].hash : k \in need}, data : Seq(Byte)] :
     Len(f.data) = Len(f.hash)}

\* Nothing is received or written before it was asked for.
Fresh ==
  /\ stream = <<>> /\ need = {} /\ served = {} /\ got = <<>>
  /\ out = <<>> /\ placed = 0

Begun ==
  /\ stream \in Seq(Frame)
  /\ stage = "start" => blocks = <<>>
  /\ stage \in {"start", "ask", "nothing"} => Fresh

\* What is written is the file as far as the blocks go that were placed.
Written == out = SubSeq(file, 1, End(placed))

XInv == XTypeOK /\ Tiled /\ Indexed /\ Begun /\ Written

\* What is in the buffer is the file after the last block, as far as it has
\* been read.
Buffered ==
  /\ buf = SubSeq(file, offset + 1, offset + Len(buf))
  /\ eof => taken = Len(file)

\* The bytes of the file from p on that fit into the buffer.
NextBytes(p) ==
  SubSeq(file, p + 1,
         IF p + MaxSize <= Len(file) THEN p + MaxSize ELSE Len(file))

\* Every block begins where the one before it ended, and is as long as
\* Chunker.boundary says of the file's bytes there: how many bytes which call
\* of Read returned makes no difference.
SameCuts ==
  \A k \in 1 .. Len(chunks) :
    /\ chunks[k].offset = End(k - 1)
    /\ chunks[k].length = Boundary(NextBytes(End(k - 1)))

\* And when all is split the blocks make up the whole file.
Covered == pc = "done" => End(Len(chunks)) = Len(file)

CInv == TypeOK /\ Tiled /\ Buffered /\ SameCuts /\ Covered

-----------------------------------------------------------------------------
(* Sequences and numbers *)

LEMMA Bounds == MinSize \in Nat \ {0} /\ MaxSize \in Nat /\ MaxFile \in Nat
  BY ConfigAssumption

USE Bounds

LEMMA LeastNumber ==
  ASSUME NEW S \in SUBSET Nat, S # {}
  PROVE  Min(S) \in S /\ \A y \in S : Min(S) <= y
<1> DEFINE R == OpToRel(<, Nat)
<1>1. IsWellFoundedOn(R, Nat)
  BY NatLessThanWellFounded
<1>2. \A x, y \in Nat : <<y, x>> \in R <=> y < x
  BY DEF OpToRel
<1> HIDE DEF R
<1>3. PICK x \in S : \A y \in S : ~(<<y, x>> \in R)
  BY <1>1, WFMin
<1>4. \A y \in S : x \in Nat /\ y \in Nat /\ ~(y < x)
  BY <1>2, <1>3
<1>5. \A y \in S : x <= y
  BY <1>4
<1> QED
  BY <1>5 DEF Min

LEMMA Config ==
  /\ MinSize \in Nat \ {0} /\ AvgSize \in Nat \ {0}
  /\ MinSize <= MaxSize
  /\ Gear \in [Byte -> Int]
  BY ConfigAssumption

\* w begins with a and goes on from each value to the next by the rule F.
Rule(n, S) == [(1 .. n) \X S -> S]
Follows(w, S, a, n, F) ==
  w \in [0 .. n -> S] /\ w[0] = a /\ \A i \in 1 .. n : w[i] = F[<<i, w[i - 1]>>]

\* Whatever the rule, there is such a function: what is defined by recursion
\* from one number to the next is defined.
LEMMA Recursion ==
  ASSUME NEW S, NEW a \in S, NEW n \in Nat, NEW F \in Rule(n, S)
  PROVE  \E w : Follows(w, S, a, n, F)
<1> USE DEF Rule, Follows
<1> DEFINE Upto(m, w) ==
             /\ w \in [0 .. m -> S] /\ w[0] = a
             /\ \A i \in 1 .. m : w[i] = F[<<i, w[i - 1]>>]
           Bad == {m \in 0 .. n : ~ \E w : Upto(m, w)}
<1>1. CASE Bad = {}
  <2>1. n \notin Bad
    BY <1>1
  <2> QED
    BY <2>1
<1>2. CASE Bad # {}
  <2>1. Bad \in SUBSET Nat
    OBVIOUS
  <2> HIDE DEF Bad
  <2>2. PICK m \in Bad : \A k \in Bad : m <= k
    BY <1>2, <2>1, LeastNumber
  <2> USE DEF Bad
  <2>3. m # 0
    <3>1. Upto(0, [i \in 0 .. 0 |-> a])
      OBVIOUS
    <3> QED
      BY <2>2, <3>1
  <2>4. m \in 1 .. n /\ m - 1 \in 0 .. n /\ ~(m <= m - 1)
    BY <2>2, <2>3
  <2>5. PICK w : Upto(m - 1, w)
    BY <2>2, <2>4
  <2>6. w[m - 1] \in S
    BY <2>4, <2>5
  <2> DEFINE v == [i \in 0 .. m |-> IF i = m THEN F[<<m, w[m - 1]>>] ELSE w[i]]
  <2>7. /\ v \in [0 .. m -> S] /\ v[0] = a /\ v[m] = F[<<m, w[m - 1]>>]
        /\ \A j \in 0 .. m : j # m => v[j] = w[j]
    BY <2>4, <2>5, <2>6
  <2> HIDE DEF v
  <2>8. ASSUME NEW i \in 1 .. m PROVE v[i] = F[<<i, v[i - 1]>>]
    <3>1. v[i - 1] = w[i - 1]
      BY <2>4, <2>7
    <3>2. CASE i = m
      BY <2>7, <3>1, <3>2
    <3>3. CASE i # m
      <4>1. i \in 1 .. m - 1 /\ v[i] = w[i]
        BY <2>4, <2>7, <3>3
      <4> QED
        BY <2>5, <3>1, <4>1
    <3> QED
      BY <3>2, <3>3
  <2>9. Upto(m, v)
    BY <2>7, <2>8
  <2> QED
    BY <2>2, <2>9
<1> QED
  BY <1>1, <1>2

-----------------------------------------------------------------------------
(* Remainders *)

LEMMA Divided ==
  ASSUME NEW A \in Nat \ {0}, NEW x \in Int
  PROVE  /\ x \div A \in Int /\ x % A \in 0 .. A - 1
         /\ x = A * (x \div A) + (x % A)
  OBVIOUS

LEMMA OneRemainder ==
  ASSUME NEW A \in Nat \ {0}, NEW q \in Int, NEW r \in 0 .. A - 1,
         NEW s \in Int, NEW t \in 0 .. A - 1, A * q + r = A * s + t
  PROVE  r = t
<1>1. \A k \in Int : k >= 1 => A * k >= A
  OBVIOUS
<1>2. A * (q - s) = t - r /\ A * (s - q) = r - t
  OBVIOUS
<1>3. CASE q - s >= 1
  BY <1>1, <1>2, <1>3
<1>4. CASE s - q >= 1
  BY <1>1, <1>2, <1>4
<1>5. CASE q = s
  BY <1>5
<1> QED
  BY <1>3, <1>4, <1>5

\* The remainder may be taken before the next digit or after it.
LEMMA Carried ==
  ASSUME NEW A \in Nat \ {0}, NEW x \in Int, NEW g \in Int
  PROVE  (2 * (x % A) + g) % A = (2 * x + g) % A
<1> DEFINE q == x \div A
           r == x % A
           s == (2 * r + g) \div A
           t == (2 * r + g) % A
           u == (2 * x + g) \div A
           v == (2 * x + g) % A
<1>1. x = A * q + r /\ q \in Int /\ r \in Int
  BY Divided
<1>2. 2 * r + g = A * s + t /\ s \in Int /\ t \in 0 .. A - 1
  <2>1. 2 * r + g \in Int
    BY ONLY <1>1, g \in Int
  <2> HIDE DEF r
  <2> QED
    BY ONLY <2>1, A \in Nat \ {0}, Divided DEF s, t
<1>3. 2 * x + g = A * u + v /\ u \in Int /\ v \in 0 .. A - 1
  <2>1. 2 * x + g \in Int
    OBVIOUS
  <2> QED
    BY ONLY <2>1, A \in Nat \ {0}, Divided DEF u, v
<1> HIDE DEF q, r, s, t, u, v
<1>4. A * (2 * q + s) = 2 * (A * q) + A * s
  BY <1>1, <1>2
<1>5. A * (2 * q + s) + t = A * u + v
  BY <1>1, <1>2, <1>3, <1>4
<1>6. 2 * q + s \in Int
  BY <1>1, <1>2
<1> QED
  BY <1>2, <1>3, <1>5, <1>6, OneRemainder DEF r, t, v

-----------------------------------------------------------------------------
(* Files and their parts *)

LEMMA FileIsSeq == \A data \in File : data \in Seq(Byte) /\ Len(data) \in 0 .. MaxFile
<1> SUFFICES ASSUME NEW n \in 0 .. MaxFile, NEW data \in [1 .. n -> Byte]
             PROVE  data \in Seq(Byte) /\ Len(data) \in 0 .. MaxFile
  BY DEF File
<1>1. n \in Nat /\ data \in Seq(Byte)
  BY SeqDef
<1> QED
  BY <1>1, LenProperties

LEMMA SliceTo ==
  ASSUME NEW data \in Seq(Byte), NEW a \in Nat, NEW e \in Nat, a <= e, e <= Len(data)
  PROVE  /\ SubSeq(data, a + 1, e) \in Seq(Byte)
         /\ Len(SubSeq(data, a + 1, e)) = e - a
         /\ \A j \in 1 .. e - a : SubSeq(data, a + 1, e)[j] = data[a + j]
  BY SubSeqProperties

LEMMA SliceFacts ==
  ASSUME NEW data \in Seq(Byte), NEW a \in Nat, NEW n \in Nat, a + n <= Len(data)
  PROVE  /\ SubSeq(data, a + 1, a + n) \in Seq(Byte)
         /\ Len(SubSeq(data, a + 1, a + n)) = n
         /\ \A j \in 1 .. n : SubSeq(data, a + 1, a + n)[j] = data[a + j]
  BY SubSeqProperties

\* Two neighbouring parts of a file make one.
LEMMA Joined ==
  ASSUME NEW data \in Seq(Byte), NEW p \in Nat, NEW a \in Nat, NEW n \in Nat,
         p + a + n <= Len(data)
  PROVE  SubSeq(data, p + 1, p + a) \o SubSeq(data, p + a + 1, p + a + n)
           = SubSeq(data, p + 1, p + a + n)
<1> DEFINE f == SubSeq(data, p + 1, p + a)
           g == SubSeq(data, p + a + 1, p + a + n)
           h == SubSeq(data, p + 1, p + a + n)
<1>1. f \in Seq(Byte) /\ Len(f) = a /\ \A j \in 1 .. a : f[j] = data[p + j]
  BY SliceFacts
<1>2. /\ g \in Seq(Byte) /\ Len(g) = n
      /\ \A j \in 1 .. n : g[j] = data[p + a + j]
  <2>1. p + a \in Nat /\ (p + a) + n <= Len(data)
    OBVIOUS
  <2> QED
    BY <2>1, SliceFacts
<1>3. /\ h \in Seq(Byte) /\ Len(h) = a + n
      /\ \A j \in 1 .. a + n : h[j] = data[p + j]
  <2>1. /\ p + a + n \in Nat /\ p <= p + a + n /\ p + a + n <= Len(data)
        /\ (p + a + n) - p = a + n
    BY LenProperties
  <2>2. /\ h \in Seq(Byte) /\ Len(h) = (p + a + n) - p
        /\ \A j \in 1 .. (p + a + n) - p : h[j] = data[p + j]
    BY ONLY <2>1, data \in Seq(Byte), p \in Nat, SliceTo, Zenon DEF h
  <2> HIDE DEF h
  <2> QED
    BY ONLY <2>1, <2>2
<1> DEFINE fg == f \o g
<1> HIDE DEF f, g, h
<1>4. /\ fg \in Seq(Byte) /\ Len(fg) = a + n
      /\ \A j \in 1 .. a + n : fg[j] = IF j <= a THEN f[j] ELSE g[j - a]
  <2>1. /\ fg \in Seq(Byte) /\ Len(fg) = Len(f) + Len(g)
        /\ \A j \in 1 .. Len(f) + Len(g) :
             fg[j] = IF j <= Len(f) THEN f[j] ELSE g[j - Len(f)]
    BY ONLY <1>1, <1>2, ConcatProperties, Zenon DEF fg
  <2> QED
    BY ONLY <1>1, <1>2, <2>1
<1> HIDE DEF fg
<1>5. ASSUME NEW j \in 1 .. a + n PROVE fg[j] = h[j]
  <2>1. CASE j <= a
    <3>1. j \in 1 .. a
      BY <2>1
    <3>2. f[j] = data[p + j]
      BY <1>1, <3>1
    <3> QED
      BY <1>3, <1>4, <2>1, <3>2
  <2>2. CASE ~(j <= a)
    <3>1. j - a \in 1 .. n /\ p + a + (j - a) = p + j
      BY <2>2
    <3>2. g[j - a] = data[p + j]
      BY <1>2, <3>1
    <3> QED
      BY <1>3, <1>4, <2>2, <3>2
  <2> QED
    BY <2>1, <2>2
<1>6. fg = h
  BY <1>3, <1>4, <1>5, SeqEqual
<1> QED
  BY <1>6 DEF f, g, h, fg

LEMMA JoinedToFirst ==
  ASSUME NEW data \in Seq(Byte), NEW a \in Nat, NEW n \in Nat,
         a + n <= Len(data)
  PROVE  SubSeq(data, 1, a) \o SubSeq(data, a + 1, a + n)
           = SubSeq(data, 1, a + n)
<1>1. PICK p \in Nat : p = 0
  OBVIOUS
<1>2. p + a + n <= Len(data)
  BY <1>1
<1>3. SubSeq(data, p + 1, p + a) \o SubSeq(data, p + a + 1, p + a + n)
        = SubSeq(data, p + 1, p + a + n)
  BY <1>2, Joined
<1>4. p + 1 = 1 /\ p + a = a
  BY <1>1
<1> QED
  BY <1>3, <1>4

\* What is left of a part of a file when its beginning is taken away.
LEMMA Dropped ==
  ASSUME NEW data \in Seq(Byte), NEW p \in Nat, NEW a \in Nat, NEW n \in Nat,
         p + a + n <= Len(data)
  PROVE  SubSeq(SubSeq(data, p + 1, p + a + n), a + 1, a + n)
           = SubSeq(data, p + a + 1, p + a + n)
<1> DEFINE h == SubSeq(data, p + 1, p + a + n)
           f == SubSeq(h, a + 1, a + n)
           g == SubSeq(data, p + a + 1, p + a + n)
<1>1. /\ h \in Seq(Byte) /\ Len(h) = a + n
      /\ \A j \in 1 .. a + n : h[j] = data[p + j]
  <2>1. /\ p + a + n \in Nat /\ p <= p + a + n /\ p + a + n <= Len(data)
        /\ (p + a + n) - p = a + n
    BY LenProperties
  <2>2. /\ h \in Seq(Byte) /\ Len(h) = (p + a + n) - p
        /\ \A j \in 1 .. (p + a + n) - p : h[j] = data[p + j]
    BY ONLY <2>1, data \in Seq(Byte), p \in Nat, SliceTo, Zenon DEF h
  <2> HIDE DEF h
  <2> QED
    BY ONLY <2>1, <2>2
<1>2. /\ g \in Seq(Byte) /\ Len(g) = n
      /\ \A j \in 1 .. n : g[j] = data[p + a + j]
  <2>1. p + a \in Nat /\ (p + a) + n <= Len(data)
    OBVIOUS
  <2> QED
    BY <2>1, SliceFacts
<1> HIDE DEF g, h
<1>3. f \in Seq(Byte) /\ Len(f) = n /\ \A j \in 1 .. n : f[j] = h[a + j]
  BY <1>1, SliceFacts
<1> HIDE DEF f
<1>4. ASSUME NEW j \in 1 .. n PROVE f[j] = g[j]
  <2>1. a + j \in 1 .. a + n /\ p + (a + j) = p + a + j
    OBVIOUS
  <2>2. h[a + j] = data[p + a + j]
    BY <1>1, <2>1
  <2> QED
    BY <1>2, <1>3, <2>2
<1>5. f = g
  BY <1>2, <1>3, <1>4, SeqEqual
<1> QED
  BY <1>5 DEF f, g, h

\* A block is never empty and never longer than the buffer.
LEMMA BoundaryFacts ==
  ASSUME NEW data \in Seq(Byte), data # <<>>
  PROVE  Boundary(data) \in 1 .. Len(data)
<1> DEFINE n == Len(data)
           zeros == {i \in MinSize .. n : Fingerprint(data)[i] = 0}
<1>1. n \in Nat \ {0}
  BY EmptySeq, LenProperties
<1>2. Boundary(data) = IF n <= MinSize \/ zeros = {} THEN n ELSE Min(zeros)
  BY DEF Boundary
<1>3. zeros \in SUBSET (MinSize .. n) /\ zeros \in SUBSET Nat
  OBVIOUS
<1> HIDE DEF zeros
<1>4. zeros # {} => Min(zeros) \in zeros
  BY <1>3, LeastNumber
<1>5. CASE n <= MinSize \/ zeros = {}
  BY <1>1, <1>2, <1>5
<1>6. CASE ~(n <= MinSize \/ zeros = {})
  <2>1. Boundary(data) \in MinSize .. n
    BY <1>2, <1>3, <1>4, <1>6
  <2> QED
    BY <1>1, <2>1
<1> QED
  BY <1>5, <1>6

-----------------------------------------------------------------------------
(* Splitting *)

LEMMA XInitInv == ASSUME XInit PROVE XInv
<1>1. <<>> \in File
  BY DEF File
<1>2. TypeOK /\ Tiled
  <2>1. file \in File /\ Len(file) \in Nat
    BY FileIsSeq DEF XInit, Init
  <2>2. eof \in BOOLEAN
    BY Zenon DEF XInit, Init
  <2> QED
    BY <2>1, <2>2 DEF XInit, Init, TypeOK, Tiled, End
<1>3. closed \in BOOLEAN
  BY Zenon DEF XInit
<1>4. XTypeOK
  BY <1>1, <1>2, <1>3, TroubleAssumption DEF XInit, XTypeOK
<1>5. Written
  BY FileIsSeq, SubSeqEmpty DEF XInit, Init, Written, End
<1> QED
  BY <1>2, <1>4, <1>5 DEF XInit, XInv, Indexed, Begun, Fresh

LEMMA ReadKeeps == ASSUME TypeOK, Tiled, Read PROVE TypeOK' /\ Tiled'
<1>1. file \in Seq(Byte) /\ Len(file) \in Nat
  BY FileIsSeq DEF TypeOK
<1>2. buf \in Seq(Byte) /\ Len(buf) \in Nat /\ Len(buf) <= MaxSize
      /\ taken \in Nat /\ taken <= Len(file)
  BY <1>1, LenProperties DEF TypeOK
<1> DEFINE room == {MaxSize - Len(buf), Len(file) - taken}
<1>3. PICK n \in 0 .. Min(room) :
        /\ buf' = buf \o SubSeq(file, taken + 1, taken + n)
        /\ taken' = taken + n
        /\ eof' \in IF taken' = Len(file) THEN BOOLEAN ELSE {FALSE}
  BY DEF Read
<1>4. room \in SUBSET Nat /\ room # {}
  BY <1>1, <1>2
<1>5. Min(room) \in Nat /\ Min(room) <= MaxSize - Len(buf)
      /\ Min(room) <= Len(file) - taken
  <2> HIDE DEF room
  <2>1. Min(room) \in room /\ \A y \in room : Min(room) <= y
    BY <1>4, LeastNumber
  <2> QED
    BY <1>4, <2>1 DEF room
<1> HIDE DEF room
<1>6. n \in Nat /\ Len(buf) + n <= MaxSize /\ taken + n <= Len(file)
  BY <1>1, <1>2, <1>3, <1>5
<1> DEFINE more == SubSeq(file, taken + 1, taken + n)
<1>7. more \in Seq(Byte) /\ Len(more) = n
  BY <1>1, <1>2, <1>6, SliceFacts
<1> HIDE DEF more
<1>8. buf' \in Seq(Byte) /\ Len(buf') = Len(buf) + n
  BY <1>2, <1>3, <1>7, ConcatProperties DEF more
<1>9. eof' \in BOOLEAN
  BY <1>3
<1>10. UNCHANGED <<file, offset, chunks, pc>>
  BY DEF Read
<1>11. TypeOK'
  BY <1>1, <1>2, <1>3, <1>6, <1>8, <1>9, <1>10 DEF TypeOK
<1>12. Tiled'
  <2>1. \A k \in Nat : End(k)' = End(k)
    BY ONLY <1>10, Zenon DEF End
  <2>2. /\ \A k \in 1 .. Len(chunks) : /\ chunks[k].offset = End(k - 1)
                                      /\ End(k) <= Len(file)
        /\ offset = End(Len(chunks)) /\ offset \in Nat /\ Len(chunks) \in Nat
    BY LenProperties DEF Tiled, TypeOK
  <2>3. \A k \in 1 .. Len(chunks) : k \in Nat /\ k - 1 \in Nat
    BY ONLY <2>2
  <2>4. taken = offset + Len(buf)
    BY ONLY Tiled DEF Tiled
  <2>5. taken' = offset' + Len(buf')
    <3>1. taken' = taken + n /\ Len(buf') = Len(buf) + n /\ offset' = offset
      BY ONLY <1>3, <1>8, <1>10, Zenon
    <3>2. n \in Nat /\ Len(buf) \in Nat /\ offset \in Nat
      BY ONLY <1>2, <1>6, <2>2
    <3> QED
      BY ONLY <2>4, <3>1, <3>2
  <2>6. \A k \in 1 .. Len(chunks) : End(k)' = End(k) /\ End(k - 1)' = End(k - 1)
    BY ONLY <2>1, <2>3, Zenon
  <2>7. End(Len(chunks))' = End(Len(chunks))
    BY ONLY <1>10 DEF End
  <2>8. chunks' = chunks /\ offset' = offset /\ file' = file
    BY ONLY <1>10
  <2> QED
    BY ONLY <2>2, <2>5, <2>6, <2>7, <2>8, Zenon DEF Tiled
<1> QED
  BY <1>11, <1>12

LEMMA CutKeeps == ASSUME TypeOK, Tiled, Cut PROVE TypeOK' /\ Tiled'
<1>1. /\ file \in Seq(Byte) /\ Len(file) \in 0 .. MaxFile
      /\ buf \in Seq(Byte) /\ Len(buf) \in Nat /\ Len(buf) <= MaxSize
      /\ taken \in Nat /\ taken <= Len(file) /\ offset \in Nat
      /\ chunks \in Seq(Chunk) /\ Len(chunks) \in Nat
      /\ taken = offset + Len(buf)
  BY FileIsSeq, LenProperties DEF TypeOK, Tiled
<1>2. UNCHANGED <<file, taken, eof>> /\ pc' \in {"run", "done", "failed"}
  BY DEF Cut
<1>3. CASE buf = <<>>
  <2>1. UNCHANGED <<buf, offset, chunks>>
    BY <1>3 DEF Cut, HandOut
  <2> QED
    BY <1>2, <2>1 DEF TypeOK, Tiled, End
<1>4. CASE buf # <<>>
  <2> DEFINE n == Len(chunks)
             b == Boundary(buf)
             c == [offset |-> offset, length |-> b]
  <2>1. n \in Nat /\ b \in 1 .. Len(buf)
    BY <1>1, <1>4, BoundaryFacts
  <2>2. /\ chunks' = Append(chunks, c) /\ offset' = offset + b
        /\ buf' = SubSeq(buf, b + 1, Len(buf))
    BY <1>4 DEF Cut, HandOut
  <2>3. n = Len(chunks) /\ c.offset = offset /\ c.length = b
    OBVIOUS
  <2>4. c \in Chunk
    <3>1. b \in 1 .. MaxSize /\ offset \in 0 .. MaxFile
      <4> HIDE DEF b
      <4> QED
        BY <1>1, <2>1
    <3> HIDE DEF b
    <3> QED
      BY <3>1 DEF Chunk
  <2> HIDE DEF n, b, c
  <2>5. buf' \in Seq(Byte) /\ Len(buf') = Len(buf) - b
    <3> DEFINE m == Len(buf) - b
    <3>1. m \in Nat /\ b \in Nat /\ m = Len(buf) - b
      BY <1>1, <2>1
    <3> HIDE DEF m
    <3>2. b + m = Len(buf)
      BY <1>1, <3>1
    <3>3. /\ SubSeq(buf, b + 1, b + m) \in Seq(Byte)
          /\ Len(SubSeq(buf, b + 1, b + m)) = m
      BY <1>1, <2>1, <3>1, <3>2, SliceFacts
    <3> QED
      BY <2>2, <3>1, <3>2, <3>3
  <2>6. /\ chunks' \in Seq(Chunk) /\ Len(chunks') = n + 1
        /\ chunks'[n + 1] = c
        /\ \A k \in 1 .. n : chunks'[k] = chunks[k]
    BY <1>1, <2>2, <2>3, <2>4, AppendProperties
  <2>7. /\ offset' \in 0 .. Len(file') /\ Len(buf') <= MaxSize
        /\ offset' = offset + b /\ offset' <= Len(file)
        /\ taken' = offset' + Len(buf')
    <3>1. /\ Len(buf) \in Nat /\ b \in Nat /\ 1 <= b /\ b <= Len(buf)
          /\ Len(file) \in Nat /\ MaxSize \in Nat
      BY <1>1, <2>1
    <3>2. file' = file /\ taken' = taken /\ taken = offset + Len(buf)
      BY <1>1, <1>2
    <3>3. offset' = offset + b /\ Len(buf') = Len(buf) - b
      BY <2>2, <2>5
    <3>4. offset' \in Nat /\ offset' <= Len(file)
      BY <1>1, <3>1, <3>2, <3>3
    <3>5. taken' = offset' + Len(buf') /\ Len(buf') <= MaxSize
      BY <1>1, <3>1, <3>2, <3>3
    <3> QED
      BY <3>1, <3>2, <3>3, <3>4, <3>5
  <2>8. TypeOK'
    BY <1>2, <2>5, <2>6, <2>7 DEF TypeOK
  <2>9. \A k \in 0 .. n : End(k)' = End(k)
    BY <2>6 DEF End
  <2>10. \A k \in Nat : k = n + 1 => End(k)' = offset'
    BY <2>1, <2>2, <2>3, <2>6 DEF End
  <2>11. offset = End(n)
    BY <2>3 DEF Tiled
  <2>12. ASSUME NEW k \in 1 .. n + 1
         PROVE  chunks'[k].offset = End(k - 1)' /\ End(k)' <= Len(file')
    <3>1. CASE k = n + 1
      <4>1. k - 1 = n /\ n \in 0 .. n
        BY <2>1, <3>1
      <4>2. End(k - 1)' = offset
        BY <2>9, <2>11, <4>1
      <4>3. End(k)' <= Len(file')
        BY <1>2, <2>1, <2>7, <2>10, <3>1
      <4>4. chunks'[k] = c
        BY <2>6, <3>1
      <4> QED
        BY <2>3, <4>2, <4>3, <4>4
    <3>2. CASE k \in 1 .. n
      <4>1. k \in 0 .. n /\ k - 1 \in 0 .. n
        BY <2>1, <3>2
      <4>2. End(k)' = End(k) /\ End(k - 1)' = End(k - 1)
        BY <2>9, <4>1
      <4> QED
        BY <1>2, <2>3, <2>6, <3>2, <4>2 DEF Tiled
    <3> QED
      BY <2>1, <3>1, <3>2
  <2>13. Tiled'
    <3>1. Len(chunks') = n + 1
      BY <2>6
    <3>2. (offset = End(Len(chunks)))'
      BY <2>1, <2>3, <2>2, <2>6, <3>1 DEF End
    <3> QED
      BY <2>7, <2>12, <3>1, <3>2 DEF Tiled
  <2> QED
    BY <2>8, <2>13
<1> QED
  BY <1>3, <1>4

LEMMA ReadBuffers == ASSUME CInv, Read PROVE Buffered' /\ SameCuts'
<1>1. /\ file \in Seq(Byte) /\ Len(file) \in Nat
      /\ buf \in Seq(Byte) /\ Len(buf) \in Nat /\ offset \in Nat
      /\ taken = offset + Len(buf) /\ taken <= Len(file)
  BY FileIsSeq, LenProperties DEF CInv, TypeOK, Tiled
<1> DEFINE room == {MaxSize - Len(buf), Len(file) - taken}
<1>2. PICK n \in 0 .. Min(room) :
        /\ buf' = buf \o SubSeq(file, taken + 1, taken + n)
        /\ taken' = taken + n
        /\ eof' \in IF taken' = Len(file) THEN BOOLEAN ELSE {FALSE}
  BY DEF Read
<1>3. room \in SUBSET Nat /\ room # {}
  BY <1>1 DEF CInv, TypeOK
<1>4. Min(room) \in Nat /\ Min(room) <= Len(file) - taken
  <2> HIDE DEF room
  <2>1. Min(room) \in room /\ \A y \in room : Min(room) <= y
    BY <1>3, LeastNumber
  <2> QED
    BY <1>3, <2>1 DEF room
<1> HIDE DEF room
<1>5. n \in Nat /\ offset + Len(buf) + n <= Len(file)
  BY <1>1, <1>2, <1>4
<1>6. SubSeq(file, offset + 1, offset + Len(buf))
        \o SubSeq(file, offset + Len(buf) + 1, offset + Len(buf) + n)
      = SubSeq(file, offset + 1, offset + Len(buf) + n)
  <2>1. PICK a \in Nat : a = Len(buf)
    BY <1>1
  <2>2. offset + a + n <= Len(file)
    BY <1>5, <2>1
  <2>3. file \in Seq(Byte) /\ offset \in Nat /\ n \in Nat
    BY <1>1, <1>5
  <2>4. SubSeq(file, offset + 1, offset + a)
          \o SubSeq(file, offset + a + 1, offset + a + n)
        = SubSeq(file, offset + 1, offset + a + n)
    BY <2>2, <2>3, Joined
  <2> QED
    BY <2>1, <2>4
<1>7. buf' = SubSeq(file, offset + 1, offset + Len(buf) + n)
  BY <1>1, <1>2, <1>6 DEF CInv, Buffered
<1>8. Len(buf') = Len(buf) + n
  <2>1. Len(buf) + n \in Nat /\ offset + (Len(buf) + n) <= Len(file)
        /\ offset + (Len(buf) + n) = offset + Len(buf) + n
    BY <1>1, <1>5
  <2>2. Len(SubSeq(file, offset + 1, offset + (Len(buf) + n))) = Len(buf) + n
    BY <1>1, <2>1, SliceFacts
  <2> QED
    BY <1>7, <2>1, <2>2
<1>9. UNCHANGED <<file, offset, chunks, pc>>
  BY DEF Read
<1>10. eof' => taken' = Len(file)
  BY <1>2
<1>11. offset + Len(buf') = offset + Len(buf) + n
  BY <1>1, <1>5, <1>8
<1>12. Buffered'
  BY <1>7, <1>9, <1>10, <1>11 DEF Buffered
<1>13. SameCuts'
  BY <1>9 DEF CInv, SameCuts, NextBytes, End
<1> QED
  BY <1>12, <1>13

\* A full buffer, or the last one, holds what comes next in the file.
LEMMA FullIsNext == ASSUME CInv, Full PROVE buf = NextBytes(offset)
<1>1. /\ file \in Seq(Byte) /\ Len(file) \in Nat
      /\ Len(buf) \in Nat /\ Len(buf) <= MaxSize /\ offset \in Nat
      /\ taken = offset + Len(buf) /\ taken <= Len(file)
  BY FileIsSeq, LenProperties DEF CInv, TypeOK, Tiled
<1>2. eof => offset + Len(buf) = Len(file)
  BY <1>1 DEF CInv, Buffered
<1>3. offset + Len(buf) = IF offset + MaxSize <= Len(file)
                          THEN offset + MaxSize ELSE Len(file)
  BY <1>1, <1>2 DEF Full
<1> QED
  BY <1>3 DEF CInv, Buffered, NextBytes

LEMMA CutBuffers == ASSUME CInv, Cut PROVE Buffered' /\ SameCuts'
<1>1. /\ file \in Seq(Byte) /\ Len(file) \in Nat
      /\ buf \in Seq(Byte) /\ Len(buf) \in Nat /\ offset \in Nat
      /\ taken = offset + Len(buf) /\ taken <= Len(file)
      /\ chunks \in Seq(Chunk) /\ Len(chunks) \in Nat
  BY FileIsSeq, LenProperties DEF CInv, TypeOK, Tiled
<1>2. UNCHANGED <<file, taken, eof>> /\ Full
  BY DEF Cut
<1>3. CASE buf = <<>>
  <2>1. UNCHANGED <<buf, offset, chunks>>
    BY <1>3 DEF Cut, HandOut
  <2> QED
    BY <1>2, <2>1 DEF CInv, Buffered, SameCuts, NextBytes, End
<1>4. CASE buf # <<>>
  <2> DEFINE n == Len(chunks)
             b == Boundary(buf)
             c == [offset |-> offset, length |-> b]
  <2>1. n \in Nat /\ b \in 1 .. Len(buf)
    BY <1>1, <1>4, BoundaryFacts
  <2>2. /\ chunks' = Append(chunks, c) /\ offset' = offset + b
        /\ buf' = SubSeq(buf, b + 1, Len(buf))
    BY <1>4 DEF Cut, HandOut
  <2>3. n = Len(chunks) /\ c.offset = offset /\ c.length = b
        /\ b = Boundary(NextBytes(offset))
    BY <1>2, FullIsNext
  <2> HIDE DEF n, b, c
  <2>4. /\ Len(chunks') = n + 1 /\ chunks'[n + 1] = c
        /\ \A k \in 1 .. n : chunks'[k] = chunks[k]
    <3>1. /\ Len(Append(chunks, c)) = Len(chunks) + 1
          /\ \A k \in 1 .. Len(chunks) : Append(chunks, c)[k] = chunks[k]
          /\ Append(chunks, c)[Len(chunks) + 1] = c
      BY <1>1
    <3> QED
      BY <2>2, <2>3, <3>1
  <2>5. Buffered'
    <3> DEFINE m == Len(buf) - b
    <3>1. m \in Nat /\ b \in Nat /\ b + m = Len(buf)
      BY <1>1, <2>1
    <3> HIDE DEF m
    <3>2. offset + b + m <= Len(file) /\ offset + Len(buf) = offset + b + m
      BY <1>1, <3>1
    <3>3. SubSeq(SubSeq(file, offset + 1, offset + b + m), b + 1, b + m)
            = SubSeq(file, offset + b + 1, offset + b + m)
      BY <1>1, <3>1, <3>2, Dropped
    <3>4. buf' = SubSeq(file, offset + b + 1, offset + b + m)
      BY <2>2, <3>1, <3>2, <3>3 DEF CInv, Buffered
    <3>5. Len(buf') = m
      <4>1. offset + b \in Nat /\ (offset + b) + m <= Len(file)
        BY <1>1, <3>1, <3>2
      <4>2. Len(SubSeq(file, (offset + b) + 1, (offset + b) + m)) = m
        BY <1>1, <3>1, <4>1, SliceFacts
      <4> QED
        BY <3>4, <4>2
    <3>6. eof' => taken' = Len(file')
      BY <1>2 DEF CInv, Buffered
    <3> QED
      BY <1>2, <2>2, <3>4, <3>5, <3>6 DEF Buffered
  <2>6. \A k \in 0 .. n : End(k)' = End(k)
    BY <2>4 DEF End
  <2>7. offset = End(n)
    BY <2>3 DEF CInv, Tiled
  <2>8. ASSUME NEW k \in 1 .. n + 1
        PROVE  /\ chunks'[k].offset = End(k - 1)'
               /\ (chunks[k].length = Boundary(NextBytes(End(k - 1))))'
    <3>1. CASE k = n + 1
      <4>1. k - 1 = n /\ n \in 0 .. n
        BY <2>1, <3>1
      <4>2. End(k - 1)' = offset
        BY <2>6, <2>7, <4>1
      <4>3. chunks'[k] = c
        BY <2>4, <3>1
      <4> QED
        BY <1>2, <2>3, <4>2, <4>3 DEF NextBytes
    <3>2. CASE k \in 1 .. n
      <4>1. k \in 0 .. n /\ k - 1 \in 0 .. n
        BY <2>1, <3>2
      <4>2. End(k - 1)' = End(k - 1)
        BY <2>6, <4>1
      <4> QED
        BY <1>2, <2>3, <2>4, <3>2, <4>2 DEF CInv, SameCuts, NextBytes
    <3> QED
      BY <2>1, <3>1, <3>2
  <2>9. SameCuts'
    BY <2>4, <2>8 DEF SameCuts
  <2> QED
    BY <2>5, <2>9
<1> QED
  BY <1>3, <1>4

\* Splitting goes on before the pull begins only.
LEMMA SplitKeeps == ASSUME XInv, Split PROVE XInv'
<1>1. TypeOK' /\ Tiled'
  <2>1. CASE Fail
    BY <2>1 DEF Fail, XInv, XTypeOK, TypeOK, Tiled, End
  <2> QED
    BY <2>1, ReadKeeps, CutKeeps DEF Split, Next, XInv, XTypeOK
<1>2. stage = "start" /\ file' = file
  BY DEF Split, Next, Read, Cut, Fail, XInv, Indexed, XTypeOK
<1>3. UNCHANGED <<stage, peer, stream, puller, trouble>>
  BY DEF Split
<1>4. XTypeOK'
  BY <1>1, <1>3 DEF XInv, XTypeOK, peer, puller, index
<1>5. Indexed' /\ Begun'
  BY <1>2, <1>3 DEF XInv, Indexed, Begun, Fresh, Frame, peer, puller, index
<1>6. Written'
  BY <1>2, <1>3 DEF XInv, Begun, Fresh, Written, End, peer, puller, index
<1> QED
  BY <1>1, <1>4, <1>5, <1>6 DEF XInv

-----------------------------------------------------------------------------
(* Pulling *)

\* An advertised block is a part of the file, and its hash is of its length.
LEMMA BlockFacts ==
  ASSUME XInv, NEW k \in 1 .. Len(blocks)
  PROVE  /\ blocks = Advertised /\ k \in 1 .. Len(chunks)
         /\ blocks[k].offset \in Nat /\ blocks[k].length \in Nat
         /\ blocks[k].offset = End(k - 1)
         /\ blocks[k].offset + blocks[k].length = End(k)
         /\ End(k) <= Len(file)
         /\ blocks[k].hash
              = Slice(file, blocks[k].offset, blocks[k].length)
         /\ blocks[k].hash \in Seq(Byte)
         /\ Len(blocks[k].hash) = blocks[k].length
<1>1. file \in Seq(Byte) /\ Len(file) \in Nat
  BY FileIsSeq DEF XInv, XTypeOK, TypeOK
<1>2. chunks \in Seq(Chunk) /\ Len(chunks) \in Nat
  BY DEF XInv, XTypeOK, TypeOK
<1>3. blocks = Advertised
  <2>1. blocks # <<>>
    BY EmptySeq
  <2> QED
    BY <2>1 DEF XInv, Indexed
<1>4. Len(blocks) = Len(chunks)
  <2>1. DOMAIN Advertised = 1 .. Len(chunks)
    BY DEF Advertised
  <2> QED
    BY <1>2, <1>3, <2>1, LenProperties
<1>5. k \in 1 .. Len(chunks) /\ k # 0
  BY <1>2, <1>4
<1>6. chunks[k] \in Chunk
  BY <1>2, <1>5
<1>7. chunks[k].offset \in Nat /\ chunks[k].length \in Nat
  BY <1>6 DEF Chunk
<1>8. blocks[k] = [offset |-> chunks[k].offset, length |-> chunks[k].length,
                   hash |-> Slice(file, chunks[k].offset, chunks[k].length)]
  BY <1>3, <1>5 DEF Advertised
<1>9. chunks[k].offset = End(k - 1) /\ End(k) <= Len(file)
  BY <1>5 DEF XInv, Tiled
<1>10. chunks[k].offset + chunks[k].length = End(k)
  BY <1>5 DEF End
<1>11. /\ Slice(file, chunks[k].offset, chunks[k].length) \in Seq(Byte)
       /\ Len(Slice(file, chunks[k].offset, chunks[k].length))
            = chunks[k].length
  BY <1>1, <1>7, <1>9, <1>10, SliceFacts DEF Slice
<1> QED
  BY <1>3, <1>5, <1>7, <1>8, <1>9, <1>10, <1>11

\* What a step of the pull leaves alone: the split file and its index.
LEMMA SameFile ==
  ASSUME XInv, UNCHANGED <<vars, blocks>>
  PROVE  /\ TypeOK' /\ Tiled' /\ Advertised' = Advertised
         /\ blocks' \in {<<>>, Advertised'}
         /\ \A k : End(k)' = End(k)
<1>1. UNCHANGED <<file, taken, eof, buf, offset, chunks, pc, blocks>>
  BY DEF vars
<1>2. \A k : End(k)' = End(k)
  BY <1>1 DEF End
<1> QED
  BY <1>1, <1>2 DEF XInv, XTypeOK, TypeOK, Tiled, Advertised, Indexed, End

LEMMA TakeIndexKeeps == ASSUME XInv, TakeIndex PROVE XInv'
<1>1. UNCHANGED vars /\ Len(file) <= MaxPulled /\ pc = "done"
      /\ stage = "start" /\ live' = file
      /\ UNCHANGED <<served, closed, stream, need, got, out, placed, trouble>>
  BY DEF TakeIndex
<1>2. UNCHANGED <<file, chunks, pc>>
  BY <1>1 DEF vars
<1>3. Fresh /\ blocks = <<>>
  BY <1>1 DEF XInv, Begun
<1>4. own' \in File
  <2>1. own' \in {<<>>} \cup Edited(file)
    BY DEF TakeIndex
  <2>2. <<>> \in File
    BY DEF File
  <2> QED
    BY <2>1, <2>2, EditedAssumption DEF XInv, XTypeOK, TypeOK
<1>5. /\ stage' \in {"ask", "nothing"} /\ blocks' \in {blocks, Advertised}
      /\ stage' = "ask" => blocks' = Advertised
  BY DEF TakeIndex
<1>6. TypeOK' /\ Tiled' /\ Advertised' = Advertised
  BY <1>1 DEF vars, XInv, XTypeOK, TypeOK, Tiled, Advertised, End
<1>7. Fresh'
  BY <1>1, <1>3 DEF Fresh
<1>8. Len(blocks') \in Nat
  <2>1. Len(chunks) \in Nat /\ DOMAIN Advertised = 1 .. Len(chunks)
    BY DEF Advertised, XInv, XTypeOK, TypeOK
  <2>2. Len(Advertised) \in Nat
    BY <2>1, LenProperties DEF Advertised
  <2> QED
    BY <1>3, <1>5, <2>2
<1>9. XTypeOK'
  <2>1. live' \in File /\ closed' \in BOOLEAN /\ trouble' \in 0 .. MaxTrouble
    BY <1>1 DEF XInv, XTypeOK, TypeOK
  <2> QED
    BY <1>4, <1>5, <1>6, <1>7, <1>8, <2>1 DEF XTypeOK, Fresh
<1>10. Indexed'
  BY <1>1, <1>2, <1>3, <1>5, <1>6 DEF Indexed
<1>11. Begun'
  BY <1>5, <1>7 DEF Begun, Fresh
<1>12. Written'
  BY <1>2, <1>6, <1>7, FileIsSeq, SubSeqEmpty
     DEF Written, Fresh, End, XTypeOK, TypeOK
<1> QED
  BY <1>6, <1>9, <1>10, <1>11, <1>12 DEF XInv

LEMMA AskKeeps == ASSUME XInv, Ask PROVE XInv'
<1>1. UNCHANGED <<vars, peer, stream, own, index, got, out, placed, trouble>>
      /\ stage = "ask" /\ stage' \in {"assemble", "receive"}
  BY DEF Ask
<1>2. UNCHANGED <<file, chunks, pc, live, served, closed, blocks>>
  BY <1>1 DEF vars, peer, index
<1>3. /\ TypeOK' /\ Tiled' /\ Advertised' = Advertised
      /\ blocks' \in {<<>>, Advertised'} /\ \A k : End(k)' = End(k)
  BY <1>1, SameFile DEF index
<1>4. Fresh
  BY <1>1 DEF XInv, Begun
<1>5. need' \subseteq 1 .. Len(blocks')
  <2>1. need' \subseteq DOMAIN blocks
    BY DEF Ask
  <2>2. DOMAIN blocks = 1 .. Len(blocks)
    <3>1. blocks \in {<<>>, Advertised} /\ Len(chunks) \in Nat
      BY DEF XInv, Indexed, XTypeOK, TypeOK
    <3> QED
      BY <3>1, LenProperties DEF Advertised
  <2> QED
    BY <1>2, <2>1, <2>2
<1>6. XTypeOK'
  BY <1>1, <1>2, <1>3, <1>4, <1>5 DEF XInv, XTypeOK, Fresh
<1>7. Indexed'
  BY <1>1, <1>2, <1>3 DEF XInv, Indexed
<1>8. Begun'
  <2>1. stream' = <<>>
    BY <1>1, <1>4 DEF Fresh
  <2> QED
    BY <1>1, <2>1 DEF Begun
<1>9. Written'
  BY <1>1, <1>2, <1>3 DEF XInv, Written
<1> QED
  BY <1>3, <1>6, <1>7, <1>8, <1>9 DEF XInv

\* A step that takes the stage from "ask" on to a later one, or leaves it, and
\* neither asks nor writes: only what is on the way or has come may differ.
LEMMA MovesOn ==
  ASSUME XInv, UNCHANGED <<vars, blocks, need, placed, out>>,
         \/ stage' = stage /\ stage \notin {"start", "ask", "nothing"}
         \/ stage \notin {"start", "ask", "nothing"}
            /\ stage' \in {"receive", "assemble", "installed", "failed"},
         stream' \in Seq(Frame)
  PROVE  /\ TypeOK' /\ Tiled' /\ Indexed' /\ Begun' /\ Written'
         /\ need' \subseteq 1 .. Len(blocks') /\ placed' \in 0 .. Len(blocks')
         /\ \A k \in 1 .. Len(stream') :
              Len(stream'[k].data) = Len(stream'[k].hash)
<1>1. UNCHANGED <<file, chunks, pc>>
  BY DEF vars
<1>2. /\ TypeOK' /\ Tiled' /\ Advertised' = Advertised
      /\ blocks' \in {<<>>, Advertised'} /\ \A k : End(k)' = End(k)
  BY SameFile
<1>3. Frame' = Frame
  BY DEF Frame
<1>4. Indexed'
  BY <1>1, <1>2 DEF XInv, Indexed
<1>5. Begun'
  BY <1>3 DEF Begun
<1>6. Written'
  BY <1>1, <1>2 DEF XInv, Written
<1>7. \A k \in 1 .. Len(stream') : stream'[k] \in Frame
  OBVIOUS
<1>8. need' \subseteq 1 .. Len(blocks') /\ placed' \in 0 .. Len(blocks')
  BY DEF XInv, XTypeOK
<1> QED
  BY <1>2, <1>4, <1>5, <1>6, <1>7, <1>8 DEF Frame

LEMMA ServeKeeps == ASSUME XInv, Serve PROVE XInv'
<1>1. UNCHANGED <<vars, blocks, need, placed, out>> /\ stage' = stage
      /\ UNCHANGED <<live, own, got, trouble>> /\ stage = "receive"
  BY DEF Serve, puller, index
<1> DEFINE k == Min(need \ served)
           b == blocks[k]
<1>2. k \in need \ served
  <2>1. need \subseteq 1 .. Len(blocks) /\ served \subseteq need
        /\ served # need
    BY DEF Serve, XInv, XTypeOK
  <2>2. need \ served \in SUBSET Nat
    BY <2>1
  <2>3. need \ served # {}
    BY <2>1
  <2> QED
    BY <2>2, <2>3, LeastNumber
<1>3. k \in 1 .. Len(blocks)
  BY <1>2 DEF XInv, XTypeOK
<1> HIDE DEF k
<1>4. \/ /\ Holds(live, b.offset, b.length)
         /\ stream' = Append(stream,
                   BlockData(b.hash, Slice(live, b.offset, b.length)))
         /\ served' = served \cup {k} /\ closed' = closed
      \/ closed' = TRUE /\ UNCHANGED <<stream, served>>
  BY DEF Serve, k
<1>5. served' \subseteq need' /\ closed' \in BOOLEAN
  BY <1>1, <1>2, <1>4 DEF XInv, XTypeOK
<1>6. stream' \in Seq(Frame)
  <2>1. CASE UNCHANGED stream
    BY <2>1 DEF XInv, Begun
  <2>2. CASE /\ Holds(live, b.offset, b.length)
             /\ stream' = Append(stream,
                   BlockData(b.hash, Slice(live, b.offset, b.length)))
    <3>1. /\ b.offset \in Nat /\ b.length \in Nat
          /\ Len(b.hash) = b.length
      BY <1>3, BlockFacts
    <3>2. live \in Seq(Byte)
      BY FileIsSeq DEF XInv, XTypeOK
    <3>3. /\ Slice(live, b.offset, b.length) \in Seq(Byte)
          /\ Len(Slice(live, b.offset, b.length)) = b.length
      BY <2>2, <3>1, <3>2, SliceFacts DEF Holds, Slice
    <3>4. BlockData(b.hash, Slice(live, b.offset, b.length)) \in Frame
      BY <1>2, <3>1, <3>3 DEF BlockData, Frame
    <3> QED
      BY <2>2, <3>4, AppendProperties DEF XInv, Begun
  <2> QED
    BY <1>4, <2>1, <2>2
<1>7. /\ TypeOK' /\ Tiled' /\ Indexed' /\ Begun' /\ Written'
      /\ need' \subseteq 1 .. Len(blocks') /\ placed' \in 0 .. Len(blocks')
      /\ \A j \in 1 .. Len(stream') :
           Len(stream'[j].data) = Len(stream'[j].hash)
  BY <1>1, <1>6, MovesOn
<1>8. XTypeOK'
  BY <1>1, <1>5, <1>7 DEF XInv, XTypeOK
<1> QED
  BY <1>7, <1>8 DEF XInv

LEMMA ReceiveKeeps == ASSUME XInv, Receive PROVE XInv'
<1>1. /\ UNCHANGED <<vars, blocks, need, placed, out>>
      /\ UNCHANGED <<live, served, closed, own, trouble>>
      /\ stage = "receive" /\ stage' \in {"assemble", "receive"}
      /\ stream # <<>> /\ stream' = Tail(stream)
  BY DEF Receive, peer, index
<1>2. stream \in Seq(Frame)
  BY DEF XInv, Begun
<1>3. Head(stream) \in Frame /\ stream' \in Seq(Frame)
  BY <1>1, <1>2, HeadTailProperties
<1>4. DOMAIN got' \subseteq {blocks'[k].hash : k \in need'}
  <2>1. DOMAIN got' = DOMAIN got \cup {Head(stream).hash}
    BY DEF Receive
  <2>2. Head(stream).hash \in {blocks[k].hash : k \in need}
    BY <1>3 DEF Frame
  <2> QED
    BY <1>1, <2>1, <2>2 DEF XInv, XTypeOK
<1>5. /\ TypeOK' /\ Tiled' /\ Indexed' /\ Begun' /\ Written'
      /\ need' \subseteq 1 .. Len(blocks') /\ placed' \in 0 .. Len(blocks')
      /\ \A j \in 1 .. Len(stream') :
           Len(stream'[j].data) = Len(stream'[j].hash)
  BY <1>1, <1>3, MovesOn
<1>6. XTypeOK'
  BY <1>1, <1>4, <1>5 DEF XInv, XTypeOK
<1> QED
  BY <1>5, <1>6 DEF XInv

\* Whichever of the two files the bytes come from, they have the hash of the
\* advertised block, and it is the next part of the file.
LEMMA PutKeeps == ASSUME XInv, Put PROVE XInv'
<1>1. /\ UNCHANGED <<vars, peer, stream, own, blocks, need, got, trouble>>
      /\ UNCHANGED <<live, served, closed>> /\ stage = "assemble"
      /\ placed < Len(blocks)
  BY DEF Put, peer, index
<1>2. CASE UNCHANGED <<out, placed>>
  <2>1. stage' \in {"failed", "assemble"}
    BY <1>1 DEF Put
  <2>2. stream' \in Seq(Frame)
    BY <1>1 DEF XInv, Begun
  <2>3. /\ TypeOK' /\ Tiled' /\ Indexed' /\ Begun' /\ Written'
        /\ need' \subseteq 1 .. Len(blocks') /\ placed' \in 0 .. Len(blocks')
        /\ \A j \in 1 .. Len(stream') :
             Len(stream'[j].data) = Len(stream'[j].hash)
    BY <1>1, <1>2, <2>1, <2>2, MovesOn
  <2>4. XTypeOK'
    BY <1>1, <1>2, <2>1, <2>3 DEF XInv, XTypeOK
  <2> QED
    BY <2>3, <2>4 DEF XInv
<1>3. CASE /\ out' = out \o blocks[placed + 1].hash
           /\ placed' = placed + 1 /\ stage' = stage
  <2>1. placed \in Nat /\ placed + 1 \in 1 .. Len(blocks) /\ placed + 1 # 0
        /\ (placed + 1) - 1 = placed
    <3>1. Len(blocks) \in Nat /\ placed \in Nat
      BY <1>1 DEF XInv, XTypeOK
    <3> QED
      BY <1>1, <3>1
  <2> DEFINE b == blocks[placed + 1]
  <2>2. /\ b.offset \in Nat /\ b.length \in Nat
        /\ b.offset = End(placed) /\ b.offset + b.length = End(placed + 1)
        /\ End(placed + 1) <= Len(file)
        /\ b.hash = Slice(file, b.offset, b.length)
    BY <2>1, BlockFacts
  <2>3. file \in Seq(Byte)
    BY FileIsSeq DEF XInv, XTypeOK, TypeOK
  <2>4. out = SubSeq(file, 1, b.offset)
    BY <2>2 DEF XInv, Written
  <2>5. out' = SubSeq(file, 1, b.offset + b.length)
    <3>1. out' = out \o b.hash
      BY <1>3
    <3>2. b.offset + b.length <= Len(file)
      BY <2>2
    <3> HIDE DEF b
    <3>3. SubSeq(file, 1, b.offset)
            \o SubSeq(file, b.offset + 1, b.offset + b.length)
          = SubSeq(file, 1, b.offset + b.length)
      BY <2>2, <2>3, <3>2, JoinedToFirst
    <3> QED
      BY <2>2, <2>4, <3>1, <3>3 DEF Slice
  <2>6. /\ TypeOK' /\ Tiled' /\ Advertised' = Advertised
        /\ blocks' \in {<<>>, Advertised'} /\ \A k : End(k)' = End(k)
    BY <1>1, SameFile
  <2>7. Written'
    <3>1. \A k : k = placed' => End(k)' = End(placed + 1)
      BY <1>3, <2>6
    <3>2. (End(placed))' = End(placed + 1)
      BY <1>3, <2>6 DEF End
    <3> QED
      BY <1>1, <2>2, <2>5, <3>2 DEF Written, vars
  <2>8. XTypeOK'
    BY <1>1, <1>3, <2>1, <2>6 DEF XInv, XTypeOK
  <2>9. Indexed'
    BY <1>1, <1>3, <2>6 DEF XInv, Indexed, vars
  <2>10. Begun'
    BY <1>1, <1>3 DEF XInv, Begun, Frame
  <2> QED
    BY <2>6, <2>7, <2>8, <2>9, <2>10 DEF XInv
<1> QED
  BY <1>2, <1>3 DEF Put

\* The steps that only move the stage, close the stream or change a live file.
LEMMA OthersKeep ==
  ASSUME XInv,
         Close \/ EndOfStream \/ Finish \/ PeerEdits \/ OwnEdits \/ Breaks
           \/ StopsServing
  PROVE  XInv'
<1>1. /\ UNCHANGED <<vars, stream, blocks, need, served, got, placed, out>>
      /\ closed' \in BOOLEAN
  <2>1. closed \in BOOLEAN
    BY DEF XInv, XTypeOK
  <2> QED
    BY <2>1 DEF Close, EndOfStream, Finish, PeerEdits, OwnEdits, Breaks,
                StopsServing, peer, puller, index
<1>2. \/ stage' = stage
      \/ /\ stage \in {"ask", "receive", "assemble"}
         /\ stage' \in {"assemble", "installed", "failed"}
         /\ stage = "ask" => stage' = "failed"
  BY DEF Close, EndOfStream, Finish, PeerEdits, OwnEdits, Breaks,
         StopsServing, Trouble, Pulling
<1>3. live' \in File /\ own' \in File
  BY EditedAssumption
     DEF Close, EndOfStream, Finish, PeerEdits, OwnEdits, Breaks,
         StopsServing, peer, puller, XInv, XTypeOK
<1>4. trouble' \in 0 .. MaxTrouble
  <2>1. \/ trouble' = trouble
        \/ trouble < MaxTrouble /\ trouble' = trouble + 1
    BY DEF Close, EndOfStream, Finish, PeerEdits, OwnEdits, Breaks,
           StopsServing, Trouble
  <2> QED
    BY <2>1, TroubleAssumption DEF XInv, XTypeOK
<1>5. /\ TypeOK' /\ Tiled' /\ Advertised' = Advertised
      /\ blocks' \in {<<>>, Advertised'} /\ \A k : End(k)' = End(k)
  BY <1>1, SameFile
<1>6. XTypeOK'
  BY <1>1, <1>2, <1>3, <1>4, <1>5 DEF XInv, XTypeOK
<1>7. Indexed'
  BY <1>1, <1>2, <1>5 DEF XInv, Indexed, vars
<1>8. Begun'
  BY <1>1, <1>2 DEF XInv, Begun, Fresh, Frame
<1>9. Written'
  BY <1>1, <1>5 DEF XInv, Written, vars
<1> QED
  BY <1>5, <1>6, <1>7, <1>8, <1>9 DEF XInv

LEMMA XStepInv == ASSUME XInv, [XNext]_xvars PROVE XInv'
<1>1. CASE UNCHANGED xvars
  <2>1. UNCHANGED <<file, taken, eof, buf, offset, chunks, pc, stage, live,
                    own, blocks, need, served, closed, stream, got, out,
                    placed, trouble>>
    BY <1>1 DEF xvars, vars, peer, puller, index
  <2>2. TypeOK' /\ Tiled' /\ Advertised' = Advertised
    BY <2>1 DEF XInv, XTypeOK, TypeOK, Tiled, Advertised, End
  <2>3. XTypeOK'
    BY <2>1, <2>2 DEF XInv, XTypeOK
  <2>4. Indexed' /\ Begun' /\ Written'
    BY <2>1, <2>2 DEF XInv, Indexed, Begun, Fresh, Frame, Written, End
  <2> QED
    BY <2>2, <2>3, <2>4 DEF XInv
<1>2. CASE XNext
  BY <1>2, SplitKeeps, TakeIndexKeeps, AskKeeps, ServeKeeps, ReceiveKeeps,
     PutKeeps, OthersKeep DEF XNext, Answer, Pull
<1> QED
  BY <1>1, <1>2

-----------------------------------------------------------------------------
(* Theorems *)

LEMMA XInvariance == XSpec => []XInv
<1>1. XInit => XInv
  BY XInitInv
<1>2. XInv /\ [XNext]_xvars => XInv'
  BY XStepInv
<1> QED
  BY <1>1, <1>2, PTL DEF XSpec

LEMMA CInitInv == ASSUME Init PROVE CInv
<1>1. file \in File /\ file \in Seq(Byte) /\ Len(file) \in Nat
  BY FileIsSeq DEF Init
<1>2. eof \in BOOLEAN
  BY Zenon DEF Init
<1>3. TypeOK /\ Tiled
  BY <1>1, <1>2 DEF Init, TypeOK, Tiled, End
<1>4. Buffered
  BY <1>1, SubSeqEmpty DEF Init, Buffered
<1>5. SameCuts /\ Covered
  BY DEF Init, SameCuts, Covered
<1> QED
  BY <1>3, <1>4, <1>5 DEF CInv

LEMMA CStepInv == ASSUME CInv, [Next]_vars PROVE CInv'
<1>1. CASE Read
  <2>1. pc' = "run"
    BY <1>1 DEF Read
  <2> QED
    BY <1>1, <2>1, ReadKeeps, ReadBuffers DEF CInv, Covered
<1>2. CASE Cut
  <2>1. TypeOK' /\ Tiled' /\ Buffered' /\ SameCuts'
    BY <1>2, CutKeeps, CutBuffers DEF CInv
  <2>2. Covered'
    <3>1. SUFFICES ASSUME pc' = "done"
                   PROVE  (offset = Len(file))'
      BY <2>1 DEF Covered, Tiled
    <3>2. eof' /\ buf' = <<>>
      BY <1>2, <3>1 DEF Cut
    <3>3. taken' = Len(file') /\ taken' = offset' + Len(buf')
      BY <2>1, <3>2 DEF Buffered, Tiled
    <3>4. PICK end \in Nat : end = offset'
      BY <2>1, FileIsSeq DEF TypeOK
    <3>5. taken' = end + Len(buf') /\ Len(buf') = 0
      BY <3>2, <3>3, <3>4
    <3>6. taken' = end
      BY <3>5
    <3> QED
      BY <3>3, <3>4, <3>6
  <2> QED
    BY <2>1, <2>2 DEF CInv
<1>3. CASE Fail \/ UNCHANGED vars
  <2>1. UNCHANGED <<file, taken, eof, buf, offset, chunks>>
        /\ pc' \in {pc, "failed"}
    BY <1>3 DEF Fail, vars
  <2>2. TypeOK' /\ Tiled'
    BY <2>1 DEF CInv, TypeOK, Tiled, End
  <2>3. Covered'
    BY <1>3, <2>1 DEF CInv, Covered, End, Fail, vars
  <2> QED
    BY <2>1, <2>2, <2>3 DEF CInv, Buffered, SameCuts, NextBytes, End
<1> QED
  BY <1>1, <1>2, <1>3 DEF Next

LEMMA SplitInvariance == Spec => []CInv
<1>1. Init => CInv
  BY CInitInv
<1>2. CInv /\ [Next]_vars => CInv'
  BY CStepInv
<1> QED
  BY <1>1, <1>2, PTL DEF Spec

\* Whatever has been read and handed out so far, the blocks are cut as
\* Chunker.boundary says of the file's bytes, however the reads fell (Split).
THEOREM CutsAlike == Spec => []SameCuts
<1>1. CInv => SameCuts
  BY DEF CInv
<1> QED
  BY <1>1, SplitInvariance, PTL

\* What Chunker.Split has handed out when it returns is the whole file, without
\* a gap or an overlap.
THEOREM CutsAll == Spec => [](Tiled /\ Covered)
<1>1. CInv => Tiled /\ Covered
  BY DEF CInv
<1> QED
  BY <1>1, SplitInvariance, PTL

-----------------------------------------------------------------------------
(* Where a block ends, said of the file alone *)

\* What of data the buffer holds when it is full and begins at p.
BytesFrom(data, p) ==
  SubSeq(data, p + 1, IF p + MaxSize <= Len(data) THEN p + MaxSize ELSE Len(data))

\* The fingerprint moves on by one digit per byte.
LEMMA FingerprintSteps ==
  ASSUME NEW data \in Seq(Byte)
  PROVE  /\ Fingerprint(data)[0] = 0
         /\ \A i \in 1 .. Len(data) :
              Fingerprint(data)[i]
                = (2 * Fingerprint(data)[i - 1] + Gear[data[i]]) % AvgSize
<1> DEFINE n == Len(data)
           F == [ix \in (1 .. n) \X (0 .. AvgSize - 1) |->
                   (2 * ix[2] + Gear[data[ix[1]]]) % AvgSize]
           Def(w) == w = [i \in 0 .. Len(data) |->
                            IF i = 0 THEN 0
                            ELSE (2 * w[i - 1] + Gear[data[i]]) % AvgSize]
<1>1. n \in Nat /\ 0 \in 0 .. AvgSize - 1
  BY Config
<1>2. ASSUME NEW i \in 1 .. n PROVE Gear[data[i]] \in Int
  BY Config
<1>3. F \in Rule(n, 0 .. AvgSize - 1)
  <2>1. ASSUME NEW i \in 1 .. n, NEW x \in 0 .. AvgSize - 1
        PROVE  (2 * x + Gear[data[i]]) % AvgSize \in 0 .. AvgSize - 1
    <3>1. 2 * x + Gear[data[i]] \in Int
      BY <1>2, Config
    <3> QED
      BY <3>1, Divided, Config
  <2> QED
    BY <2>1 DEF Rule
<1>4. \A i \in 1 .. n, x \in 0 .. AvgSize - 1 :
        F[<<i, x>>] = (2 * x + Gear[data[i]]) % AvgSize
  OBVIOUS
<1> HIDE DEF F
<1>5. PICK w \in [0 .. n -> 0 .. AvgSize - 1] :
        w[0] = 0 /\ \A i \in 1 .. n : w[i] = F[<<i, w[i - 1]>>]
  <2>1. \E w : Follows(w, 0 .. AvgSize - 1, 0, n, F)
    BY <1>1, <1>3, Recursion
  <2> QED
    BY <2>1 DEF Follows
<1>6. \A i \in 1 .. n : w[i] = (2 * w[i - 1] + Gear[data[i]]) % AvgSize
  <2> TAKE i \in 1 .. n
  <2>1. i - 1 \in 0 .. n
    BY ONLY <1>1, i \in 1 .. n
  <2>2. w[i - 1] \in 0 .. AvgSize - 1
    BY ONLY <1>5, <2>1, Zenon
  <2> QED
    BY <1>4, <1>5, <2>2
<1>7. Def(w)
  BY <1>1, <1>5, <1>6
<1>8. Fingerprint(data) = CHOOSE v : Def(v)
  BY DEF Fingerprint
<1>9. Def(Fingerprint(data))
  BY <1>7, <1>8
<1> HIDE DEF Def
<1>10. /\ Fingerprint(data)[0] = 0
       /\ \A i \in 1 .. Len(data) :
            Fingerprint(data)[i]
              = (2 * Fingerprint(data)[i - 1] + Gear[data[i]]) % AvgSize
  BY <1>1, <1>9 DEF Def
<1> QED
  BY <1>10

\* So does what it adds up to.
LEMMA WeightSteps ==
  ASSUME NEW data \in Seq(Byte), NEW p \in Nat, NEW e \in p .. Len(data)
  PROVE  \E sum \in [p .. e -> Int] :
           /\ sum[p] = 0 /\ Weight(data, p, e) = sum[e]
           /\ \A j \in p + 1 .. e : sum[j] = 2 * sum[j - 1] + Gear[data[j]]
<1> DEFINE n == e - p
           F == [ix \in (1 .. n) \X Int |-> 2 * ix[2] + Gear[data[p + ix[1]]]]
           Def(w) == w = [j \in p .. e |->
                            IF j = p THEN 0 ELSE 2 * w[j - 1] + Gear[data[j]]]
<1>1. n \in Nat /\ 0 \in Int /\ Len(data) \in Nat /\ e \in Nat
  OBVIOUS
<1>2. ASSUME NEW j \in p + 1 .. e PROVE Gear[data[j]] \in Int
  <2>1. j \in 1 .. Len(data)
    BY <1>1
  <2> QED
    BY <2>1, Config
<1>3. F \in Rule(n, Int)
  <2>1. ASSUME NEW i \in 1 .. n, NEW x \in Int
        PROVE  2 * x + Gear[data[p + i]] \in Int
    <3>1. p + i \in p + 1 .. e
      BY <1>1
    <3> QED
      BY <1>2, <3>1
  <2> QED
    BY <2>1 DEF Rule
<1>4. \A i \in 1 .. n, x \in Int : F[<<i, x>>] = 2 * x + Gear[data[p + i]]
  OBVIOUS
<1> HIDE DEF F
<1>5. PICK w \in [0 .. n -> Int] :
        w[0] = 0 /\ \A i \in 1 .. n : w[i] = F[<<i, w[i - 1]>>]
  <2>1. \E w : Follows(w, Int, 0, n, F)
    BY <1>1, <1>3, Recursion
  <2> QED
    BY <2>1 DEF Follows
<1> DEFINE v == [j \in p .. e |-> w[j - p]]
<1>6. v \in [p .. e -> Int] /\ v[p] = 0
  BY <1>1, <1>5
<1>7. ASSUME NEW j \in p + 1 .. e
      PROVE  v[j] = 2 * v[j - 1] + Gear[data[j]]
  <2>1. /\ j - p \in 1 .. n /\ (j - p) - 1 = (j - 1) - p /\ p + (j - p) = j
        /\ j \in p .. e /\ j - 1 \in p .. e
    BY <1>1
  <2>2. w[j - p] = 2 * w[(j - p) - 1] + Gear[data[p + (j - p)]]
    <3>1. PICK i \in 1 .. n : i = j - p
      BY <2>1
    <3>2. w[i - 1] \in Int
      BY <1>1, <1>5
    <3> QED
      BY <1>4, <1>5, <3>1, <3>2
  <2> QED
    BY <2>1, <2>2
<1> HIDE DEF v
<1>8. Def(v)
  <2>1. \A j \in p .. e : v[j] = IF j = p THEN 0 ELSE 2 * v[j - 1] + Gear[data[j]]
    <3> TAKE j \in p .. e
    <3>1. j # p => j \in p + 1 .. e
      BY <1>1
    <3> QED
      BY <1>6, <1>7, <3>1
  <2>2. v = [j \in p .. e |-> v[j]]
    BY <1>6
  <2> QED
    BY <2>1, <2>2
<1> DEFINE s == CHOOSE u : Def(u)
<1>9. Def(s)
  BY <1>8
<1>10. Weight(data, p, e) = s[e]
  BY DEF Weight
<1> HIDE DEF s
<1>11. /\ s[p] = 0
       /\ \A j \in p + 1 .. e : s[j] = 2 * s[j - 1] + Gear[data[j]]
       /\ s = [j \in p .. e |-> s[j]]
  <2>1. PICK u : u = s /\ Def(u)
    BY <1>9
  <2>2. \A j \in p .. e : u[j] = IF j = p THEN 0 ELSE 2 * u[j - 1] + Gear[data[j]]
    BY <2>1
  <2>3. \A j \in p + 1 .. e : j \in p .. e /\ j # p
    BY <1>1
  <2>4. u = [j \in p .. e |-> u[j]]
    BY <2>1
  <2>5. p \in p .. e
    BY <1>1
  <2> QED
    BY <2>1, <2>2, <2>3, <2>4, <2>5
<1> HIDE DEF Def
<1>12. \A j \in p .. e : s[j] \in Int
  <2> DEFINE Bad == {j \in p .. e : s[j] \notin Int}
  <2> SUFFICES ASSUME Bad # {} PROVE FALSE
    OBVIOUS
  <2>1. Bad \in SUBSET Nat
    BY <1>1
  <2> HIDE DEF Bad
  <2>2. PICK j \in Bad : \A k \in Bad : j <= k
    BY <2>1, LeastNumber
  <2> USE DEF Bad
  <2>3. j # p
    BY <1>11, <2>2
  <2>4. j \in p + 1 .. e /\ j - 1 \in p .. e /\ ~(j <= j - 1)
    BY <1>1, <2>2, <2>3
  <2>5. s[j - 1] \in Int
    BY <2>2, <2>4
  <2>6. Gear[data[j]] \in Int
    BY <1>2, <2>4
  <2>7. s[j] = 2 * s[j - 1] + Gear[data[j]]
    BY <1>11, <2>4
  <2>8. s[j] \in Int
    BY ONLY <2>5, <2>6, <2>7
  <2> QED
    BY <2>2, <2>8
<1>13. s \in [p .. e -> Int]
  BY <1>11, <1>12
<1> QED
  BY <1>10, <1>11, <1>13

\* The fingerprint of a part of the file is what its bytes add up to, taken
\* modulo the mask: where in the buffer they lie makes no difference.
LEMMA FingerprintIsWeight ==
  ASSUME NEW data \in Seq(Byte), NEW p \in Nat, NEW n \in Nat, p + n <= Len(data),
         NEW i \in 0 .. n
  PROVE  Fingerprint(SubSeq(data, p + 1, p + n))[i]
           = Weight(data, p, p + i) % AvgSize
<1> DEFINE d == SubSeq(data, p + 1, p + n)
<1>1. d \in Seq(Byte) /\ Len(d) = n /\ \A k \in 1 .. n : d[k] = data[p + k]
  BY SliceFacts
<1> HIDE DEF d
<1>2. p + i \in p .. Len(data) /\ Len(data) \in Nat /\ i \in Nat
  OBVIOUS
<1>3. PICK sum \in [p .. p + i -> Int] :
        /\ sum[p] = 0 /\ Weight(data, p, p + i) = sum[p + i]
        /\ \A j \in p + 1 .. p + i : sum[j] = 2 * sum[j - 1] + Gear[data[j]]
  BY <1>2, WeightSteps, Zenon
<1> DEFINE fp == Fingerprint(d)
<1>4. fp[0] = 0 /\ \A k \in 1 .. n : fp[k] = (2 * fp[k - 1] + Gear[d[k]]) % AvgSize
  BY <1>1, FingerprintSteps
<1> HIDE DEF fp
<1> DEFINE Bad == {k \in 0 .. i : fp[k] # sum[p + k] % AvgSize}
<1>5. Bad = {}
  <2> SUFFICES ASSUME Bad # {} PROVE FALSE
    OBVIOUS
  <2>1. Bad \in SUBSET Nat
    OBVIOUS
  <2> HIDE DEF Bad
  <2>2. PICK k \in Bad : \A l \in Bad : k <= l
    BY <2>1, LeastNumber
  <2> USE DEF Bad
  <2>3. k # 0
    <3>1. 0 % AvgSize = 0
      BY Config
    <3> QED
      BY <1>3, <1>4, <2>2, <3>1
  <2>4. /\ k \in 1 .. i /\ k \in 1 .. n /\ k - 1 \in 0 .. i /\ ~(k <= k - 1)
        /\ p + k \in p + 1 .. p + i /\ (p + k) - 1 = p + (k - 1)
        /\ p + (k - 1) \in p .. p + i
    BY <1>2, <2>2, <2>3
  <2> DEFINE x == sum[p + (k - 1)]
             g == Gear[data[p + k]]
  <2>5. fp[k - 1] = x % AvgSize
    BY <2>2, <2>4
  <2>6. x \in Int /\ g \in Int
    <3>1. p + k \in 1 .. Len(data)
      BY <1>2, <2>4
    <3>2. data[p + k] \in Byte
      BY <3>1
    <3> QED
      BY <1>3, <2>4, <3>2, Config
  <2>7. fp[k] = (2 * (x % AvgSize) + g) % AvgSize
    BY <1>1, <1>4, <2>4, <2>5
  <2>8. sum[p + k] = 2 * x + g
    BY <1>3, <2>4
  <2> HIDE DEF x, g
  <2>9. fp[k] = sum[p + k] % AvgSize
    BY <2>6, <2>7, <2>8, Carried, Config
  <2> QED
    BY <2>2, <2>9
<1>6. fp[i] = sum[p + i] % AvgSize
  <2>1. i \in 0 .. i
    BY ONLY <1>2
  <2> QED
    BY ONLY <1>5, <2>1
<1> QED
  BY <1>3, <1>6 DEF fp, d

\* Chunker.boundary of what the buffer holds is the end of the block as the
\* file has it.
LEMMA BoundaryIsBlockEnd ==
  ASSUME NEW data \in File, NEW p \in 0 .. Len(data)
  PROVE  BlockEnd(data, p) = p + Boundary(BytesFrom(data, p))
<1>1. /\ data \in Seq(Byte) /\ Len(data) \in Nat /\ p \in Nat
      /\ MinSize \in Nat /\ MaxSize \in Nat /\ MinSize <= MaxSize
  BY FileIsSeq, Config
<1> DEFINE last == IF p + MaxSize <= Len(data) THEN p + MaxSize ELSE Len(data)
           n == last - p
           d == SubSeq(data, p + 1, p + n)
<1>2. /\ last \in Nat /\ n \in Nat /\ p + n = last /\ last <= Len(data)
      /\ last <= p + MaxSize /\ (last = Len(data) \/ last = p + MaxSize)
  BY <1>1
<1>3. Min({Len(data), p + MaxSize}) = last
  <2> DEFINE S == {Len(data), p + MaxSize}
  <2>1. S \in SUBSET Nat /\ S # {}
    BY <1>1
  <2>2. Len(data) \in S /\ p + MaxSize \in S /\ \A y \in S : y = Len(data) \/ y = p + MaxSize
    OBVIOUS
  <2> HIDE DEF S
  <2>3. Min(S) \in S /\ \A y \in S : Min(S) <= y
    BY <2>1, LeastNumber
  <2>4. Min(S) = last
    BY <1>1, <2>2, <2>3
  <2> QED
    BY <2>4 DEF S
<1> HIDE DEF last
<1>4. BytesFrom(data, p) = d
  BY <1>2 DEF BytesFrom, last
<1>5. Len(d) = n
  BY <1>1, <1>2, SliceFacts
<1> HIDE DEF d
<1> DEFINE zeros == {i \in MinSize .. n : Fingerprint(d)[i] = 0}
           ends == {e \in p + MinSize .. last :
                      e = last \/ Weight(data, p, e) % AvgSize = 0}
<1>6. Boundary(d) = IF n <= MinSize \/ zeros = {} THEN n ELSE Min(zeros)
  BY <1>5 DEF Boundary
<1>7. BlockEnd(data, p)
        = IF Len(data) - p <= MinSize THEN Len(data) ELSE Min(ends)
  BY <1>3 DEF BlockEnd
<1>8. \A i \in 0 .. n :
        Fingerprint(d)[i] = 0 <=> Weight(data, p, p + i) % AvgSize = 0
  <2> TAKE i \in 0 .. n
  <2>1. n \in Nat /\ p + n <= Len(data)
    BY <1>1, <1>2
  <2> HIDE DEF n
  <2>2. Fingerprint(d)[i] = Weight(data, p, p + i) % AvgSize
    BY <1>1, <2>1, FingerprintIsWeight, Zenon DEF d
  <2> QED
    BY <2>2
<1>9. CASE Len(data) - p <= MinSize
  <2>1. last = Len(data) /\ n <= MinSize /\ p + n = Len(data)
    BY <1>1, <1>2, <1>9
  <2> QED
    BY <1>4, <1>6, <1>7, <1>9, <2>1
<1>10. CASE ~(Len(data) - p <= MinSize)
  <2>1. n >= MinSize /\ last \in p + MinSize .. last
    BY <1>1, <1>2, <1>10
  <2>2. ends \in SUBSET Nat /\ ends # {} /\ last \in ends
    BY <1>1, <2>1
  <2>3. zeros \in SUBSET Nat
    BY <1>1
  <2>4. \A e \in Nat :
          e \in ends <=>
            e >= p + MinSize /\ e <= last /\ (e = last \/ e - p \in zeros)
    <3> SUFFICES ASSUME NEW e \in Nat, e >= p + MinSize, e <= last
                 PROVE  Weight(data, p, e) % AvgSize = 0 <=> e - p \in zeros
      BY <1>1, <1>2
    <3>1. e - p \in 0 .. n /\ e - p \in MinSize .. n /\ p + (e - p) = e
      BY <1>1, <1>2
    <3> QED
      BY <1>8, <3>1
  <2>5. \A i \in zeros : i \in Nat /\ i >= MinSize /\ i <= n
    BY <1>1
  <2> HIDE DEF ends, zeros
  <2>6. Min(ends) \in ends /\ \A y \in ends : Min(ends) <= y
    BY <2>2, LeastNumber
  <2>7. CASE n <= MinSize \/ zeros = {}
    <3>1. Min(ends) = last
      <4>1. Min(ends) \in Nat /\ Min(ends) >= p + MinSize /\ Min(ends) <= last
        BY <2>2, <2>4, <2>6
      <4>2. CASE n <= MinSize
        BY <1>1, <1>2, <2>1, <4>1, <4>2
      <4>3. CASE zeros = {}
        BY <2>4, <2>6, <4>1, <4>3
      <4> QED
        BY <2>7, <4>2, <4>3
    <3> QED
      BY <1>2, <1>4, <1>6, <1>7, <1>10, <2>7, <3>1
  <2>8. CASE ~(n <= MinSize \/ zeros = {})
    <3>1. Min(zeros) \in zeros /\ \A y \in zeros : Min(zeros) <= y
      BY <2>3, <2>8, LeastNumber
    <3> DEFINE m == Min(zeros)
               k == Min(ends)
    <3>2. /\ m \in Nat /\ m >= MinSize /\ m <= n /\ m \in zeros
          /\ \A y \in zeros : m <= y
      BY <2>5, <3>1
    <3>3. k \in Nat /\ k >= p + MinSize /\ k <= last /\ k \in ends
          /\ \A y \in ends : k <= y
      BY <2>2, <2>4, <2>6
    <3> HIDE DEF m, k
    <3>4. k <= p + m
      <4>1. p + m \in Nat /\ p + m >= p + MinSize /\ p + m <= last
            /\ (p + m) - p = m
        BY <1>1, <1>2, <3>2
      <4>2. p + m \in ends
        BY <2>4, <3>2, <4>1
      <4> QED
        BY <3>3, <4>2
    <3>5. p + m <= k
      <4>1. CASE k = last
        BY <1>1, <1>2, <3>2, <4>1
      <4>2. CASE k # last
        <5>1. k - p \in zeros
          BY <2>4, <3>3, <4>2
        <5>2. m <= k - p
          BY <3>2, <5>1
        <5> QED
          BY <1>1, <3>2, <3>3, <5>2
      <4> QED
        BY <4>1, <4>2
    <3>6. k = p + m
      BY <1>1, <3>2, <3>3, <3>4, <3>5
    <3> QED
      BY <1>4, <1>6, <1>7, <1>10, <2>8, <3>6 DEF k, m
  <2> QED
    BY <2>7, <2>8
<1> QED
  BY <1>9, <1>10

\* The blocks that Chunker.Split hands out are a function of the file's bytes,
\* however many bytes each call of Read returned.
THEOREM SameChunksHolds == Spec => []SameChunks
<1>1. CInv => SameChunks
  <2> SUFFICES ASSUME CInv, NEW k \in 1 .. Len(chunks)
               PROVE  /\ chunks[k].offset = End(k - 1)
                      /\ chunks[k].offset + chunks[k].length
                           = BlockEnd(file, End(k - 1))
    BY DEF SameChunks, End
  <2>1. chunks[k].offset = End(k - 1) /\ chunks[k].length = Boundary(NextBytes(End(k - 1)))
    BY DEF CInv, SameCuts
  <2>2. End(k - 1) \in 0 .. Len(file)
    <3>1. chunks[k].offset \in Nat /\ chunks[k].length \in Nat
      <4>1. chunks[k] \in Chunk
        BY ElementOfSeq DEF CInv, TypeOK
      <4> QED
        BY <4>1 DEF Chunk
    <3>2. Len(file) \in Nat /\ k # 0
      BY FileIsSeq DEF CInv, TypeOK
    <3>3. chunks[k].offset + chunks[k].length <= Len(file)
      BY <3>2 DEF CInv, Tiled, End
    <3> QED
      BY <2>1, <3>1, <3>2, <3>3
  <2>3. NextBytes(End(k - 1)) = BytesFrom(file, End(k - 1))
    BY DEF NextBytes, BytesFrom
  <2>4. file \in File
    BY DEF CInv, TypeOK
  <2> QED
    BY <2>1, <2>2, <2>3, <2>4, BoundaryIsBlockEnd
<1> QED
  BY <1>1, SplitInvariance, PTL

\* What Chunker.Split makes of the bytes of data, when it gets to their end:
\* blocks one after the other, each as long as boundary says of the bytes that
\* follow, up to the last byte.
EndOf(cs, k) == IF k = 0 THEN 0 ELSE cs[k].offset + cs[k].length

IsSplitOf(cs, data) ==
  /\ cs \in Seq(Chunk)
  /\ \A k \in 1 .. Len(cs) :
       /\ cs[k].offset = EndOf(cs, k - 1)
       /\ cs[k].length = Boundary(BytesFrom(data, EndOf(cs, k - 1)))
  /\ EndOf(cs, Len(cs)) = Len(data)

LEMMA ChunkLength == \A x \in Chunk : x.length \in Nat /\ x.length >= 1
  BY DEF Chunk

LEMMA SplitFacts ==
  ASSUME NEW data \in File, NEW cs, IsSplitOf(cs, data)
  PROVE  /\ data \in Seq(Byte) /\ Len(data) \in Nat
         /\ cs \in Seq(Chunk) /\ Len(cs) \in Nat
         /\ \A k \in 0 .. Len(cs) : EndOf(cs, k) \in Nat
         /\ \A k \in 1 .. Len(cs) :
              /\ cs[k] \in Chunk /\ cs[k].length >= 1
              /\ cs[k].offset = EndOf(cs, k - 1)
              /\ cs[k].length = Boundary(BytesFrom(data, EndOf(cs, k - 1)))
              /\ EndOf(cs, k) = EndOf(cs, k - 1) + cs[k].length
<1>1. data \in Seq(Byte) /\ Len(data) \in Nat
  BY FileIsSeq
<1>2. cs \in Seq(Chunk) /\ Len(cs) \in Nat
  BY LenProperties DEF IsSplitOf
<1>3. \A k \in 1 .. Len(cs) : cs[k] \in Chunk
  BY <1>2, ElementOfSeq
<1>4. \A k \in 0 .. Len(cs) : EndOf(cs, k) \in Nat
  BY <1>2, <1>3 DEF EndOf, Chunk
<1>5. \A k \in 1 .. Len(cs) :
        /\ cs[k].length >= 1 /\ cs[k].offset = EndOf(cs, k - 1)
        /\ cs[k].length = Boundary(BytesFrom(data, EndOf(cs, k - 1)))
        /\ EndOf(cs, k) = EndOf(cs, k - 1) + cs[k].length
  BY <1>3 DEF IsSplitOf, EndOf, Chunk
<1> QED
  BY <1>1, <1>2, <1>3, <1>4, <1>5

\* No block follows the one that reaches the end.
LEMMA LastEnds ==
  ASSUME NEW data \in File, NEW cs, IsSplitOf(cs, data),
         NEW k \in 0 .. Len(cs), EndOf(cs, k) >= Len(data)
  PROVE  k = Len(cs)
<1> SUFFICES ASSUME k # Len(cs) PROVE FALSE
  OBVIOUS
<1>1. k + 1 \in 1 .. Len(cs) /\ (k + 1) - 1 = k
  BY SplitFacts
<1>2. cs[k + 1].length = Boundary(BytesFrom(data, EndOf(cs, k)))
      /\ cs[k + 1].length >= 1
  BY <1>1, SplitFacts
<1>3. EndOf(cs, k) \in Nat /\ Len(data) \in Nat
  BY SplitFacts
<1>4. ~(EndOf(cs, k) + MaxSize <= Len(data))
  BY <1>3, ConfigAssumption
<1>5. BytesFrom(data, EndOf(cs, k)) = <<>>
  <2>1. BytesFrom(data, EndOf(cs, k)) = SubSeq(data, EndOf(cs, k) + 1, Len(data))
    BY <1>4 DEF BytesFrom
  <2> QED
    BY <1>3, <2>1, SubSeqEmpty
<1>6. Boundary(<<>>) = 0
  BY DEF Boundary
<1> QED
  BY <1>2, <1>5, <1>6

LEMMA EndsWithin ==
  ASSUME NEW data \in File, NEW cs, IsSplitOf(cs, data), NEW k \in 0 .. Len(cs)
  PROVE  EndOf(cs, k) \in 0 .. Len(data)
<1>1. EndOf(cs, k) \in Nat /\ Len(data) \in Nat
  BY SplitFacts
<1>2. CASE EndOf(cs, k) >= Len(data)
  <2>1. EndOf(cs, k) = Len(data)
    BY <1>2, LastEnds DEF IsSplitOf
  <2> QED
    BY <1>1, <2>1
<1>3. CASE ~(EndOf(cs, k) >= Len(data))
  BY <1>1, <1>3
<1> QED
  BY <1>2, <1>3

\* What boundary is given depends on what follows in the file, not on where in
\* the file that is.
LEMMA SameRest ==
  ASSUME NEW f \in File, NEW g \in File, NEW p \in 0 .. Len(f), NEW q \in 0 .. Len(g),
         SubSeq(f, p + 1, Len(f)) = SubSeq(g, q + 1, Len(g)),
         NEW i \in 0 .. Len(f) - p
  PROVE  /\ Len(f) - p = Len(g) - q
         /\ BytesFrom(f, p + i) = BytesFrom(g, q + i)
<1>1. f \in Seq(Byte) /\ Len(f) \in Nat /\ g \in Seq(Byte) /\ Len(g) \in Nat
  BY FileIsSeq
<1> DEFINE r == Len(f) - p
           s == Len(g) - q
<1>2. /\ p \in Nat /\ q \in Nat /\ r \in Nat /\ s \in Nat /\ i \in 0 .. r
      /\ p + r = Len(f) /\ q + s = Len(g)
  BY <1>1
<1> HIDE DEF r, s
<1>3. /\ Len(SubSeq(f, p + 1, p + r)) = r
      /\ \A j \in 1 .. r : SubSeq(f, p + 1, p + r)[j] = f[p + j]
  BY <1>1, <1>2, SliceFacts
<1>4. /\ Len(SubSeq(g, q + 1, q + s)) = s
      /\ \A j \in 1 .. s : SubSeq(g, q + 1, q + s)[j] = g[q + j]
  BY <1>1, <1>2, SliceFacts
<1>5. r = s /\ \A j \in 1 .. r : f[p + j] = g[q + j]
  BY <1>2, <1>3, <1>4
<1> DEFINE w == IF MaxSize <= r - i THEN MaxSize ELSE r - i
<1>6. /\ w \in Nat /\ i + w <= r
      /\ p + i \in Nat /\ (p + i) + w <= Len(f)
      /\ q + i \in Nat /\ (q + i) + w <= Len(g)
  BY <1>2, <1>5
<1>7. /\ BytesFrom(f, p + i) = SubSeq(f, (p + i) + 1, (p + i) + w)
      /\ BytesFrom(g, q + i) = SubSeq(g, (q + i) + 1, (q + i) + w)
  <2>1. /\ (IF (p + i) + MaxSize <= Len(f) THEN (p + i) + MaxSize ELSE Len(f))
             = (p + i) + w
        /\ (IF (q + i) + MaxSize <= Len(g) THEN (q + i) + MaxSize ELSE Len(g))
             = (q + i) + w
    <3>1. PICK x \in Nat : x = p + i
      BY <1>6
    <3>2. PICK y \in Nat : y = q + i
      BY <1>6
    <3>3. x + (r - i) = Len(f) /\ y + (r - i) = Len(g) /\ r - i \in Nat
      <4>1. i \in Nat /\ r \in Nat /\ i <= r /\ p \in Nat /\ q \in Nat
        BY <1>2
      <4>2. (p + i) + (r - i) = p + r /\ (q + i) + (r - i) = q + r /\ r - i \in Nat
        BY <4>1
      <4> QED
        BY ONLY <1>2, <1>5, <3>1, <3>2, <4>2
    <3> QED
      <4>1. MaxSize \in Nat
        BY ONLY ConfigAssumption
      <4>2. PICK z \in Nat : z = r - i
        BY ONLY <3>3
      <4>3. /\ (IF x + MaxSize <= Len(f) THEN x + MaxSize ELSE Len(f))
                  = x + (IF MaxSize <= z THEN MaxSize ELSE z)
            /\ (IF y + MaxSize <= Len(g) THEN y + MaxSize ELSE Len(g))
                  = y + (IF MaxSize <= z THEN MaxSize ELSE z)
        <5>1. x + z = Len(f) /\ y + z = Len(g)
          BY ONLY <3>3, <4>2, Zenon
        <5>2. PICK k \in Nat, l \in Nat : k = Len(f) /\ l = Len(g)
          BY ONLY <1>1
        <5>3. CASE MaxSize <= z
          <6>1. x + MaxSize <= k /\ y + MaxSize <= l
            BY ONLY <4>1, <5>1, <5>2, <5>3, x \in Nat, y \in Nat, z \in Nat
          <6> QED
            BY ONLY <5>2, <5>3, <6>1, Zenon
        <5>4. CASE ~(MaxSize <= z)
          <6>1. ~(x + MaxSize <= k) /\ ~(y + MaxSize <= l)
            BY ONLY <4>1, <5>1, <5>2, <5>4, x \in Nat, y \in Nat, z \in Nat
          <6> QED
            BY ONLY <5>1, <5>2, <5>4, <6>1, Zenon
        <5> QED
          BY ONLY <5>3, <5>4
      <4> QED
        BY ONLY <3>1, <3>2, <4>2, <4>3, Zenon
  <2> HIDE DEF w
  <2> QED
    BY <2>1 DEF BytesFrom
<1> HIDE DEF w
<1> DEFINE x == SubSeq(f, (p + i) + 1, (p + i) + w)
           y == SubSeq(g, (q + i) + 1, (q + i) + w)
<1>8. x \in Seq(Byte) /\ Len(x) = w /\ \A j \in 1 .. w : x[j] = f[(p + i) + j]
  BY <1>1, <1>6, SliceFacts
<1>9. y \in Seq(Byte) /\ Len(y) = w /\ \A j \in 1 .. w : y[j] = g[(q + i) + j]
  BY <1>1, <1>6, SliceFacts
<1> HIDE DEF x, y
<1>10. \A j \in 1 .. w : x[j] = y[j]
  <2> TAKE j \in 1 .. w
  <2>1. i + j \in 1 .. r /\ (p + i) + j = p + (i + j) /\ (q + i) + j = q + (i + j)
    BY <1>2, <1>6
  <2>2. f[p + (i + j)] = g[q + (i + j)]
    BY <1>5, <2>1
  <2> QED
    BY <1>8, <1>9, <2>1, <2>2
<1>11. x = y
  BY <1>8, <1>9, <1>10, SeqEqual
<1> QED
  BY <1>5, <1>7, <1>11 DEF x, y, r, s

\* After m blocks of f and n blocks of g the two files are the same.
AlikeAfter(f, c, m, g, d, n) ==
  /\ IsSplitOf(c, f) /\ m \in 0 .. Len(c)
  /\ IsSplitOf(d, g) /\ n \in 0 .. Len(d)
  /\ SubSeq(f, EndOf(c, m) + 1, Len(f)) = SubSeq(g, EndOf(d, n) + 1, Len(g))

\* From two block boundaries on after which two files are the same, the next
\* blocks end at the same distances, as far as both go.
LEMMA EndsAgree ==
  ASSUME NEW f \in File, NEW g \in File, NEW c, NEW d,
         NEW m, NEW n, AlikeAfter(f, c, m, g, d, n)
  PROVE  \A i \in Nat : m + i <= Len(c) /\ n + i <= Len(d) =>
           /\ EndOf(c, m + i) - EndOf(c, m) = EndOf(d, n + i) - EndOf(d, n)
           /\ EndOf(c, m + i) >= EndOf(c, m)
<1>0. /\ IsSplitOf(c, f) /\ m \in 0 .. Len(c)
      /\ IsSplitOf(d, g) /\ n \in 0 .. Len(d)
      /\ SubSeq(f, EndOf(c, m) + 1, Len(f)) = SubSeq(g, EndOf(d, n) + 1, Len(g))
  BY DEF AlikeAfter
<1> USE <1>0
<1> DEFINE Same(i) ==
             /\ EndOf(c, m + i) - EndOf(c, m) = EndOf(d, n + i) - EndOf(d, n)
             /\ EndOf(c, m + i) >= EndOf(c, m)
           S == {i \in Nat : m + i <= Len(c) /\ n + i <= Len(d) /\ ~Same(i)}
<1> SUFFICES ASSUME S # {} PROVE FALSE
  OBVIOUS
<1>1. PICK i \in S : \A j \in S : i <= j
  <2>1. S \in SUBSET Nat
    OBVIOUS
  <2> HIDE DEF S
  <2> QED
    BY <2>1, LeastNumber
<1>2. /\ Len(c) \in Nat /\ Len(d) \in Nat /\ Len(f) \in Nat /\ Len(g) \in Nat
      /\ m \in Nat /\ n \in Nat
  BY SplitFacts
<1>3. EndOf(c, m) \in Nat /\ EndOf(d, n) \in Nat
  BY <1>2, SplitFacts
<1>4. i # 0
  <2>1. Same(0)
    <3>1. m + 0 = m /\ n + 0 = n
      BY <1>2
    <3>2. EndOf(c, m + 0) = EndOf(c, m) /\ EndOf(d, n + 0) = EndOf(d, n)
      BY ONLY <3>1
    <3> QED
      BY ONLY <1>3, <3>2
  <2>2. ~Same(i)
    BY DEF S
  <2> QED
    BY ONLY <2>1, <2>2
<1>5. /\ i \in Nat /\ i - 1 \in Nat
      /\ m + i \in 1 .. Len(c) /\ (m + i) - 1 = m + (i - 1)
      /\ n + i \in 1 .. Len(d) /\ (n + i) - 1 = n + (i - 1)
      /\ m + (i - 1) \in 0 .. Len(c) /\ n + (i - 1) \in 0 .. Len(d)
  BY <1>1, <1>2, <1>4
<1> DEFINE e == EndOf(c, m + (i - 1)) - EndOf(c, m)
<1>6. e = EndOf(d, n + (i - 1)) - EndOf(d, n) /\ EndOf(c, m + (i - 1)) >= EndOf(c, m)
  <2>1. ~(i <= i - 1) /\ m + (i - 1) <= Len(c) /\ n + (i - 1) <= Len(d)
    BY <1>2, <1>5
  <2> QED
    BY <1>1, <1>5, <2>1
<1>7. EndOf(c, m + (i - 1)) \in Nat /\ EndOf(d, n + (i - 1)) \in Nat
  BY <1>5, SplitFacts
<1>8. EndOf(c, m + (i - 1)) < Len(f)
  <2>1. m + (i - 1) # Len(c)
    BY <1>2, <1>5
  <2>2. ~(EndOf(c, m + (i - 1)) >= Len(f))
    BY <1>5, <2>1, LastEnds
  <2> QED
    BY <1>2, <1>7, <2>2
<1>9. /\ e \in 0 .. Len(f) - EndOf(c, m)
       /\ EndOf(c, m) + e = EndOf(c, (m + i) - 1)
       /\ EndOf(d, n) + e = EndOf(d, (n + i) - 1)
  <2>1. /\ EndOf(c, (m + i) - 1) = EndOf(c, m + (i - 1))
        /\ EndOf(d, (n + i) - 1) = EndOf(d, n + (i - 1))
    BY <1>5
  <2>2. PICK a \in Nat : a = EndOf(c, m)
    BY <1>3
  <2>3. PICK b \in Nat : b = EndOf(d, n)
    BY <1>3
  <2>4. PICK x \in Nat : x = EndOf(c, m + (i - 1))
    BY <1>7
  <2>5. PICK y \in Nat : y = EndOf(d, n + (i - 1))
    BY <1>7
  <2>6. e = x - a /\ e = y - b /\ x >= a /\ x < Len(f)
    BY <1>6, <1>8, <2>2, <2>3, <2>4, <2>5
  <2> HIDE DEF e
  <2>7. e \in 0 .. Len(f) - a /\ a + e = x /\ b + e = y
    BY <1>2, <2>6
  <2> QED
    BY <2>1, <2>2, <2>3, <2>4, <2>5, <2>7
<1> HIDE DEF e
<1>10. BytesFrom(f, EndOf(c, m) + e) = BytesFrom(g, EndOf(d, n) + e)
  <2>1. EndOf(c, m) \in 0 .. Len(f) /\ EndOf(d, n) \in 0 .. Len(g)
    BY EndsWithin
  <2> QED
    BY <1>9, <2>1, SameRest
<1>11. /\ c[m + i].length = Boundary(BytesFrom(f, EndOf(c, m) + e))
       /\ EndOf(c, m + i) = EndOf(c, m) + e + c[m + i].length
  <2>1. /\ c[m + i].length = Boundary(BytesFrom(f, EndOf(c, (m + i) - 1)))
        /\ EndOf(c, m + i) = EndOf(c, (m + i) - 1) + c[m + i].length
    <3>1. \A k \in 1 .. Len(c) :
            /\ c[k].length = Boundary(BytesFrom(f, EndOf(c, k - 1)))
            /\ EndOf(c, k) = EndOf(c, k - 1) + c[k].length
      BY SplitFacts, Zenon
    <3> QED
      BY ONLY <1>5, <3>1, Zenon
  <2> QED
    BY ONLY <1>9, <2>1
<1>12. /\ d[n + i].length = Boundary(BytesFrom(g, EndOf(d, n) + e))
       /\ EndOf(d, n + i) = EndOf(d, n) + e + d[n + i].length
  <2>1. /\ d[n + i].length = Boundary(BytesFrom(g, EndOf(d, (n + i) - 1)))
        /\ EndOf(d, n + i) = EndOf(d, (n + i) - 1) + d[n + i].length
    <3>1. \A k \in 1 .. Len(d) :
            /\ d[k].length = Boundary(BytesFrom(g, EndOf(d, k - 1)))
            /\ EndOf(d, k) = EndOf(d, k - 1) + d[k].length
      BY SplitFacts, Zenon
    <3> QED
      BY ONLY <1>5, <3>1, Zenon
  <2> QED
    BY ONLY <1>9, <2>1
<1>13. c[m + i].length \in Nat /\ d[n + i].length \in Nat
  <2>1. c[m + i] \in Chunk /\ d[n + i] \in Chunk
    BY <1>5, SplitFacts
  <2> QED
    BY <2>1, ChunkLength
<1>14. e \in Nat
  BY <1>2, <1>3, <1>9
<1>15. Same(i)
  <2>1. PICK a \in Nat : a = EndOf(c, m)
    BY <1>3
  <2>2. PICK b \in Nat : b = EndOf(d, n)
    BY <1>3
  <2>3. PICK l \in Nat : l = c[m + i].length
    BY <1>13
  <2>4. d[n + i].length = l
    BY <1>10, <1>11, <1>12, <2>3
  <2>5. EndOf(c, m + i) = a + e + l /\ EndOf(d, n + i) = b + e + l
    BY <1>11, <1>12, <2>1, <2>2, <2>3, <2>4
  <2>6. (a + e + l) - a = (b + e + l) - b /\ a + e + l >= a
    BY <1>14
  <2> QED
    BY <2>1, <2>2, <2>5, <2>6
<1> QED
  BY <1>1, <1>15

\* Neither of two such splits goes on where the other has come to the end.
LEMMA NoneLonger ==
  ASSUME NEW f \in File, NEW g \in File, NEW c, NEW d,
         NEW m, NEW n, AlikeAfter(f, c, m, g, d, n)
  PROVE  Len(d) - n <= Len(c) - m
<1>0. /\ IsSplitOf(c, f) /\ m \in 0 .. Len(c)
      /\ IsSplitOf(d, g) /\ n \in 0 .. Len(d)
      /\ SubSeq(f, EndOf(c, m) + 1, Len(f)) = SubSeq(g, EndOf(d, n) + 1, Len(g))
  BY DEF AlikeAfter
<1> USE <1>0
<1> DEFINE r == Len(c) - m
<1>1. Len(c) \in Nat /\ Len(d) \in Nat /\ m \in Nat /\ n \in Nat
  BY SplitFacts
<1> SUFFICES ASSUME r < Len(d) - n PROVE FALSE
  BY <1>1
<1>2. r \in Nat /\ m + r = Len(c) /\ n + r \in 0 .. Len(d) /\ n + r # Len(d)
  BY <1>1
<1> HIDE DEF r
<1>3. EndOf(c, Len(c)) - EndOf(c, m) = EndOf(d, n + r) - EndOf(d, n)
  <2>1. \A i \in Nat : m + i <= Len(c) /\ n + i <= Len(d) =>
          /\ EndOf(c, m + i) - EndOf(c, m) = EndOf(d, n + i) - EndOf(d, n)
          /\ EndOf(c, m + i) >= EndOf(c, m)
    BY EndsAgree, Zenon
  <2>2. m + r <= Len(c) /\ n + r <= Len(d)
    BY <1>1, <1>2
  <2>3. EndOf(c, m + r) - EndOf(c, m) = EndOf(d, n + r) - EndOf(d, n)
    BY <1>2, <2>1, <2>2
  <2> QED
    BY <1>2, <2>3
<1>4. Len(f) - EndOf(c, m) = Len(g) - EndOf(d, n)
  <2>1. EndOf(c, m) \in 0 .. Len(f) /\ EndOf(d, n) \in 0 .. Len(g)
    BY EndsWithin
  <2>2. 0 \in 0 .. Len(f) - EndOf(c, m)
    BY <2>1, SplitFacts
  <2>3. SubSeq(f, EndOf(c, m) + 1, Len(f)) = SubSeq(g, EndOf(d, n) + 1, Len(g))
    BY <1>0
  <2>4. \A i \in 0 .. Len(f) - EndOf(c, m) :
          Len(f) - EndOf(c, m) = Len(g) - EndOf(d, n)
    BY ONLY <2>1, <2>3, f \in File, g \in File, SameRest, Zenon
  <2> QED
    BY ONLY <2>2, <2>4, Zenon
<1>5. EndOf(c, Len(c)) = Len(f)
  BY DEF IsSplitOf
<1>6. /\ EndOf(c, m) \in Nat /\ EndOf(d, n) \in Nat /\ EndOf(d, n + r) \in Nat
      /\ Len(f) \in Nat /\ Len(g) \in Nat
  BY <1>2, SplitFacts
<1>7. EndOf(d, n + r) >= Len(g)
  BY <1>3, <1>4, <1>5, <1>6
<1> QED
  BY <1>2, <1>7, LastEnds

\* The blocks are content-defined, as the package's comment says: where two files
\* are the same from some block boundary of each to the end, wherever these lie,
\* the blocks from there on are the same.  A change in a file leaves the blocks after the next boundary that
\* old and new file have in common as they were, and they need not be sent.
THEOREM CutsResume ==
  ASSUME NEW f \in File, NEW g \in File, NEW c, NEW d,
         NEW m, NEW n, AlikeAfter(f, c, m, g, d, n)
  PROVE  /\ Len(c) - m = Len(d) - n
         /\ \A i \in 1 .. Len(c) - m :
              /\ c[m + i].length = d[n + i].length
              /\ c[m + i].offset - EndOf(c, m) = d[n + i].offset - EndOf(d, n)
<1>0. /\ IsSplitOf(c, f) /\ m \in 0 .. Len(c)
      /\ IsSplitOf(d, g) /\ n \in 0 .. Len(d)
      /\ SubSeq(f, EndOf(c, m) + 1, Len(f)) = SubSeq(g, EndOf(d, n) + 1, Len(g))
  BY DEF AlikeAfter
<1> USE <1>0
<1>1. Len(c) \in Nat /\ Len(d) \in Nat /\ m \in Nat /\ n \in Nat
  BY SplitFacts
<1>2. Len(c) - m = Len(d) - n
  <2>1. Len(d) - n <= Len(c) - m
    BY NoneLonger
  <2>2. Len(c) - m <= Len(d) - n
    <3>1. AlikeAfter(g, d, n, f, c, m)
      BY DEF AlikeAfter
    <3> QED
      BY <3>1, NoneLonger
  <2> QED
    BY <1>1, <2>1, <2>2
<1>3. ASSUME NEW i \in 1 .. Len(c) - m
      PROVE  /\ c[m + i].length = d[n + i].length
             /\ c[m + i].offset - EndOf(c, m) = d[n + i].offset - EndOf(d, n)
  <2>1. /\ i \in Nat /\ i - 1 \in Nat
        /\ m + i \in 1 .. Len(c) /\ (m + i) - 1 = m + (i - 1)
        /\ n + i \in 1 .. Len(d) /\ (n + i) - 1 = n + (i - 1)
        /\ m + (i - 1) \in 0 .. Len(c) /\ n + (i - 1) \in 0 .. Len(d)
    BY <1>1, <1>2
  <2>2. /\ EndOf(c, m + i) - EndOf(c, m) = EndOf(d, n + i) - EndOf(d, n)
        /\ EndOf(c, m + (i - 1)) - EndOf(c, m) = EndOf(d, n + (i - 1)) - EndOf(d, n)
    <3>1. \A j \in Nat : m + j <= Len(c) /\ n + j <= Len(d) =>
            /\ EndOf(c, m + j) - EndOf(c, m) = EndOf(d, n + j) - EndOf(d, n)
            /\ EndOf(c, m + j) >= EndOf(c, m)
      BY EndsAgree, Zenon
    <3>2. /\ m + i <= Len(c) /\ n + i <= Len(d)
          /\ m + (i - 1) <= Len(c) /\ n + (i - 1) <= Len(d)
      BY <1>1, <2>1
    <3> QED
      BY <2>1, <3>1, <3>2
  <2>3. /\ c[m + i].offset = EndOf(c, m + (i - 1))
        /\ EndOf(c, m + i) = EndOf(c, m + (i - 1)) + c[m + i].length
        /\ c[m + i] \in Chunk
    BY <2>1, SplitFacts
  <2>4. /\ d[n + i].offset = EndOf(d, n + (i - 1))
        /\ EndOf(d, n + i) = EndOf(d, n + (i - 1)) + d[n + i].length
        /\ d[n + i] \in Chunk
    BY <2>1, SplitFacts
  <2>5. c[m + i].length \in Nat /\ d[n + i].length \in Nat
    BY <2>3, <2>4, ChunkLength
  <2>6. /\ EndOf(c, m) \in Nat /\ EndOf(c, m + (i - 1)) \in Nat
        /\ EndOf(d, n) \in Nat /\ EndOf(d, n + (i - 1)) \in Nat
    BY <2>1, SplitFacts
  <2>7. PICK a \in Nat : a = EndOf(c, m)
    BY <2>6
  <2>8. PICK b \in Nat : b = EndOf(d, n)
    BY <2>6
  <2>9. PICK x \in Nat : x = EndOf(c, m + (i - 1))
    BY <2>6
  <2>10. PICK y \in Nat : y = EndOf(d, n + (i - 1))
    BY <2>6
  <2>11. PICK k \in Nat : k = c[m + i].length
    BY <2>5
  <2>12. PICK l \in Nat : l = d[n + i].length
    BY <2>5
  <2>13. x - a = y - b /\ (x + k) - a = (y + l) - b
    BY <2>2, <2>3, <2>4, <2>7, <2>8, <2>9, <2>10, <2>11, <2>12
  <2>14. k = l
    BY <2>13
  <2> QED
    BY <2>3, <2>4, <2>7, <2>8, <2>9, <2>10, <2>11, <2>12, <2>13, <2>14
<1> QED
  BY <1>2, <1>3

\* And they are deterministic: equal bytes have one split.  Whichever two devices
\* split a file, and however many bytes each call of Read gave either, they
\* advertise the same blocks.
THEOREM OneSplit ==
  ASSUME NEW data \in File, NEW c, NEW d,
         IsSplitOf(c, data), IsSplitOf(d, data)
  PROVE  c = d
<1>1. /\ c \in Seq(Chunk) /\ Len(c) \in Nat
      /\ d \in Seq(Chunk) /\ Len(d) \in Nat
  BY SplitFacts
<1>2. 0 \in 0 .. Len(c) /\ 0 \in 0 .. Len(d) /\ EndOf(c, 0) = 0 /\ EndOf(d, 0) = 0
  BY <1>1 DEF EndOf
<1>3. /\ Len(c) - 0 = Len(d) - 0
      /\ \A i \in 1 .. Len(c) - 0 : /\ c[0 + i].length = d[0 + i].length
                                     /\ c[0 + i].offset - 0 = d[0 + i].offset - 0
  <2>1. PICK m, n : m = 0 /\ n = 0
    OBVIOUS
  <2>2. AlikeAfter(data, c, m, data, d, n)
    BY <1>2, <2>1 DEF AlikeAfter
  <2>3. Len(c) - m = Len(d) - n
    BY <2>2, CutsResume
  <2>4. \A i \in 1 .. Len(c) - m : c[m + i].length = d[n + i].length
    BY <2>2, CutsResume
  <2>5. \A i \in 1 .. Len(c) - m :
          c[m + i].offset - EndOf(c, m) = d[n + i].offset - EndOf(d, n)
    BY <2>2, CutsResume
  <2> QED
    BY <1>2, <2>1, <2>3, <2>4, <2>5
<1>4. Len(c) = Len(d)
  BY <1>1, <1>3
<1>5. \A i \in 1 .. Len(c) : c[i] = d[i]
  <2> TAKE i \in 1 .. Len(c)
  <2>1. c[i] \in Chunk /\ d[i] \in Chunk
    BY <1>4, SplitFacts
  <2>2. i \in 1 .. Len(c) - 0 /\ 0 + i = i
    BY <1>1
  <2>3. c[i].length = d[i].length /\ c[i].offset - 0 = d[i].offset - 0
    BY <1>3, <2>2
  <2>4. c[i].offset = d[i].offset
    BY <2>1, <2>3 DEF Chunk
  <2> QED
    BY <2>1, <2>3, <2>4 DEF Chunk
<1> QED
  BY <1>1, <1>4, <1>5, SeqEqual

\* What Chunker.Split has handed out when it returns without an error is that
\* split of the file.
THEOREM SplitsTheFile == Spec => [](pc = "done" => IsSplitOf(chunks, file))
<1>1. CInv => (pc = "done" => IsSplitOf(chunks, file))
  BY DEF CInv, TypeOK, SameCuts, Covered, IsSplitOf, End, EndOf, NextBytes,
         BytesFrom
<1> QED
  BY <1>1, SplitInvariance, PTL

LEMMA XStepSplits == ASSUME [XNext]_xvars PROVE [Next]_vars
  BY DEF XNext, xvars, Split, Answer, Serve, Close, Pull, TakeIndex, Ask,
         Receive, EndOfStream, Put, Finish, PeerEdits, OwnEdits, Breaks,
         StopsServing

\* A pull does not disturb the splitting: what the peer does to its file before
\* it advertises it is a run of Chunker.
LEMMA PullSplits == XSpec => Spec
<1>1. XInit => Init
  BY DEF XInit
<1>2. [XNext]_xvars => [Next]_vars
  BY XStepSplits
<1> QED
  BY <1>1, <1>2, PTL DEF XSpec, Spec

\* The state has its type however the file is cut, edited and sent; nothing is
\* received that was not asked for (requestBlocks, serveBlocks).
THEOREM XTypeCorrect == XSpec => []XTypeOK
<1>1. XInv => XTypeOK
  BY DEF XInv
<1> QED
  BY <1>1, XInvariance, PTL

LEMMA CompleteIsFile == ASSUME XInv, CInv PROVE OnlyAdvertised
<1>1. file \in Seq(Byte) /\ Len(file) \in Nat
  BY FileIsSeq DEF XInv, XTypeOK, TypeOK
<1>2. End(placed) \in 0 .. Len(file)
  <2>1. CASE placed = 0
    BY <1>1, <2>1 DEF End
  <2>2. CASE placed # 0
    <3>1. placed \in 1 .. Len(blocks)
      BY <2>2 DEF XInv, XTypeOK
    <3>2. /\ blocks[placed].offset \in Nat /\ blocks[placed].length \in Nat
          /\ blocks[placed].offset + blocks[placed].length = End(placed)
          /\ End(placed) <= Len(file)
      BY <3>1, BlockFacts
    <3> QED
      BY <1>1, <3>2
  <2> QED
    BY <2>1, <2>2
<1>3. PICK e \in 0 .. Len(file) : e = End(placed)
  BY <1>2
<1>4. Len(SubSeq(file, 1, e)) = e
  BY <1>1, <1>3, SubSeqProperties
<1>5. out = SubSeq(file, 1, Len(out))
  BY <1>3, <1>4 DEF XInv, Written
<1>6. ASSUME stage = "assemble", placed = Len(blocks) PROVE out = file
  <2>1. blocks = Advertised /\ pc = "done"
    BY <1>6 DEF XInv, Indexed
  <2>2. Len(blocks) = Len(chunks)
    <3>1. DOMAIN Advertised = 1 .. Len(chunks) /\ Len(chunks) \in Nat
      BY DEF Advertised, XInv, XTypeOK, TypeOK
    <3> QED
      BY <2>1, <3>1, LenProperties DEF Advertised
  <2>3. End(placed) = Len(file)
    BY <1>6, <2>1, <2>2 DEF CInv, Covered
  <2>4. out = SubSeq(file, 1, Len(file))
    BY <2>3 DEF XInv, Written
  <2> QED
    BY <1>1, <2>4, SubSeqFull
<1> QED
  BY <1>5, <1>6 DEF OnlyAdvertised

\* Whatever pullFile writes to the temporary file is the beginning of the
\* advertised file, whoever edits what meanwhile; and all of it once every
\* block is in its place, so that the whole-file hash is never wrong.
THEOREM OnlyAdvertisedHolds == XSpec => []OnlyAdvertised
<1>1. XInv /\ CInv => OnlyAdvertised
  BY CompleteIsFile
<1> QED
  BY <1>1, XInvariance, SplitInvariance, PullSplits, PTL

-----------------------------------------------------------------------------
(* A pull that nobody disturbs *)

Hashes(ks) == {blocks[k].hash : k \in ks}
Sent(frames) == {frames[i].hash : i \in 1 .. Len(frames)}

\* What has been served is on the way or has come, under its own hash; and all
\* that was asked for has come when the file is put together.
Calm ==
  trouble = 0 =>
    /\ stage # "failed"
    /\ stage # "start" => live = file /\ localBlocks = BlockIndex(own)
    /\ stage \in {"start", "ask", "nothing"} => ~closed
    /\ stage \in {"receive", "assemble"} =>
         need = {k \in DOMAIN blocks : blocks[k].hash \notin DOMAIN localBlocks}
    /\ \A i \in 1 .. Len(stream) : stream[i].data = stream[i].hash
    /\ \A h \in DOMAIN got : got[h] = h
    /\ stage = "receive" =>
         /\ Hashes(served) = Sent(stream) \cup DOMAIN got
         /\ closed => served = need
    /\ stage = "assemble" => DOMAIN got = Hashes(need)

UInv == XInv /\ CInv /\ Calm

\* A pull fails for an edit or a failure only.
UndisturbedNeverFails == trouble = 0 => stage # "failed"

\* A block ends in its file, at the earliest where it begins.
LEMMA BlockEndRange ==
  ASSUME NEW data \in File, NEW p \in 0 .. Len(data)
  PROVE  BlockEnd(data, p) \in p .. Len(data)
<1>1. data \in Seq(Byte) /\ Len(data) \in Nat /\ p \in Nat
  BY FileIsSeq
<1> DEFINE n == (IF p + MaxSize <= Len(data) THEN p + MaxSize ELSE Len(data)) - p
           d == SubSeq(data, p + 1, p + n)
<1>2. /\ n \in Nat /\ p + n <= Len(data)
      /\ p + n = IF p + MaxSize <= Len(data) THEN p + MaxSize ELSE Len(data)
  BY <1>1
<1> HIDE DEF n
<1>3. BytesFrom(data, p) = d
  BY <1>2 DEF BytesFrom
<1>4. d \in Seq(Byte) /\ Len(d) = n
  BY <1>1, <1>2, SliceFacts
<1> HIDE DEF d
<1>5. Boundary(d) \in 0 .. n
  <2>1. CASE d = <<>>
    BY <1>2, <1>4, <2>1 DEF Boundary
  <2>2. CASE d # <<>>
    BY <1>2, <1>4, <2>2, BoundaryFacts
  <2> QED
    BY <2>1, <2>2
<1>6. BlockEnd(data, p) = p + Boundary(d)
  BY <1>3, BoundaryIsBlockEnd
<1> QED
  BY <1>1, <1>2, <1>5, <1>6

\* The blocks of a file begin in it.
LEMMA StartsRange ==
  ASSUME NEW data \in File
  PROVE  Starts(data) \subseteq 0 .. Len(data)
<1> DEFINE n == Len(data)
           S == 0 .. n
           F == [ix \in (1 .. n) \X S |-> BlockEnd(data, ix[2])]
           Def(w) == w = [k \in 0 .. Len(data) |->
                            IF k = 0 THEN 0 ELSE BlockEnd(data, w[k - 1])]
           nth == CHOOSE w : Def(w)
<1>1. n \in Nat /\ 0 \in S
  BY FileIsSeq
<1>2. \A x \in S : BlockEnd(data, x) \in S
  <2> TAKE x \in S
  <2>1. BlockEnd(data, x) \in x .. Len(data)
    BY BlockEndRange
  <2> QED
    BY <1>1, <2>1
<1>3. F \in Rule(n, S)
  BY <1>2 DEF Rule
<1>4. \A i \in 1 .. n, x \in S : F[<<i, x>>] = BlockEnd(data, x)
  OBVIOUS
<1> HIDE DEF F
<1>5. PICK w : Follows(w, S, 0, n, F)
  BY <1>1, <1>3, Recursion
<1>6. Def(w)
  <2>1. \A k \in 0 .. n : w[k] = IF k = 0 THEN 0 ELSE BlockEnd(data, w[k - 1])
    <3> TAKE k \in 0 .. n
    <3>1. k # 0 => k \in 1 .. n /\ w[k - 1] \in S
      BY <1>1, <1>5 DEF Follows
    <3> QED
      BY <1>4, <1>5, <3>1 DEF Follows
  <2>2. w = [k \in 0 .. n |-> w[k]]
    BY <1>5 DEF Follows
  <2> QED
    BY <2>1, <2>2
<1>7. Starts(data) = {nth[k] : k \in DOMAIN nth} \ {Len(data)}
  BY DEF Starts
<1>8. Def(nth)
  BY <1>6
<1> HIDE DEF nth
<1>9. /\ DOMAIN nth = 0 .. n
      /\ \A k \in 0 .. n : nth[k] = IF k = 0 THEN 0 ELSE BlockEnd(data, nth[k - 1])
  <2>1. PICK u : u = nth /\ Def(u)
    BY <1>8
  <2>2. /\ DOMAIN u = 0 .. n
        /\ \A k \in 0 .. n : u[k] = IF k = 0 THEN 0 ELSE BlockEnd(data, u[k - 1])
    BY <2>1
  <2> QED
    BY <2>1, <2>2
<1> HIDE DEF Def
<1> DEFINE Bad == {k \in 0 .. n : nth[k] \notin S}
<1>10. Bad = {}
  <2> SUFFICES ASSUME Bad # {} PROVE FALSE
    OBVIOUS
  <2>1. Bad \in SUBSET Nat
    OBVIOUS
  <2> HIDE DEF Bad
  <2>2. PICK k \in Bad : \A l \in Bad : k <= l
    BY <2>1, LeastNumber
  <2> USE DEF Bad
  <2>3. k # 0
    BY <1>1, <1>9, <2>2
  <2>4. k - 1 \in 0 .. n /\ ~(k <= k - 1)
    BY <1>1, <2>2, <2>3
  <2>5. nth[k - 1] \in S
    BY <2>2, <2>4
  <2>6. nth[k] = BlockEnd(data, nth[k - 1])
    BY <1>9, <2>2, <2>3
  <2> QED
    BY <1>2, <2>2, <2>5, <2>6
<1> QED
  BY <1>7, <1>9, <1>10

\* Where buildBlockIndex says that a block of the file is, it is.
LEMMA LocalIsThere ==
  ASSUME NEW data \in File, NEW h \in DOMAIN BlockIndex(data)
  PROVE  LET p == BlockIndex(data)[h]
         IN  Holds(data, p, Len(h)) /\ Slice(data, p, Len(h)) = h
<1> DEFINE hash == [p \in Starts(data) |-> Slice(data, p, BlockEnd(data, p) - p)]
           at == {p \in DOMAIN hash : hash[p] = h}
           first == Min(at)
<1>1. h \in Range(hash) /\ BlockIndex(data)[h] = first
  BY DEF BlockIndex
<1>2. at \in SUBSET Nat /\ at # {}
  BY <1>1, StartsRange DEF Range
<1>3. first \in at
  <2> HIDE DEF at
  <2> QED
    BY <1>2, LeastNumber
<1>4. /\ first \in Starts(data) /\ first \in 0 .. Len(data)
      /\ Slice(data, first, BlockEnd(data, first) - first) = h
  BY <1>3, StartsRange
<1> HIDE DEF first
<1>5. data \in Seq(Byte) /\ Len(data) \in Nat
  BY FileIsSeq
<1>6. PICK n \in Nat : n = BlockEnd(data, first) - first /\ first + n <= Len(data)
  <2>1. BlockEnd(data, first) \in first .. Len(data)
    BY <1>4, BlockEndRange
  <2>2. PICK e \in first .. Len(data) : e = BlockEnd(data, first)
    BY <2>1
  <2> QED
    BY <1>4, <1>5, <2>2
<1>7. Len(h) = n
  <2>1. Len(SubSeq(data, first + 1, first + n)) = n
    <3>1. first \in Nat
      BY ONLY <1>4, <1>5
    <3> QED
      BY ONLY <1>5, <1>6, <3>1, n \in Nat, SliceFacts, Zenon
  <2>2. Len(Slice(data, first, n)) = n
    BY ONLY <2>1 DEF Slice
  <2> QED
    BY <1>4, <1>6, <2>2
<1> QED
  BY <1>1, <1>4, <1>6, <1>7 DEF Holds

\* As many hashes as blocks: all hashes of the blocks.
LEMMA AllHaveCome ==
  ASSUME XInv, NEW hs \in SUBSET Hashes(need), Cardinality(hs) = Cardinality(need)
  PROVE  hs = Hashes(need)
<1> DEFINE f == [k \in need |-> blocks[k].hash]
<1>1. f \in Surjection(need, Hashes(need))
  BY DEF Surjection, Hashes
<1>2. IsFiniteSet(need)
  <2>1. need \subseteq 1 .. Len(blocks) /\ 1 \in Int /\ Len(blocks) \in Int
    <3>1. Len(chunks) \in Nat /\ DOMAIN Advertised = 1 .. Len(chunks)
      BY DEF Advertised, XInv, XTypeOK, TypeOK
    <3>2. Len(Advertised) \in Nat
      BY <3>1, LenProperties DEF Advertised
    <3> QED
      BY <3>2 DEF XInv, XTypeOK, Indexed
  <2> QED
    BY <2>1, FS_Interval, FS_Subset
<1> HIDE DEF f
<1>3. /\ IsFiniteSet(Hashes(need))
      /\ Cardinality(Hashes(need)) <= Cardinality(need)
  BY <1>1, <1>2, FS_Surjection
<1>4. /\ Cardinality(hs) <= Cardinality(Hashes(need))
      /\ Cardinality(Hashes(need)) = Cardinality(hs) => Hashes(need) = hs
  BY <1>3, FS_Subset
<1>5. Cardinality(need) \in Nat /\ Cardinality(Hashes(need)) \in Nat
  BY <1>2, <1>3, FS_CardinalityType
<1> QED
  BY <1>3, <1>4, <1>5

LEMMA SentAppend ==
  ASSUME NEW s \in Seq(Frame), NEW f \in Frame
  PROVE  Sent(Append(s, f)) = Sent(s) \cup {f.hash}
<1> DEFINE t == Append(s, f)
<1>1. /\ Len(s) \in Nat /\ Len(t) = Len(s) + 1 /\ t[Len(s) + 1] = f
      /\ \A i \in 1 .. Len(s) : t[i] = s[i]
  BY AppendProperties
<1> HIDE DEF t
<1>2. 1 .. Len(t) = (1 .. Len(s)) \cup {Len(s) + 1}
  BY <1>1
<1>3. Sent(t) = Sent(s) \cup {f.hash}
  BY <1>1, <1>2 DEF Sent
<1> QED
  BY <1>3 DEF t

LEMMA SentTail ==
  ASSUME NEW s \in Seq(Frame), s # <<>>
  PROVE  /\ Sent(s) = Sent(Tail(s)) \cup {Head(s).hash}
         /\ Head(s) = s[1] /\ 1 \in 1 .. Len(s)
         /\ \A i \in 1 .. Len(Tail(s)) :
              Tail(s)[i] = s[i + 1] /\ i + 1 \in 1 .. Len(s)
<1> DEFINE t == Tail(s)
<1>1. /\ Len(s) \in Nat \ {0} /\ Len(t) = Len(s) - 1 /\ Head(s) = s[1]
      /\ \A i \in 1 .. Len(t) : t[i] = s[i + 1]
  BY HeadTailProperties, EmptySeq, LenProperties
<1> HIDE DEF t
<1>2. \A j \in 1 .. Len(s) : j = 1 \/ (j - 1 \in 1 .. Len(t) /\ t[j - 1] = s[j])
  <2> TAKE j \in 1 .. Len(s)
  <2>1. j # 1 => j - 1 \in 1 .. Len(t) /\ (j - 1) + 1 = j
    BY <1>1
  <2> QED
    BY <1>1, <2>1
<1>3. \A i \in 1 .. Len(t) : i + 1 \in 1 .. Len(s)
  BY <1>1
<1>4. 1 \in 1 .. Len(s)
  BY <1>1
<1>5. Sent(s) = Sent(t) \cup {Head(s).hash}
  BY <1>1, <1>2, <1>3, <1>4 DEF Sent
<1> QED
  BY <1>1, <1>3, <1>4, <1>5 DEF t

LEMMA ServeCalms == ASSUME UInv, Serve PROVE Calm'
<1> SUFFICES ASSUME trouble = 0 PROVE Calm'
  BY DEF Serve, Calm
<1>1. /\ UNCHANGED <<file, stage, live, own, blocks, localBlocks, need, got,
                     trouble>>
      /\ stage = "receive" /\ ~closed
  BY DEF Serve, vars, puller, index
<1> DEFINE k == Min(need \ served)
           b == blocks[k]
<1>2. k \in need \ served
  <2>1. need \subseteq 1 .. Len(blocks) /\ served \subseteq need
        /\ served # need
    BY DEF Serve, UInv, XInv, XTypeOK
  <2>2. need \ served \in SUBSET Nat
    BY <2>1
  <2>3. need \ served # {}
    BY <2>1
  <2> QED
    BY <2>2, <2>3, LeastNumber
<1>3. k \in 1 .. Len(blocks)
  BY <1>2 DEF UInv, XInv, XTypeOK
<1> HIDE DEF k
<1>4. /\ b.offset \in Nat /\ b.length \in Nat
      /\ b.offset + b.length <= Len(file)
      /\ b.hash = Slice(file, b.offset, b.length)
      /\ b.hash \in Seq(Byte) /\ Len(b.hash) = b.length
  BY <1>3, BlockFacts DEF UInv
<1>5. live = file
  BY <1>1 DEF UInv, Calm
<1> DEFINE f == BlockData(b.hash, b.hash)
<1>6. /\ stream' = Append(stream, f) /\ served' = served \cup {k}
      /\ closed' = closed
  BY <1>4, <1>5 DEF Serve, Holds, k
<1>7. f \in Frame /\ f.hash = b.hash /\ f.data = b.hash
  BY <1>2, <1>4 DEF BlockData, Frame
<1>8. stream \in Seq(Frame)
  BY DEF UInv, XInv, Begun
<1> HIDE DEF f
<1>9. Sent(stream') = Sent(stream) \cup {b.hash}
  BY <1>6, <1>7, <1>8, SentAppend
<1>10. \A i \in 1 .. Len(stream') : stream'[i].data = stream'[i].hash
  <2>1. /\ Len(stream) \in Nat /\ Len(stream') = Len(stream) + 1
        /\ stream'[Len(stream) + 1] = f
        /\ \A i \in 1 .. Len(stream) : stream'[i] = stream[i]
    BY <1>6, <1>7, <1>8, AppendProperties
  <2> QED
    BY <1>7, <2>1 DEF UInv, Calm
<1>11. Hashes(served)' = Hashes(served) \cup {b.hash}
  BY <1>1, <1>6 DEF Hashes
<1>12. Hashes(served)' = Sent(stream') \cup DOMAIN got'
  BY <1>1, <1>9, <1>11 DEF UInv, Calm
<1> QED
  BY <1>1, <1>6, <1>10, <1>12 DEF UInv, Calm

LEMMA ReceiveCalms == ASSUME UInv, Receive PROVE Calm'
<1> SUFFICES ASSUME trouble = 0 PROVE Calm'
  BY DEF Receive, Calm
<1> DEFINE b == Head(stream)
<1>1. /\ UNCHANGED <<file, live, served, closed, own, blocks, localBlocks, need,
                     trouble>>
      /\ stage = "receive" /\ stage' \in {"assemble", "receive"}
      /\ stream # <<>> /\ stream' = Tail(stream)
      /\ got' = [h \in DOMAIN got \cup {b.hash} |->
                   IF h = b.hash THEN b.data ELSE got[h]]
      /\ stage' = "assemble" => Cardinality(DOMAIN got') = Cardinality(need)
  BY DEF Receive, vars, peer, index
<1>2. stream \in Seq(Frame)
  BY DEF UInv, XInv, Begun
<1>3. /\ Sent(stream) = Sent(stream') \cup {b.hash}
      /\ b.data = b.hash
      /\ \A i \in 1 .. Len(stream') : stream'[i].data = stream'[i].hash
  <2>1. /\ Sent(stream) = Sent(stream') \cup {b.hash}
        /\ b = stream[1] /\ 1 \in 1 .. Len(stream)
        /\ \A i \in 1 .. Len(stream') :
             stream'[i] = stream[i + 1] /\ i + 1 \in 1 .. Len(stream)
    BY <1>1, <1>2, SentTail
  <2> HIDE DEF b
  <2> QED
    BY <2>1 DEF UInv, Calm
<1> HIDE DEF b
<1>4. DOMAIN got' = DOMAIN got \cup {b.hash}
  BY <1>1
<1>5. \A h \in DOMAIN got' : got'[h] = h
  BY <1>1, <1>3 DEF UInv, Calm
<1>6. Hashes(served)' = Sent(stream') \cup DOMAIN got'
  <2>1. Hashes(served)' = Hashes(served)
    BY <1>1 DEF Hashes
  <2>2. Hashes(served) = Sent(stream) \cup DOMAIN got
    BY <1>1 DEF UInv, Calm
  <2> QED
    BY <1>3, <1>4, <2>1, <2>2
<1>7. stage' = "assemble" => DOMAIN got' = Hashes(need)'
  <2>1. Hashes(need)' = Hashes(need)
    BY <1>1 DEF Hashes
  <2>2. DOMAIN got' \subseteq Hashes(need)
    <3>1. served \subseteq need
      BY DEF UInv, XInv, XTypeOK
    <3>2. Hashes(served) \subseteq Hashes(need) /\ Hashes(served)' = Hashes(served)
      BY <1>1, <3>1 DEF Hashes
    <3> QED
      BY <1>6, <3>2
  <2> QED
    BY <1>1, <2>1, <2>2, AllHaveCome DEF UInv
<1> QED
  BY <1>1, <1>3, <1>5, <1>6, <1>7 DEF UInv, Calm

LEMMA PutCalms == ASSUME UInv, Put PROVE Calm'
<1> SUFFICES ASSUME trouble = 0 PROVE Calm'
  BY DEF Put, Calm
<1>1. /\ UNCHANGED <<file, live, served, closed, stream, own, blocks,
                     localBlocks, need, got, trouble>>
      /\ stage = "assemble" /\ placed < Len(blocks)
  BY DEF Put, vars, peer, index
<1>2. placed + 1 \in 1 .. Len(blocks) /\ placed + 1 \in DOMAIN blocks
  <2>1. blocks = Advertised /\ DOMAIN Advertised = 1 .. Len(chunks)
        /\ Len(chunks) \in Nat
    BY <1>1 DEF UInv, XInv, Indexed, Advertised, XTypeOK, TypeOK
  <2>2. Len(blocks) = Len(chunks)
    BY <2>1, LenProperties DEF Advertised
  <2>3. placed \in Nat
    BY <2>1, <2>2 DEF UInv, XInv, XTypeOK
  <2> QED
    BY <1>1, <2>1, <2>2, <2>3
<1> DEFINE h == blocks[placed + 1].hash
<1>3. h \in Found(h)
  <2>1. CASE h \in DOMAIN localBlocks
    <3>1. localBlocks = BlockIndex(own) /\ own \in File
      BY <1>1 DEF UInv, Calm, XInv, XTypeOK
    <3> HIDE DEF h
    <3>2. /\ Holds(own, localBlocks[h], Len(h))
          /\ Slice(own, localBlocks[h], Len(h)) = h
      BY <2>1, <3>1, LocalIsThere
    <3> QED
      BY <2>1, <3>2 DEF Found
  <2>2. CASE h \notin DOMAIN localBlocks
    <3>1. placed + 1 \in need
      BY <1>1, <1>2, <2>2 DEF UInv, Calm
    <3>2. h \in DOMAIN got
      BY <1>1, <3>1 DEF UInv, Calm, Hashes
    <3>3. got[h] = h
      BY <3>2 DEF UInv, Calm
    <3> QED
      BY <2>2, <3>2, <3>3 DEF Found
  <2> QED
    BY <2>1, <2>2
<1>4. stage' = stage
  BY <1>3 DEF Put
<1>5. Hashes(need)' = Hashes(need)
  BY <1>1 DEF Hashes
<1> QED
  BY <1>1, <1>4, <1>5 DEF UInv, Calm

\* The index is taken and the missing blocks are asked for; the answer ends.
LEMMA PullCalms ==
  ASSUME UInv, TakeIndex \/ Ask \/ Close \/ EndOfStream \/ Finish
  PROVE  Calm'
<1> SUFFICES ASSUME trouble = 0 PROVE Calm'
  BY DEF TakeIndex, Ask, Close, EndOfStream, Finish, puller, Calm
<1>1. CASE TakeIndex
  <2>1. /\ stage = "start" /\ stage' \in {"ask", "nothing"}
        /\ live' = file /\ file' = file /\ localBlocks' = BlockIndex(own')
        /\ UNCHANGED <<closed, stream, got, trouble>>
    BY <1>1 DEF TakeIndex, vars
  <2>2. Fresh /\ ~closed
    BY <2>1 DEF UInv, XInv, Begun, Calm
  <2>3. BlockIndex(own)' = BlockIndex(own')
    OBVIOUS
  <2> QED
    BY <2>1, <2>2, <2>3 DEF UInv, Calm, Fresh
<1>2. CASE Ask
  <2>1. /\ UNCHANGED <<file, live, served, closed, own, blocks, localBlocks, got,
                       stream, trouble>>
        /\ stage = "ask"
        /\ need' = {k \in DOMAIN blocks : blocks[k].hash \notin DOMAIN localBlocks}
        /\ stage' = IF need' = {} THEN "assemble" ELSE "receive"
    BY <1>2 DEF Ask, vars, peer, index
  <2>2. Fresh /\ ~closed
    BY <2>1 DEF UInv, XInv, Begun, Calm
  <2>3. Hashes(served)' = {} /\ Sent(stream') = {} /\ DOMAIN got' = {}
    BY <2>1, <2>2 DEF Fresh, Hashes, Sent
  <2>4. stage' = "assemble" => Hashes(need)' = {}
    BY <2>1 DEF Hashes
  <2> QED
    BY <2>1, <2>2, <2>3, <2>4 DEF UInv, Calm
<1>3. CASE Close
  <2>1. /\ UNCHANGED <<file, stage, live, served, stream, own, blocks, localBlocks,
                       need, got, trouble>>
        /\ stage = "receive" /\ served = need
    BY <1>3 DEF Close, vars, puller, index
  <2>2. Hashes(served)' = Hashes(served)
    BY <2>1 DEF Hashes
  <2> QED
    BY <2>1, <2>2 DEF UInv, Calm
<1>4. CASE EndOfStream
  <2>1. /\ UNCHANGED <<file, live, served, closed, stream, own, blocks, localBlocks,
                       need, got, trouble>>
        /\ stage = "receive" /\ stage' = "assemble" /\ stream = <<>> /\ closed
    BY <1>4 DEF EndOfStream, vars, peer, puller, index
  <2>2. Sent(stream) = {}
    BY <2>1 DEF Sent
  <2>3. DOMAIN got = Hashes(need)
    BY <2>1, <2>2 DEF UInv, Calm
  <2>4. Hashes(need)' = Hashes(need)
    BY <2>1 DEF Hashes
  <2> QED
    BY <2>1, <2>3, <2>4 DEF UInv, Calm
<1>5. CASE Finish
  <2>1. /\ UNCHANGED <<file, live, served, closed, stream, own, blocks, localBlocks,
                       need, got, trouble>>
        /\ stage = "assemble" /\ placed = Len(blocks)
        /\ stage' = IF out = file THEN "installed" ELSE "failed"
    BY <1>5 DEF Finish, vars, peer, puller, index
  <2>2. out = file
    BY <2>1, CompleteIsFile DEF UInv, OnlyAdvertised
  <2> QED
    BY <2>1, <2>2 DEF UInv, Calm
<1> QED
  BY <1>1, <1>2, <1>3, <1>4, <1>5

LEMMA UStep == UInv /\ [XNext]_xvars => UInv'
<1> SUFFICES ASSUME UInv, [XNext]_xvars PROVE UInv'
  OBVIOUS
<1>1. XInv'
  BY XStepInv DEF UInv
<1>2. CInv'
  <2>1. [Next]_vars
    BY XStepSplits
  <2> QED
    BY <2>1, CStepInv DEF UInv
<1>3. CASE Split
  <2>1. /\ UNCHANGED <<stage, live, served, closed, stream, own, blocks, localBlocks,
                       need, got, trouble>>
        /\ stage = "start"
    BY <1>3 DEF Split, Next, Read, Cut, Fail, peer, puller, index, UInv, XInv,
           Indexed
  <2> QED
    BY <1>1, <1>2, <2>1 DEF UInv, Calm
<1>4. CASE PeerEdits \/ OwnEdits \/ Breaks \/ StopsServing
  <2>1. trouble' # 0
    BY <1>4 DEF PeerEdits, OwnEdits, Breaks, StopsServing, Trouble, UInv, XInv,
           XTypeOK
  <2> QED
    BY <1>1, <1>2, <2>1 DEF UInv, Calm
<1>5. CASE UNCHANGED xvars
  <2>1. UNCHANGED <<file, stage, live, served, closed, stream, own, blocks,
                    localBlocks, need, got, trouble>>
    BY <1>5 DEF xvars, vars, peer, puller, index
  <2>2. Hashes(served)' = Hashes(served) /\ Hashes(need)' = Hashes(need)
    BY <2>1 DEF Hashes
  <2> QED
    BY <1>1, <1>2, <2>1, <2>2 DEF UInv, Calm
<1> QED
  BY <1>1, <1>2, <1>3, <1>4, <1>5, ServeCalms, ReceiveCalms, PutCalms, PullCalms
     DEF UInv, XNext, Answer, Pull

\* A pull that nobody disturbs does not fail: its blocks make up the file, those
\* that buildBlockIndex found are where it found them, those it has not found
\* are asked for, served, told apart and complete, repeated ones too.
THEOREM UndisturbedNeverFailsHolds == XSpec => []UndisturbedNeverFails
<1>1. XInit => UInv
  <2> SUFFICES ASSUME XInit PROVE UInv
    OBVIOUS
  <2>1. XInv /\ CInv
    BY XInitInv, CInitInv DEF XInit
  <2>2. Calm
    BY DEF XInit, Calm
  <2> QED
    BY <2>1, <2>2 DEF UInv
<1>2. UInv => UndisturbedNeverFails
  BY DEF UInv, Calm, UndisturbedNeverFails
<1> QED
  BY <1>1, <1>2, UStep, PTL DEF XSpec

-----------------------------------------------------------------------------
(* Version vectors *)

\* What a replica has seen is exactly what its vector counts, and of its own
\* changes it has seen all.
Counted ==
  /\ \A d, k \in Device : \A i \in 1 .. MaxCount :
       <<k, i>> \in known[d] <=> i <= At(vector[d], k)
  /\ \A d \in Device : At(vector[d], d) = made[d]

VInv == VTypeOK /\ Counted

\* A count is the number of changes made, at most.
LEMMA AtRange ==
  ASSUME VTypeOK, NEW d \in Device, NEW k \in Device
  PROVE  At(vector[d], k) \in 0 .. made[k] /\ At(vector[d], k) \in 0 .. MaxCount
BY MaxCountAssumption DEF VTypeOK, At

LEMMA AtIncrement ==
  ASSUME NEW v, NEW k, NEW j
  PROVE  At(Increment(v, k), j) = IF j = k THEN At(v, k) + 1 ELSE At(v, j)
BY DEF At, Increment

\* Merge takes the larger count of every device.
LEMMA AtMerge ==
  ASSUME NEW v, NEW other, NEW j,
         At(v, j) \in Nat, At(other, j) \in Nat
  PROVE  At(Merge(v, other), j) =
           IF At(other, j) > At(v, j) THEN At(other, j) ELSE At(v, j)
BY DEF At, Merge

LEMMA VInitInv == VInit => VInv
<1> SUFFICES ASSUME VInit PROVE VInv
  OBVIOUS
<1>1. VTypeOK
  BY MaxCountAssumption DEF VInit, VTypeOK
<1>2. Counted
  BY DEF VInit, Counted, At
<1>3. QED BY <1>1, <1>2 DEF VInv

LEMMA ChangeKeeps ==
  ASSUME VInv, NEW d \in Device, Change(d)
  PROVE  VInv'
<1>1. /\ made[d] \in Nat /\ made[d] + 1 \in 1 .. MaxCount
      /\ made' = [made EXCEPT ![d] = made[d] + 1]
      /\ vector' = [vector EXCEPT ![d] = Increment(vector[d], d)]
      /\ known' = [known EXCEPT ![d] = known[d] \cup {<<d, made[d] + 1>>}]
  BY MaxCountAssumption DEF VInv, VTypeOK, Change
<1>2. VTypeOK'
  <2>1. made' \in [Device -> 0 .. MaxCount] /\ DOMAIN vector' = Device
    BY <1>1 DEF VInv, VTypeOK
  <2>2. known' \in [Device -> SUBSET (Device \X (1 .. MaxCount))]
    BY <1>1 DEF VInv, VTypeOK
  <2>3. ASSUME NEW e \in Device
        PROVE  /\ DOMAIN vector'[e] \subseteq Device
               /\ vector'[e] = [k \in DOMAIN vector'[e] |-> vector'[e][k]]
               /\ \A k \in DOMAIN vector'[e] : vector'[e][k] \in 1 .. made'[k]
    <3>1. CASE e = d
      <4>1. vector'[e] = Increment(vector[d], d)
        BY <1>1, <3>1 DEF VInv, VTypeOK
      <4>2. \A k \in DOMAIN vector'[e] :
              vector'[e][k] = IF k = d THEN made[d] + 1 ELSE vector[d][k]
        BY <4>1 DEF Increment, VInv, Counted
      <4>3. DOMAIN vector'[e] = DOMAIN vector[d] \cup {d}
        BY <4>1 DEF Increment
      <4>4. vector'[e] = [k \in DOMAIN vector'[e] |-> vector'[e][k]]
        BY <4>1 DEF Increment
      <4>5. QED BY <1>1, <4>2, <4>3, <4>4 DEF VInv, VTypeOK
    <3>2. CASE e # d
      <4>1. vector'[e] = vector[e]
        BY <1>1, <3>2 DEF VInv, VTypeOK
      <4>2. \A k \in Device : made[k] \in Nat /\ made'[k] \in Nat
                              /\ made[k] <= made'[k]
        BY <1>1, MaxCountAssumption DEF VInv, VTypeOK
      <4>3. \A k \in DOMAIN vector[e] : k \in Device /\ vector[e][k] \in 1 .. made[k]
        BY DEF VInv, VTypeOK
      <4>4. \A k \in DOMAIN vector[e] : vector[e][k] \in 1 .. made'[k]
        BY <4>2, <4>3
      <4>5. QED BY <4>1, <4>3, <4>4 DEF VInv, VTypeOK
    <3>3. QED BY <3>1, <3>2
  <2>4. QED BY <2>1, <2>2, <2>3 DEF VTypeOK
<1>3. \A e, k \in Device :
        At(vector'[e], k) =
          IF e = d /\ k = d THEN made[d] + 1 ELSE At(vector[e], k)
  BY <1>1, AtIncrement DEF VInv, VTypeOK, Counted
<1>4. \A e, k \in Device : \A i \in 1 .. MaxCount :
        <<k, i>> \in known'[e] <=>
          <<k, i>> \in known[e] \/ (e = d /\ k = d /\ i = made[d] + 1)
  BY <1>1 DEF VInv, VTypeOK
<1>5. Counted'
  <2>1. ASSUME NEW e \in Device, NEW k \in Device, NEW i \in 1 .. MaxCount
        PROVE  <<k, i>> \in known'[e] <=> i <= At(vector'[e], k)
    BY <1>1, <1>3, <1>4 DEF VInv, Counted
  <2>2. ASSUME NEW e \in Device PROVE At(vector'[e], e) = made'[e]
    BY <1>1, <1>3 DEF VInv, Counted, VTypeOK
  <2>3. QED BY <2>1, <2>2 DEF Counted
<1>6. QED BY <1>2, <1>5 DEF VInv

LEMMA LearnKeeps ==
  ASSUME VInv, NEW d \in Device, NEW e \in Device \ {d}, Learn(d, e)
  PROVE  VInv'
<1>1. /\ made' = made
      /\ vector' = [vector EXCEPT ![d] = Merge(vector[d], vector[e])]
      /\ known' = [known EXCEPT ![d] = known[d] \cup known[e]]
  BY DEF Learn
<1>2. VTypeOK'
  <2>1. DOMAIN vector' = Device
    BY <1>1 DEF VInv, VTypeOK
  <2>2. known' \in [Device -> SUBSET (Device \X (1 .. MaxCount))]
    BY <1>1 DEF VInv, VTypeOK
  <2>3. ASSUME NEW f \in Device
        PROVE  /\ DOMAIN vector'[f] \subseteq Device
               /\ vector'[f] = [k \in DOMAIN vector'[f] |-> vector'[f][k]]
               /\ \A k \in DOMAIN vector'[f] : vector'[f][k] \in 1 .. made'[k]
    <3>1. CASE f = d
      <4>1. vector'[f] = Merge(vector[d], vector[e])
        BY <1>1, <3>1 DEF VInv, VTypeOK
      <4>2. DOMAIN vector[d] \subseteq Device /\ DOMAIN vector[e] \subseteq Device
        BY DEF VInv, VTypeOK
      <4>3. \A k \in DOMAIN vector'[f] :
              \/ k \in DOMAIN vector[d] /\ vector'[f][k] = vector[d][k]
              \/ k \in DOMAIN vector[e] /\ vector'[f][k] = vector[e][k]
        <5> SUFFICES ASSUME NEW k \in DOMAIN Merge(vector[d], vector[e])
                     PROVE  \/ /\ k \in DOMAIN vector[d]
                               /\ Merge(vector[d], vector[e])[k] = vector[d][k]
                            \/ /\ k \in DOMAIN vector[e]
                               /\ Merge(vector[d], vector[e])[k] = vector[e][k]
          BY <4>1
        <5>1. k \in Device
          BY <4>2 DEF Merge
        <5>2. At(vector[d], k) \in Nat /\ At(vector[e], k) \in Nat
          BY <5>1, AtRange, MaxCountAssumption DEF VInv
        <5>3. QED BY <5>2 DEF Merge, At
      <4>4. vector'[f] = [k \in DOMAIN vector'[f] |-> vector'[f][k]]
        BY <4>1 DEF Merge
      <4>5. DOMAIN vector'[f] \subseteq Device
        BY <4>1, <4>2 DEF Merge
      <4>6. QED BY <1>1, <4>3, <4>4, <4>5 DEF VInv, VTypeOK
    <3>2. CASE f # d
      <4>1. vector'[f] = vector[f]
        BY <1>1, <3>2 DEF VInv, VTypeOK
      <4>2. QED BY <1>1, <4>1 DEF VInv, VTypeOK
    <3>3. QED BY <3>1, <3>2
  <2>4. QED BY <1>1, <2>1, <2>2, <2>3 DEF VInv, VTypeOK
<1>3. \A k \in Device :
        /\ At(vector[d], k) \in 0 .. made[k] /\ At(vector[e], k) \in 0 .. made[k]
        /\ made[k] \in Nat
        /\ At(vector'[d], k) = IF At(vector[e], k) > At(vector[d], k)
                               THEN At(vector[e], k) ELSE At(vector[d], k)
  <2> SUFFICES ASSUME NEW k \in Device
               PROVE  /\ At(vector[d], k) \in 0 .. made[k]
                      /\ At(vector[e], k) \in 0 .. made[k]
                      /\ made[k] \in Nat
                      /\ At(vector'[d], k) =
                           IF At(vector[e], k) > At(vector[d], k)
                           THEN At(vector[e], k) ELSE At(vector[d], k)
    OBVIOUS
  <2>1. made[k] \in Nat
    BY MaxCountAssumption DEF VInv, VTypeOK
  <2>2. At(vector[d], k) \in 0 .. made[k] /\ At(vector[e], k) \in 0 .. made[k]
    BY AtRange DEF VInv
  <2>3. vector'[d] = Merge(vector[d], vector[e])
    BY <1>1 DEF VInv, VTypeOK
  <2>4. QED BY <2>1, <2>2, <2>3, AtMerge
<1>4. \A f \in Device : f # d => vector'[f] = vector[f] /\ known'[f] = known[f]
  BY <1>1 DEF VInv, VTypeOK
<1>5. known'[d] = known[d] \cup known[e]
  BY <1>1 DEF VInv, VTypeOK
<1>6. Counted'
  <2>1. ASSUME NEW f \in Device, NEW k \in Device, NEW i \in 1 .. MaxCount
        PROVE  <<k, i>> \in known'[f] <=> i <= At(vector'[f], k)
    <3>1. CASE f = d
      <4>1. /\ <<k, i>> \in known[d] <=> i <= At(vector[d], k)
            /\ <<k, i>> \in known[e] <=> i <= At(vector[e], k)
        BY DEF VInv, Counted
      <4>2. QED BY <1>3, <1>5, <3>1, <4>1
    <3>2. CASE f # d
      BY <1>4, <3>2 DEF VInv, Counted
    <3>3. QED BY <3>1, <3>2
  <2>2. ASSUME NEW f \in Device PROVE At(vector'[f], f) = made'[f]
    <3>1. CASE f = d
      <4>1. At(vector[d], d) = made[d]
        BY DEF VInv, Counted
      <4>2. QED BY <1>1, <1>3, <3>1, <4>1
    <3>2. CASE f # d
      BY <1>1, <1>4, <3>2 DEF VInv, Counted
    <3>3. QED BY <3>1, <3>2
  <2>3. QED BY <2>1, <2>2 DEF Counted
<1>7. QED BY <1>2, <1>6 DEF VInv

LEMMA VNextInv == VInv /\ [VNext]_vvars => VInv'
<1> SUFFICES ASSUME VInv, [VNext]_vvars PROVE VInv'
  OBVIOUS
<1>1. ASSUME NEW d \in Device, Change(d) PROVE VInv'
  BY <1>1, ChangeKeeps
<1>2. ASSUME NEW d \in Device, NEW e \in Device \ {d}, Learn(d, e) PROVE VInv'
  BY <1>2, LearnKeeps
<1>3. CASE UNCHANGED vvars
  BY <1>3 DEF vvars, VInv, VTypeOK, Counted
<1>4. QED BY <1>1, <1>2, <1>3 DEF VNext

\* A replica has seen all that another has exactly when none of its counts is
\* behind.
LEMMA CountsTell ==
  ASSUME VInv, NEW d \in Device, NEW e \in Device
  PROVE  known[e] \subseteq known[d] <=>
           \A k \in Device : At(vector[e], k) <= At(vector[d], k)
<1>1. \A k \in Device : /\ At(vector[d], k) \in 0 .. MaxCount
                        /\ At(vector[e], k) \in 0 .. MaxCount
  BY AtRange DEF VInv
<1>2. ASSUME known[e] \subseteq known[d], NEW k \in Device
      PROVE  At(vector[e], k) <= At(vector[d], k)
  <2>1. CASE At(vector[e], k) = 0
    BY <1>1, <2>1
  <2>2. CASE At(vector[e], k) # 0
    <3>1. At(vector[e], k) \in 1 .. MaxCount
      BY <1>1, <2>2, MaxCountAssumption
    <3>2. <<k, At(vector[e], k)>> \in known[e]
      BY <3>1, MaxCountAssumption DEF VInv, Counted
    <3>3. QED BY <1>2, <3>1, <3>2 DEF VInv, Counted
  <2>3. QED BY <2>1, <2>2
<1>3. ASSUME \A k \in Device : At(vector[e], k) <= At(vector[d], k)
      PROVE  known[e] \subseteq known[d]
  <2> SUFFICES ASSUME NEW c \in known[e] PROVE c \in known[d]
    OBVIOUS
  <2>1. PICK k \in Device, i \in 1 .. MaxCount : c = <<k, i>>
    BY DEF VInv, VTypeOK
  <2>2. i <= At(vector[e], k)
    BY <2>1 DEF VInv, Counted
  <2>3. i <= At(vector[d], k)
    BY <1>1, <1>3, <2>2, MaxCountAssumption
  <2>4. QED BY <2>1, <2>3 DEF VInv, Counted
<1>4. QED BY <1>2, <1>3

\* Compare's two flags say which counts are ahead and which behind.
LEMMA Flags ==
  ASSUME VTypeOK, NEW d \in Device, NEW e \in Device
  PROVE  LET greater == \E k \in Device : At(vector[d], k) > At(vector[e], k)
             less    == \E k \in Device : At(vector[d], k) < At(vector[e], k)
         IN  Compare(vector[d], vector[e]) =
               CASE greater /\ less -> "concurrent"
                 [] greater /\ ~less -> "greater"
                 [] ~greater /\ less -> "less"
                 [] OTHER -> "equal"
<1>1. \A f, k \in Device : At(vector[f], k) \in Nat
  <2> TAKE f, k \in Device
  <2>1. QED BY AtRange, MaxCountAssumption
<1>2. \A f \in Device : /\ DOMAIN vector[f] \subseteq Device
                        /\ \A k \in DOMAIN vector[f] :
                             vector[f][k] \in Nat \ {0}
  <2> SUFFICES ASSUME NEW f \in Device, NEW k \in DOMAIN vector[f]
               PROVE  vector[f][k] \in Nat \ {0}
    BY DEF VTypeOK
  <2>1. k \in Device /\ vector[f][k] \in 1 .. made[k] /\ made[k] \in Nat
    BY MaxCountAssumption DEF VTypeOK
  <2>2. QED BY <2>1
<1>3. (\E k \in DOMAIN vector[d] : vector[d][k] > At(vector[e], k)) <=>
        \E k \in Device : At(vector[d], k) > At(vector[e], k)
  BY <1>1, <1>2 DEF At
<1>4. (\/ \E k \in DOMAIN vector[d] : vector[d][k] < At(vector[e], k)
       \/ \E k \in DOMAIN vector[e] :
            k \notin DOMAIN vector[d] /\ vector[e][k] > 0) <=>
        \E k \in Device : At(vector[d], k) < At(vector[e], k)
  BY <1>1, <1>2 DEF At
<1>5. QED BY <1>3, <1>4 DEF Compare

LEMMA CausalFromCounts == VInv => CompareIsCausal
<1> SUFFICES ASSUME VInv, NEW d \in Device, NEW e \in Device
             PROVE  Compare(vector[d], vector[e]) =
                      CASE known[d] = known[e] -> "equal"
                        [] known[d] # known[e] /\ known[e] \subseteq known[d]
                             -> "greater"
                        [] known[d] # known[e] /\ known[d] \subseteq known[e]
                             -> "less"
                        [] OTHER -> "concurrent"
  BY DEF CompareIsCausal
<1> DEFINE greater == \E k \in Device : At(vector[d], k) > At(vector[e], k)
           less    == \E k \in Device : At(vector[d], k) < At(vector[e], k)
<1>1. \A k \in Device : /\ At(vector[d], k) \in 0 .. MaxCount
                        /\ At(vector[e], k) \in 0 .. MaxCount
  BY AtRange DEF VInv
<1>2. greater <=> ~(known[d] \subseteq known[e])
  BY <1>1, CountsTell, MaxCountAssumption
<1>3. less <=> ~(known[e] \subseteq known[d])
  BY <1>1, CountsTell, MaxCountAssumption
<1>4. Compare(vector[d], vector[e]) =
        CASE greater /\ less -> "concurrent"
          [] greater /\ ~less -> "greater"
          [] ~greater /\ less -> "less"
          [] OTHER -> "equal"
  BY Flags DEF VInv
<1> HIDE DEF greater, less
<1>5. known[d] = known[e] <=>
        known[d] \subseteq known[e] /\ known[e] \subseteq known[d]
  OBVIOUS
<1>6. QED BY <1>2, <1>3, <1>4, <1>5

\* Any two vectors, not only those that replicas of one file come to have.
IsVector(v) == \A k \in DOMAIN v : v[k] \in Nat

\* v counts at least as many changes of every device as w does.
Covers(v, w) == \A k \in DOMAIN w : w[k] <= At(v, k)

LEMMA AtOfVector == ASSUME NEW v, IsVector(v), NEW k PROVE At(v, k) \in Nat
  BY DEF IsVector, At

\* Vector.Merge gives the smallest vector that covers both: nothing either has
\* counted is lost, and nothing is counted that neither has.
THEOREM MergeIsJoin ==
  ASSUME NEW v, NEW w, IsVector(v), IsVector(w)
  PROVE  LET m == Merge(v, w)
         IN  /\ IsVector(m) /\ Covers(m, v) /\ Covers(m, w)
             /\ \A u : IsVector(u) /\ Covers(u, v) /\ Covers(u, w)
                         => Covers(u, m)
<1> DEFINE m == Merge(v, w)
<1>1. ASSUME NEW k \in DOMAIN m
      PROVE  /\ m[k] \in Nat
             /\ \/ k \in DOMAIN v /\ m[k] = v[k]
                \/ k \in DOMAIN w /\ m[k] = w[k]
  <2>1. At(v, k) \in Nat /\ At(w, k) \in Nat
    BY AtOfVector
  <2>2. k \in DOMAIN v \/ (k \in DOMAIN w /\ w[k] > At(v, k))
    BY DEF Merge
  <2>3. m[k] = IF At(w, k) > At(v, k) THEN w[k] ELSE v[k]
    BY DEF Merge
  <2> HIDE DEF m
  <2> QED
    BY <2>1, <2>2, <2>3 DEF At, IsVector
<1>2. \A k : At(m, k) = IF At(w, k) > At(v, k) THEN At(w, k) ELSE At(v, k)
  BY AtOfVector, AtMerge
<1> HIDE DEF m
<1>3. IsVector(m)
  BY <1>1 DEF IsVector
<1>4. Covers(m, v)
  <2> SUFFICES ASSUME NEW k \in DOMAIN v PROVE v[k] <= At(m, k)
    BY DEF Covers
  <2>1. At(v, k) = v[k] /\ At(v, k) \in Nat /\ At(w, k) \in Nat
    BY AtOfVector DEF At
  <2> QED
    BY <1>2, <2>1
<1>5. Covers(m, w)
  <2> SUFFICES ASSUME NEW k \in DOMAIN w PROVE w[k] <= At(m, k)
    BY DEF Covers
  <2>1. At(w, k) = w[k] /\ At(v, k) \in Nat /\ At(w, k) \in Nat
    BY AtOfVector DEF At
  <2> QED
    BY <1>2, <2>1
<1>6. ASSUME NEW u, Covers(u, v), Covers(u, w) PROVE Covers(u, m)
  BY <1>1, <1>6 DEF Covers
<1> QED
  BY <1>3, <1>4, <1>5, <1>6 DEF m

\* Vector.Compare says which of any two vectors covers the other, entries that
\* are missing or zero included.
THEOREM CompareIsOrder ==
  ASSUME NEW v, NEW w, IsVector(v), IsVector(w)
  PROVE  Compare(v, w) =
           CASE Covers(v, w) /\ Covers(w, v) -> "equal"
             [] Covers(v, w) /\ ~Covers(w, v) -> "greater"
             [] ~Covers(v, w) /\ Covers(w, v) -> "less"
             [] OTHER -> "concurrent"
<1> DEFINE greater == \E k \in DOMAIN v : v[k] > At(w, k)
           less    == \/ \E k \in DOMAIN v : v[k] < At(w, k)
                      \/ \E k \in DOMAIN w : k \notin DOMAIN v /\ w[k] > 0
<1>1. \A k : At(v, k) \in Nat /\ At(w, k) \in Nat
  BY AtOfVector
<1>2. greater <=> ~Covers(w, v)
  BY <1>1 DEF Covers, IsVector
<1>3. less <=> ~Covers(v, w)
  BY <1>1 DEF Covers, At, IsVector
<1>4. Compare(v, w) = CASE greater /\ less -> "concurrent"
                        [] greater /\ ~less -> "greater"
                        [] ~greater /\ less -> "less"
                        [] OTHER -> "equal"
  BY DEF Compare
<1> HIDE DEF greater, less
<1> QED
  BY <1>2, <1>3, <1>4

\* Vectors count changes that have been made, whatever is exchanged in
\* whatever order, for any number of devices.
THEOREM VTypeCorrect == VSpec => []VTypeOK
<1>1. VInv => VTypeOK
  BY DEF VInv
<1>2. QED BY VInitInv, VNextInv, <1>1, PTL DEF VSpec

\* Vector.Compare decides which of two replicas has seen the other's changes,
\* for any number of devices and changes.
THEOREM CompareCausally == VSpec => []CompareIsCausal
<1>1. QED BY VInitInv, VNextInv, CausalFromCounts, PTL DEF VSpec
=============================================================================
