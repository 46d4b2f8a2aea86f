-------------------------- MODULE VersioningProofs --------------------------
(* The version store keeps at most Keep copies of a file and those that are   *)
(* still to be pruned, drops the oldest, and never writes over a copy, for    *)
(* any files, clock, Keep and stops.                                          *)
EXTENDS Versioning, FiniteSetTheorems, WellFoundedInduction, TLAPS

\* What of s is a copy of n.
Of(n, s) == {v \in s : v.stem = n.stem /\ v.ext = n.ext}

\* No two copies in s have one name.
NamesDiffer(s) ==
  \A v, w \in s :
    <<v.stem, v.ext, v.stamp, v.dup>> = <<w.stem, w.ext, w.stamp, w.dup>>
      => v = w

\* At most one copy was broken off: the bound of ArchiveFails.
OneTorn == \A v, w \in store : ~v.whole /\ ~w.whole => v = w

\* The complete copies of n in s, and how many of them AtMostKeep allows.
Whole(n, s) == {v \in Of(n, s) : v.whole}
Allowed(n) == Keep + stops[n] + (IF fresh[n] # NoCopy THEN 1 ELSE 0)

\* AtMostKeep is inductive with the type, for it is about a finite set; OneTorn
\* leaves a free name for the next copy.
IInv == TypeOK /\ IsFiniteSet(store) /\ OneTorn /\ AtMostKeep

USE KeepAssumption

-----------------------------------------------------------------------------
(* Numbers and finite sets *)

LEMMA LeastNumber ==
  ASSUME NEW S \in SUBSET Nat, S # {}
  PROVE  \E x \in S : \A y \in S : x <= y
<1> DEFINE R == OpToRel(<, Nat)
<1>1. IsWellFoundedOn(R, Nat)
  BY NatLessThanWellFounded
<1>2. \A x, y \in Nat : <<y, x>> \in R <=> y < x
  BY DEF OpToRel
<1> HIDE DEF R
<1>3. PICK x \in S : \A y \in S : ~(<<y, x>> \in R)
  BY <1>1, WFMin
<1>4. \A y \in S : x \in Nat /\ y \in Nat /\ ~(y < x)
  BY <1>2, <1>3
<1> QED
  BY <1>4

LEMMA MinIsLeast ==
  ASSUME NEW S \in SUBSET Nat, S # {}
  PROVE  Min(S) \in S /\ \A y \in S : Min(S) <= y
  BY LeastNumber DEF Min

\* Ranks of one file's copies tell them apart, and order them by stamp first.
LEMMA RankFacts ==
  ASSUME NEW n, NEW v \in Copy, NEW w \in Copy, v.ext = w.ext
  PROVE  /\ Rank(n, v) \in Nat
         /\ v.stamp > w.stamp => Rank(n, v) > Rank(n, w)
         /\ Rank(n, v) = Rank(n, w) => v.stamp = w.stamp /\ v.dup = w.dup
<1>1. /\ v.stamp \in Nat /\ w.stamp \in Nat
      /\ v.dup \in 0 .. 19 /\ w.dup \in 0 .. 19
  BY BoundAssumption DEF Copy, Second, Dup
<1> DEFINE bare == v.ext = n.ext
           place(d) == CASE d = 0 -> IF bare THEN 0 ELSE 99
                         [] d = 1 -> IF bare THEN 2 ELSE 3
                         [] d >= 10 -> 4 + 2 * (d - 10) + IF bare THEN 0 ELSE 1
                         [] OTHER -> 30 + 2 * d + IF bare THEN 0 ELSE 1
<1>2. Rank(n, v) = 100 * v.stamp + place(v.dup)
  BY <1>1 DEF Rank
<1>3. Rank(n, w) = 100 * w.stamp + place(w.dup)
  BY <1>1 DEF Rank
<1> HIDE DEF bare
<1>4. \A d \in 0 .. 19 : place(d) \in 0 .. 99
  OBVIOUS
<1>5. \A d, e \in 0 .. 19 : place(d) = place(e) => d = e
  OBVIOUS
<1> HIDE DEF place
<1>6. place(v.dup) \in 0 .. 99 /\ place(w.dup) \in 0 .. 99
  BY <1>1, <1>4
<1>7. place(v.dup) = place(w.dup) => v.dup = w.dup
  BY <1>1, <1>5
<1>8. PICK a \in Nat, b \in Nat, p \in 0 .. 99, q \in 0 .. 99 :
        /\ a = v.stamp /\ p = place(v.dup)
        /\ b = w.stamp /\ q = place(w.dup)
  BY <1>1, <1>6
<1>9. Rank(n, v) = 100 * a + p /\ Rank(n, w) = 100 * b + q
  BY <1>2, <1>3, <1>8
<1>10. /\ 100 * a + p \in Nat
       /\ a > b => 100 * a + p > 100 * b + q
       /\ 100 * a + p = 100 * b + q => a = b /\ p = q
  OBVIOUS
<1> QED
  BY <1>7, <1>8, <1>9, <1>10

-----------------------------------------------------------------------------
(* Names *)

LEMMA AllowedIsNat ==
  ASSUME TypeOK, NEW n \in Name
  PROVE  /\ Allowed(n) \in Nat /\ Allowed(n) >= Keep
         /\ fresh[n] = NoCopy => Allowed(n) <= Keep + MaxStops
<1>1. stops[n] \in 0 .. MaxStops
  BY DEF TypeOK
<1> QED
  BY <1>1 DEF Allowed

LEMMA AllowedStaysNat ==
  ASSUME TypeOK', NEW n \in Name
  PROVE  Allowed(n)' \in Nat /\ Allowed(n)' >= Keep
<1>1. stops'[n] \in 0 .. MaxStops
  BY DEF TypeOK
<1> QED
  BY <1>1 DEF Allowed

LEMMA AtMostKeepIs ==
  /\ AtMostKeep <=> \A n \in Name : Cardinality(Whole(n, store)) <= Allowed(n)
  /\ AtMostKeep' <=>
       \A n \in Name : Cardinality(Whole(n, store')) <= Allowed(n)'
<1>1. \A n : Whole(n, store) = {v \in CopiesOf(n) : v.whole}
  BY DEF Whole, Of, CopiesOf
<1>2. \A n : Whole(n, store') = {v \in CopiesOf(n)' : v.whole}
  BY DEF Whole, Of, CopiesOf
<1>3. AtMostKeep <=> \A n \in Name :
        Cardinality({v \in CopiesOf(n) : v.whole}) <= Allowed(n)
  BY DEF AtMostKeep, Allowed
<1>4. AtMostKeep' <=> \A n \in Name :
        Cardinality({v \in CopiesOf(n)' : v.whole}) <= Allowed(n)'
  BY DEF AtMostKeep, Allowed
<1> QED
  BY ONLY <1>1, <1>2, <1>3, <1>4

\* At most Keep + MaxStops complete copies and a torn one leave one of the
\* numbers free.
LEMMA FewCopies ==
  ASSUME IInv, NEW n \in Name, fresh[n] = NoCopy
  PROVE  /\ IsFiniteSet(CopiesOf(n))
         /\ Cardinality(CopiesOf(n)) <= Keep + MaxStops + 1
<1> DEFINE whole == Whole(n, store)
           torn == {v \in CopiesOf(n) : ~v.whole}
<1>1. IsFiniteSet(CopiesOf(n))
  BY FS_Subset DEF IInv, CopiesOf
<1>2. /\ IsFiniteSet(whole) /\ Cardinality(whole) <= Keep + MaxStops
      /\ Cardinality(whole) \in Nat
  <2>1. IsFiniteSet(whole)
    BY FS_Subset DEF IInv, Whole, Of
  <2>2. Cardinality(whole) \in Nat
    BY <2>1, FS_CardinalityType
  <2>3. Cardinality(whole) <= Allowed(n)
    BY AtMostKeepIs DEF IInv
  <2> QED
    BY <2>1, <2>2, <2>3, AllowedIsNat DEF IInv
<1>3. IsFiniteSet(torn) /\ Cardinality(torn) <= 1
  <2>1. CASE torn = {}
    BY <2>1, FS_EmptySet
  <2>2. CASE torn # {}
    <3>1. PICK v : v \in torn
      BY <2>2
    <3>2. torn = {v}
      BY <3>1 DEF IInv, OneTorn, CopiesOf
    <3>3. IsFiniteSet({v}) /\ Cardinality({v}) = 1
      BY FS_Singleton
    <3> HIDE DEF torn
    <3> QED
      BY <3>2, <3>3
  <2> QED
    BY <2>1, <2>2
<1>4. CopiesOf(n) = whole \cup torn /\ whole \cap torn = {}
  BY DEF Whole, Of, CopiesOf
<1>5. Cardinality(torn) \in Nat
  BY <1>3, FS_CardinalityType
<1>6. Cardinality(CopiesOf(n)) = Cardinality(whole) + Cardinality(torn)
  <2> HIDE DEF whole, torn
  <2>1. Cardinality(whole \cup torn)
          = Cardinality(whole) + Cardinality(torn)
              - Cardinality(whole \cap torn)
    BY <1>2, <1>3, FS_Union
  <2>2. Cardinality(whole \cap torn) = 0
    BY <1>4, FS_EmptySet
  <2> QED
    BY <1>2, <1>4, <1>5, <2>1, <2>2
<1> QED
  BY <1>1, <1>2, <1>3, <1>5, <1>6

LEMMA FreeDupIsFree ==
  ASSUME IInv, NEW n \in Name, fresh[n] = NoCopy, NEW stamp
  PROVE  /\ FreeDup(n, stamp) \in Dup
         /\ \A v \in CopiesOf(n) : v.stamp = stamp => v.dup # FreeDup(n, stamp)
<1> DEFINE free == {k \in Dup :
                      \A v \in CopiesOf(n) : v.stamp = stamp => v.dup # k}
<1>1. free # {}
  <2> SUFFICES ASSUME free = {} PROVE FALSE
    OBVIOUS
  <2>1. \A k \in Dup : \E v \in CopiesOf(n) : v.dup = k
    OBVIOUS
  <2> DEFINE f == [k \in Dup |-> CHOOSE v \in CopiesOf(n) : v.dup = k]
  <2>2. \A k \in Dup : f[k] \in CopiesOf(n) /\ f[k].dup = k
    BY <2>1
  <2>3. f \in [Dup -> CopiesOf(n)]
    BY <2>2
  <2>4. IsFiniteSet(Dup) /\ Cardinality(Dup) = Keep + MaxStops + 2
    BY FS_Interval DEF Dup
  <2>5. /\ IsFiniteSet(CopiesOf(n))
        /\ Cardinality(CopiesOf(n)) <= Keep + MaxStops + 1
    BY FewCopies
  <2>6. Cardinality(CopiesOf(n)) < Cardinality(Dup)
    BY <2>4, <2>5, FS_CardinalityType
  <2> HIDE DEF f
  <2>7. \E x, y \in Dup : x # y /\ f[x] = f[y]
    BY <2>3, <2>4, <2>5, <2>6, FS_PigeonHole
  <2> QED
    BY <2>2, <2>7
<1>2. free \in SUBSET Nat
  BY DEF Dup
<1>3. FreeDup(n, stamp) = Min(free)
  BY DEF FreeDup
<1> HIDE DEF free
<1>4. FreeDup(n, stamp) \in free
  BY <1>1, <1>2, <1>3, MinIsLeast
<1> QED
  BY <1>4 DEF free
-----------------------------------------------------------------------------
(* Copying and pruning *)

LEMMA CopyOfFacts ==
  ASSUME IInv, NEW n \in Name, fresh[n] = NoCopy
  PROVE  /\ CopyOf(n) \in Copy /\ [CopyOf(n) EXCEPT !.whole = FALSE] \in Copy
         /\ CopyOf(n).stem = n.stem /\ CopyOf(n).ext = n.ext
         /\ CopyOf(n).whole /\ CopyOf(n) # NoCopy
         /\ \A v \in store : <<v.stem, v.ext, v.stamp, v.dup>>
              # <<n.stem, n.ext, CopyOf(n).stamp, CopyOf(n).dup>>
<1>1. mtime[n] \in Second
  BY DEF IInv, TypeOK
<1>2. /\ FreeDup(n, mtime[n]) \in Dup
      /\ \A v \in CopiesOf(n) :
           v.stamp = mtime[n] => v.dup # FreeDup(n, mtime[n])
  BY FreeDupIsFree
<1>3. n.stem \in {m.stem : m \in Name} /\ n.ext \in {m.ext : m \in Name}
  OBVIOUS
<1>4. CopyOf(n) \in Copy /\ [CopyOf(n) EXCEPT !.whole = FALSE] \in Copy
  BY <1>1, <1>2, <1>3 DEF CopyOf, Copy
<1>5. CopyOf(n) # NoCopy
  BY DEF CopyOf, NoCopy
<1> QED
  BY <1>2, <1>4, <1>5 DEF CopyOf, CopiesOf

\* Archiving adds to the store: nothing is written over.
LEMMA AddedFacts ==
  ASSUME IInv, NEW n \in Name, fresh[n] = NoCopy,
         NEW c \in Copy, c.stem = n.stem, c.ext = n.ext,
         c.stamp = CopyOf(n).stamp, c.dup = CopyOf(n).dup
  PROVE  /\ Added(store, c) = store \cup {c}
         /\ c \notin store
         /\ IsFiniteSet(Added(store, c))
         /\ Added(store, c) \subseteq Copy
         /\ NamesDiffer(Added(store, c))
<1>1. \A v \in store :
        <<v.stem, v.ext, v.stamp, v.dup>> # <<c.stem, c.ext, c.stamp, c.dup>>
  <2>1. \A v \in store : <<v.stem, v.ext, v.stamp, v.dup>>
          # <<n.stem, n.ext, CopyOf(n).stamp, CopyOf(n).dup>>
    BY CopyOfFacts
  <2> QED
    BY ONLY <2>1, c.stem = n.stem, c.ext = n.ext,
            c.stamp = CopyOf(n).stamp, c.dup = CopyOf(n).dup
<1>2. Added(store, c) = store \cup {c}
  BY <1>1 DEF Added
<1>3. c \notin store
  BY <1>1
<1>4. IsFiniteSet(store \cup {c})
  BY FS_AddElement DEF IInv
<1>5. NamesDiffer(store \cup {c})
  <2>1. NamesDiffer(store)
    BY DEF IInv, TypeOK, NamesDiffer
  <2> QED
    BY ONLY <1>1, <2>1 DEF NamesDiffer
<1>6. store \cup {c} \subseteq Copy
  BY DEF IInv, TypeOK
<1> QED
  BY ONLY <1>2, <1>3, <1>4, <1>5, <1>6

\* Pruning leaves at most Keep copies of the file it is for: of those it
\* leaves, all but the earliest come after the earliest.
LEMMA PrunedKeeps ==
  ASSUME NEW n, NEW s \in SUBSET Copy, IsFiniteSet(s), NamesDiffer(s)
  PROVE  /\ IsFiniteSet(Of(n, s \ Excess(n, s)))
         /\ Cardinality(Of(n, s \ Excess(n, s))) <= Keep
<1> DEFINE S == Of(n, s \ Excess(n, s))
<1>1. S \subseteq s /\ S \subseteq Listed(n, s) /\ \A v \in S : v.ext = n.ext
  BY DEF Of, Excess, Listed
<1>2. IsFiniteSet(S) /\ Cardinality(S) \in Nat
  BY <1>1, FS_Subset, FS_CardinalityType
<1>3. CASE S = {}
  BY <1>3, FS_EmptySet
<1>4. CASE S # {}
  <2>1. \A v \in S : Rank(n, v) \in Nat
    BY <1>1, RankFacts
  <2> DEFINE ranks == {Rank(n, v) : v \in S}
  <2>2. ranks \in SUBSET Nat /\ ranks # {}
    BY <1>4, <2>1
  <2> HIDE DEF ranks
  <2>3. PICK r \in ranks : \A q \in ranks : r <= q
    BY <2>2, LeastNumber
  <2> USE DEF ranks
  <2>4. PICK v \in S : \A w \in S : Rank(n, v) <= Rank(n, w)
    BY <2>3
  <2> HIDE DEF ranks
  <2> DEFINE T == {w \in Listed(n, s) : Later(n, w, v)}
  <2>5. v \in Listed(n, s) /\ v \notin Excess(n, s)
    BY <1>1, <2>4 DEF Of
  <2>6. /\ IsFiniteSet(T) /\ Cardinality(T) \in Nat
        /\ Cardinality(T) < Keep
    <3>1. IsFiniteSet(T) /\ Cardinality(T) \in Nat
      BY FS_Subset, FS_CardinalityType DEF Listed
    <3>2. ~ (Cardinality(T) >= Keep)
      BY <2>5 DEF Excess
    <3> QED
      BY <3>1, <3>2
  <2>7. S \ {v} \subseteq T
    <3> SUFFICES ASSUME NEW w \in S, w # v PROVE Later(n, w, v)
      BY <1>1
    <3>1. v \in Copy /\ w \in Copy /\ v.ext = w.ext /\ v.stem = w.stem
      BY <1>1, <2>4 DEF Of
    <3>2. Rank(n, v) # Rank(n, w)
      <4>1. v \in s /\ w \in s /\ v # w
        BY <1>1, <2>4
      <4>2. ~ (v.stamp = w.stamp /\ v.dup = w.dup)
        BY <3>1, <4>1 DEF NamesDiffer
      <4> QED
        BY <3>1, <4>2, RankFacts
    <3>3. Rank(n, v) \in Nat /\ Rank(n, w) \in Nat
      BY <2>1, <2>4
    <3> QED
      BY <2>4, <3>2, <3>3 DEF Later
  <2> HIDE DEF S, T
  <2>8. Cardinality(S \ {v}) = Cardinality(S) - 1
    BY <1>2, <2>4, FS_RemoveElement
  <2>9. Cardinality(S \ {v}) <= Cardinality(T)
    BY <2>6, <2>7, FS_Subset
  <2>10. Cardinality(S) <= Keep
    BY <1>2, <2>6, <2>8, <2>9
  <2> QED
    BY <1>2, <2>10 DEF S
<1> QED
  BY <1>2, <1>3, <1>4

-----------------------------------------------------------------------------
(* Steps *)

LEMMA InitIInv ==
  ASSUME Init PROVE IInv
<1>1. 0 \in Second /\ 0 \in 0 .. MaxPrunes /\ 0 \in 0 .. MaxStops
  BY BoundAssumption DEF Second
<1>2. TypeOK
  BY <1>1 DEF Init, TypeOK
<1>3. \A n \in Name : Whole(n, store) = {}
  BY DEF Init, Whole, Of
<1>4. AtMostKeep
  BY <1>2, <1>3, FS_EmptySet, AtMostKeepIs, AllowedIsNat
<1> QED
  BY <1>2, <1>4, FS_EmptySet DEF Init, IInv, OneTorn

\* The complete copies of m do not become more when the store does not grow.
LEMMA NoMore ==
  ASSUME IInv, NEW m \in Name, Whole(m, store') \subseteq Whole(m, store)
  PROVE  /\ IsFiniteSet(Whole(m, store'))
         /\ Cardinality(Whole(m, store')) \in Nat
         /\ Cardinality(Whole(m, store')) <= Cardinality(Whole(m, store))
         /\ Cardinality(Whole(m, store)) \in Nat
         /\ Cardinality(Whole(m, store)) <= Allowed(m)
<1>1. IsFiniteSet(Whole(m, store))
  BY FS_Subset DEF IInv, Whole, Of
<1>2. Cardinality(Whole(m, store)) <= Allowed(m)
  BY AtMostKeepIs DEF IInv
<1> QED
  BY <1>1, <1>2, FS_Subset, FS_CardinalityType

LEMMA ArchiveIInv ==
  ASSUME IInv, NEW n \in Name, Archive(n)
  PROVE  IInv'
<1> DEFINE c == CopyOf(n)
<1>1. /\ fresh[n] = NoCopy /\ fresh' = [fresh EXCEPT ![n] = c]
      /\ store' = Added(store, c) /\ UNCHANGED <<mtime, stops, clock, prunes>>
  BY DEF Archive
<1>2. /\ c \in Copy /\ c.stem = n.stem /\ c.ext = n.ext
      /\ c.whole /\ c # NoCopy
  BY <1>1, CopyOfFacts
<1>3. /\ store' = store \cup {c} /\ c \notin store
      /\ IsFiniteSet(store') /\ store' \subseteq Copy /\ NamesDiffer(store')
  BY <1>1, <1>2, AddedFacts
<1> HIDE DEF c
<1>4. TypeOK'
  BY <1>1, <1>2, <1>3 DEF IInv, TypeOK, NamesDiffer
<1>5. OneTorn'
  BY <1>2, <1>3 DEF IInv, OneTorn
<1>6. ASSUME NEW m \in Name
      PROVE  Cardinality(Whole(m, store')) <= Allowed(m)'
  <2>1. CASE m = n
    <3>1. Whole(m, store') = Whole(m, store) \cup {c}
      BY <1>2, <1>3, <2>1 DEF Whole, Of
    <3>2. /\ IsFiniteSet(Whole(m, store))
          /\ Cardinality(Whole(m, store)) <= Allowed(m)
          /\ Cardinality(Whole(m, store)) \in Nat
      <4>1. IsFiniteSet(Whole(m, store))
        BY FS_Subset DEF IInv, Whole, Of
      <4> QED
        BY <4>1, FS_CardinalityType, AtMostKeepIs DEF IInv
    <3>3. c \notin Whole(m, store)
      BY <1>3 DEF Whole, Of
    <3>4. Cardinality(Whole(m, store')) = Cardinality(Whole(m, store)) + 1
      BY <3>1, <3>2, <3>3, FS_AddElement
    <3>5. stops[m] \in Nat
      BY DEF IInv, TypeOK
    <3>6. Allowed(m) = Keep + stops[m] /\ Allowed(m)' = Keep + stops[m] + 1
      BY <1>1, <1>2, <2>1, <3>5 DEF Allowed, IInv, TypeOK
    <3> QED
      BY <3>2, <3>4, <3>5, <3>6
  <2>2. CASE m # n
    <3>1. ~(m.stem = n.stem /\ m.ext = n.ext)
      BY <2>2, NameAssumption
    <3>2. Whole(m, store') \subseteq Whole(m, store)
      BY <1>2, <1>3, <3>1 DEF Whole, Of
    <3>3. Allowed(m)' = Allowed(m)
      BY <1>1, <2>2 DEF Allowed, IInv, TypeOK
    <3> QED
      BY <3>2, <3>3, NoMore, AllowedIsNat DEF IInv
  <2> QED
    BY <2>1, <2>2
<1>7. AtMostKeep'
  BY <1>6, AtMostKeepIs
<1> QED
  BY <1>3, <1>4, <1>5, <1>7 DEF IInv

LEMMA FailsIInv ==
  ASSUME IInv, NEW n \in Name, ArchiveFails(n)
  PROVE  IInv'
<1> DEFINE c == [CopyOf(n) EXCEPT !.whole = FALSE]
<1>1. /\ fresh[n] = NoCopy /\ \A v \in store : v.whole
      /\ store' = Added(store, c)
      /\ UNCHANGED <<mtime, fresh, stops, clock, prunes>>
  BY DEF ArchiveFails
<1>2. /\ c \in Copy /\ c.stem = n.stem /\ c.ext = n.ext
      /\ c.stamp = CopyOf(n).stamp /\ c.dup = CopyOf(n).dup
      /\ ~c.whole
  BY <1>1, CopyOfFacts DEF CopyOf
<1> HIDE DEF c
<1>3. /\ store' = store \cup {c}
      /\ IsFiniteSet(store') /\ store' \subseteq Copy /\ NamesDiffer(store')
  BY <1>1, <1>2, AddedFacts
<1>4. TypeOK'
  BY <1>1, <1>3 DEF IInv, TypeOK, NamesDiffer
<1>5. OneTorn'
  BY <1>1, <1>3 DEF OneTorn
<1>6. \A m \in Name : /\ Whole(m, store') \subseteq Whole(m, store)
                       /\ Allowed(m)' = Allowed(m)
  BY <1>1, <1>2, <1>3 DEF Whole, Of, Allowed
<1>7. \A m \in Name : Cardinality(Whole(m, store')) <= Allowed(m)'
  BY <1>6, NoMore, AllowedIsNat DEF IInv
<1>8. AtMostKeep'
  BY <1>7, AtMostKeepIs
<1> QED
  BY <1>3, <1>4, <1>5, <1>8 DEF IInv

\* Whatever a pruning drops, only AtMostKeep is in question.
LEMMA ShrinkIInv ==
  ASSUME IInv, store' \subseteq store, TypeOK',
         \A m \in Name : Cardinality(Whole(m, store')) <= Allowed(m)'
  PROVE  IInv'
<1>1. IsFiniteSet(store')
  BY FS_Subset DEF IInv
<1>2. OneTorn'
  BY DEF IInv, OneTorn
<1>3. AtMostKeep'
  BY AtMostKeepIs
<1> QED
  BY <1>1, <1>2, <1>3 DEF IInv

LEMMA OverwriteIInv ==
  ASSUME IInv, NEW n \in Name, Overwrite(n)
  PROVE  IInv'
<1>1. /\ fresh' = [fresh EXCEPT ![n] = NoCopy]
      /\ store' = store \ Excess(n, store)
      /\ stops' = [stops EXCEPT ![n] = 0]
      /\ prunes < MaxPrunes /\ prunes' = prunes + 1 /\ clock' = clock
      /\ mtime' = [mtime EXCEPT ![n] = clock] \/ mtime' = mtime
  BY DEF Overwrite
<1>2. TypeOK'
  <2>1. prunes' \in 0 .. MaxPrunes
    BY <1>1, BoundAssumption DEF IInv, TypeOK
  <2>2. (mtime \in [Name -> Second])'
    BY <1>1 DEF IInv, TypeOK
  <2>3. stops' \in [Name -> 0 .. MaxStops] /\ fresh' \in [Name -> Copy \cup {NoCopy}]
    BY <1>1 DEF IInv, TypeOK
  <2> QED
    BY <1>1, <2>1, <2>2, <2>3 DEF IInv, TypeOK
<1>3. ASSUME NEW m \in Name
      PROVE  Cardinality(Whole(m, store')) <= Allowed(m)'
  <2>1. CASE m = n
    <3>1. NamesDiffer(store)
      BY DEF IInv, TypeOK, NamesDiffer
    <3>2. /\ IsFiniteSet(Of(n, store')) /\ Cardinality(Of(n, store')) <= Keep
      BY <1>1, <3>1, PrunedKeeps DEF IInv, TypeOK
    <3>3. Whole(m, store') \subseteq Of(n, store')
      BY <2>1 DEF Whole
    <3>4. /\ Cardinality(Whole(m, store')) <= Cardinality(Of(n, store'))
          /\ Cardinality(Whole(m, store')) \in Nat
          /\ Cardinality(Of(n, store')) \in Nat
      BY <3>2, <3>3, FS_Subset, FS_CardinalityType
    <3>5. Allowed(m)' \in Nat /\ Allowed(m)' >= Keep
      BY <1>2, AllowedStaysNat
    <3> QED
      BY <3>2, <3>4, <3>5
  <2>2. CASE m # n
    <3>1. Whole(m, store') \subseteq Whole(m, store)
      BY <1>1 DEF Whole, Of
    <3>2. Allowed(m)' = Allowed(m)
      BY <1>1, <2>2 DEF Allowed, IInv, TypeOK
    <3> QED
      BY <3>1, <3>2, NoMore, AllowedIsNat DEF IInv
  <2> QED
    BY <2>1, <2>2
<1> QED
  BY <1>1, <1>2, <1>3, ShrinkIInv

LEMMA StopsIInv ==
  ASSUME IInv, NEW n \in Name, PruneStops(n)
  PROVE  IInv'
<1>1. /\ fresh[n] # NoCopy /\ fresh' = [fresh EXCEPT ![n] = NoCopy]
      /\ stops[n] < MaxStops /\ stops' = [stops EXCEPT ![n] = @ + 1]
      /\ store' \subseteq store
      /\ UNCHANGED <<mtime, clock, prunes>>
  BY DEF PruneStops
<1>2. TypeOK'
  BY <1>1 DEF IInv, TypeOK
<1>3. ASSUME NEW m \in Name
      PROVE  Cardinality(Whole(m, store')) <= Allowed(m)'
  <2>1. Whole(m, store') \subseteq Whole(m, store)
    BY <1>1 DEF Whole, Of
  <2>2. stops[m] \in Nat
    BY DEF IInv, TypeOK
  <2>3. Allowed(m)' = Allowed(m)
    <3>1. CASE m = n
      <4>1. Allowed(m) = Keep + stops[m] + 1
        BY <1>1, <3>1 DEF Allowed
      <4>2. Allowed(m)' = Keep + (stops[m] + 1) + 0
        BY <1>1, <3>1 DEF Allowed, IInv, TypeOK
      <4> QED
        BY <2>2, <4>1, <4>2
    <3>2. CASE m # n
      BY <1>1, <3>2 DEF Allowed, IInv, TypeOK
    <3> QED
      BY <3>1, <3>2
  <2> QED
    BY <2>1, <2>3, NoMore, AllowedIsNat DEF IInv
<1> QED
  BY <1>1, <1>2, <1>3, ShrinkIInv

LEMMA SameStore ==
  ASSUME IInv, TypeOK', UNCHANGED <<store, fresh, stops>>
  PROVE  IInv'
BY DEF IInv, OneTorn, AtMostKeep, CopiesOf

LEMMA StepIInv == IInv /\ [Next]_vars => IInv'
<1> SUFFICES ASSUME IInv, [Next]_vars PROVE IInv'
  OBVIOUS
<1>1. CASE \E n \in Name : Archive(n)
  BY <1>1, ArchiveIInv
<1>2. CASE \E n \in Name : ArchiveFails(n)
  BY <1>2, FailsIInv
<1>3. CASE \E n \in Name : Overwrite(n)
  BY <1>3, OverwriteIInv
<1>4. CASE \E n \in Name : PruneStops(n)
  BY <1>4, StopsIInv
<1>5. ASSUME NEW n \in Name, Edit(n) \/ Restore(n) PROVE IInv'
  <2>1. /\ UNCHANGED <<store, fresh, stops, clock, prunes>>
        /\ \E t \in 0 .. clock : mtime' = [mtime EXCEPT ![n] = t]
    BY <1>5 DEF Edit, Restore, IInv, TypeOK, Second
  <2>2. \A t \in 0 .. clock : t \in Second
    BY BoundAssumption DEF IInv, TypeOK, Second
  <2>3. TypeOK'
    BY <2>1, <2>2 DEF IInv, TypeOK
  <2> QED
    BY <2>1, <2>3, SameStore
<1>6. CASE Tick
  <2>1. clock' \in Second
    BY <1>6, BoundAssumption DEF Tick, IInv, TypeOK, Second
  <2>2. TypeOK'
    BY <1>6, <2>1 DEF Tick, IInv, TypeOK
  <2> QED
    BY <1>6, <2>2, SameStore DEF Tick
<1>7. CASE UNCHANGED vars
  BY <1>7, SameStore DEF vars, IInv, TypeOK
<1> QED
  BY <1>1, <1>2, <1>3, <1>4, <1>5, <1>6, <1>7 DEF Next

-----------------------------------------------------------------------------
(* Theorems *)

THEOREM Invariance == Spec => []IInv
<1>1. Init => IInv
  BY InitIInv
<1> QED
  BY <1>1, StepIInv, PTL DEF Spec

\* Times, store, copies to be pruned and counters keep their types, and no two
\* copies ever have one name, so archiving (Store.Archive) never writes over a
\* copy.
THEOREM TypeCorrect == Spec => []TypeOK
<1>1. IInv => TypeOK
  BY DEF IInv
<1> QED
  BY <1>1, Invariance, PTL

\* A file has Keep complete copies and at most one more for each pruning that is
\* to come or was cut short since its list was last pruned (Store.Archive,
\* Store.prune), whatever files share its stem and however many copies broke
\* off.
THEOREM AtMostKeepHolds == Spec => []AtMostKeep
<1>1. IInv => AtMostKeep
  BY DEF IInv
<1> QED
  BY <1>1, Invariance, PTL

\* A copy goes from the store by pruning only, as one of the excess of a list.
LEMMA GoesByPrune ==
  ASSUME [Next]_vars, IInv, NEW v \in store \ store'
  PROVE  \E n \in Name : v \in Excess(n, store)
<1>1. ASSUME NEW n \in Name, Archive(n) PROVE FALSE
  <2> DEFINE c == CopyOf(n)
  <2>1. fresh[n] = NoCopy /\ store' = Added(store, c)
    BY <1>1 DEF Archive
  <2>2. c \in Copy /\ c.stem = n.stem /\ c.ext = n.ext
    BY <2>1, CopyOfFacts
  <2> QED
    BY <2>1, <2>2, AddedFacts
<1>2. ASSUME NEW n \in Name, ArchiveFails(n) PROVE FALSE
  <2> DEFINE c == [CopyOf(n) EXCEPT !.whole = FALSE]
  <2>1. fresh[n] = NoCopy /\ store' = Added(store, c)
    BY <1>2 DEF ArchiveFails
  <2>2. /\ c \in Copy /\ c.stem = n.stem /\ c.ext = n.ext
        /\ c.stamp = CopyOf(n).stamp /\ c.dup = CopyOf(n).dup
    BY <2>1, CopyOfFacts DEF CopyOf
  <2> HIDE DEF c
  <2> QED
    BY <2>1, <2>2, AddedFacts
<1>3. ASSUME NEW n \in Name, Overwrite(n) \/ PruneStops(n)
      PROVE  v \in Excess(n, store)
  BY <1>3 DEF Overwrite, PruneStops
<1>4. CASE UNCHANGED store
  BY <1>4
<1> QED
  BY <1>1, <1>2, <1>3, <1>4 DEF Next, vars, Edit, Restore, Tick

\* A completed pruning (Store.prune) drops the copies of a file from the oldest
\* on.
THEOREM DropsOldestHolds == Spec => DropsOldest
<1>1. ASSUME IInv, NEW n \in Name, Overwrite(n),
             NEW v \in store \ store', NEW w \in store',
             v.stem = w.stem, v.ext = w.ext
      PROVE  v.stamp <= w.stamp
  <2>1. /\ store' = store \ Excess(n, store)
        /\ IsFiniteSet(store) /\ store \subseteq Copy
    BY <1>1 DEF Overwrite, IInv, TypeOK
  <2> DEFINE after(u) == {x \in Listed(n, store) : Later(n, x, u)}
  <2>2. v \in Excess(n, store) /\ w \in store /\ w \notin Excess(n, store)
    BY <1>1, <2>1
  <2>3. v \in Listed(n, store) /\ Cardinality(after(v)) >= Keep
    BY <2>2 DEF Excess
  <2>4. w \in Listed(n, store)
    BY <1>1, <2>2, <2>3 DEF Listed
  <2>5. ~ (Cardinality(after(w)) >= Keep)
    BY <2>2, <2>4 DEF Excess
  <2>6. v \in Copy /\ w \in Copy /\ v.stamp \in Nat /\ w.stamp \in Nat
    BY <2>1, <2>3, <2>4, BoundAssumption DEF Listed, Copy, Second
  <2>7. SUFFICES ASSUME v.stamp > w.stamp PROVE FALSE
    BY <2>6
  <2>8. /\ Rank(n, v) > Rank(n, w)
        /\ Rank(n, v) \in Nat /\ Rank(n, w) \in Nat
    BY <1>1, <2>6, <2>7, RankFacts
  <2>9. \A x \in Listed(n, store) : Rank(n, x) \in Nat
    BY <2>1, RankFacts DEF Listed
  <2>10. after(v) \subseteq after(w)
    BY <2>8, <2>9 DEF Later
  <2>11. IsFiniteSet(after(v)) /\ IsFiniteSet(after(w))
    BY <2>1, FS_Subset DEF Listed
  <2> HIDE DEF after
  <2>12. /\ Cardinality(after(v)) <= Cardinality(after(w))
         /\ Cardinality(after(v)) \in Nat /\ Cardinality(after(w)) \in Nat
    BY <2>10, <2>11, FS_Subset, FS_CardinalityType
  <2> QED
    BY <2>3, <2>5, <2>12
<1>2. IInv /\ [Next]_vars
        => [\A n \in Name : Overwrite(n) =>
              \A v \in store \ store', w \in store' :
                v.stem = w.stem /\ v.ext = w.ext => v.stamp <= w.stamp]_vars
  BY <1>1
<1> QED
  BY <1>2, Invariance, PTL DEF Spec, DropsOldest

\* A copy goes from a list of more than Keep only, for Keep listed copies come
\* after it, also when the pruning is cut short.
THEOREM DropsOnlyWhenFullHolds == Spec => DropsOnlyWhenFull
<1>1. ASSUME IInv, [Next]_vars, NEW v \in store \ store'
      PROVE  \E n \in Name : /\ v \in Listed(n, store)
                             /\ Cardinality(Listed(n, store)) > Keep
  <2>1. PICK n \in Name : v \in Excess(n, store)
    BY <1>1, GoesByPrune
  <2> DEFINE L == Listed(n, store)
             T == {x \in L : Later(n, x, v)}
  <2>2. v \in L /\ Cardinality(T) >= Keep
    BY <2>1 DEF Excess
  <2>3. v \notin T
    <3>1. v \in Copy
      BY <1>1 DEF IInv, TypeOK
    <3>2. Rank(n, v) \in Nat
      BY <3>1, RankFacts
    <3>3. ExtPlace[v.ext] \in Nat
      BY <3>1, ExtAssumption DEF Copy
    <3> QED
      BY <3>2, <3>3 DEF Later
  <2>4. IsFiniteSet(L) /\ T \subseteq L
    BY <1>1, FS_Subset DEF Listed, IInv
  <2> HIDE DEF T, L
  <2>5. IsFiniteSet(T)
    BY <2>4, FS_Subset
  <2>6. Cardinality(T \cup {v}) = Cardinality(T) + 1
    BY <2>3, <2>5, FS_AddElement
  <2>7. Cardinality(T \cup {v}) <= Cardinality(L)
    BY <2>2, <2>4, FS_Subset
  <2>8. Cardinality(T) \in Nat /\ Cardinality(L) \in Nat
    BY <2>4, <2>5, FS_CardinalityType
  <2>9. Cardinality(L) > Keep
    BY <2>2, <2>6, <2>7, <2>8
  <2> QED
    BY <2>2, <2>9 DEF L
<1>2. IInv /\ [Next]_vars
        => [\A v \in store \ store' : \E n \in Name :
              v \in Listed(n, store) /\ Cardinality(Listed(n, store)) > Keep]_vars
  BY <1>1
<1> QED
  BY <1>2, Invariance, PTL DEF Spec, DropsOnlyWhenFull

=============================================================================
