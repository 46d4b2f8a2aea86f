----------------------------- MODULE Versioning -----------------------------
(***************************************************************************)
(* The version store of one folder (versioning.Store), and the files that  *)
(* it keeps copies of.                                                     *)
(*                                                                         *)
(* A stored copy of stem.ext is named stem~stamp.ext or stem~stamp-k.ext,  *)
(* where stamp is the file's modification time to the second and k counts  *)
(* up until the name is free.  Listing goes by prefix and suffix, pruning  *)
(* by the text between them.                                               *)
(*                                                                         *)
(* Archiving copies, then prunes: the process may stop in between, and the *)
(* removal of a file may fail.  Each file has its own round at work on it, *)
(* and the rounds interleave.                                              *)
(***************************************************************************)
EXTENDS Integers, FiniteSets, FiniteSetsExt

CONSTANTS
  Name,       \* file names: records [stem, ext]
  NoExt,      \* the ext of a name without one
  ExtPlace,   \* ExtPlace[e]: where e comes in the string order of extensions
  Keep,       \* Store.keep
  MaxSecond,  \* bound: how far the wall clock runs
  MaxPrunes,  \* bound: how many prunings are completed
  MaxStops    \* bound: how many prunings of a file in a row are cut short

Second  == 0 .. MaxSecond
Dup     == 0 .. Keep + MaxStops + 1

ASSUME NameAssumption ==
  \A m, n \in Name : m.stem = n.stem /\ m.ext = n.ext => m = n

\* Rank knows the order of the suffixes up to "-19".
ASSUME KeepAssumption ==
  Keep \in Nat \ {0} /\ MaxStops \in Nat /\ Keep + MaxStops <= 18
ASSUME BoundAssumption == MaxSecond \in Nat /\ MaxPrunes \in Nat
ASSUME ExtAssumption == ExtPlace \in [{n.ext : n \in Name} -> Nat]

VARIABLES
  mtime,  \* mtime[n]: the modification time of the file at n
  store,  \* the stored copies: [stem, ext, stamp, dup, whole]
  fresh,  \* fresh[n]: the copy just made of n, whose pruning is to come
  stops,  \* stops[n]: how many prunings for n were cut short since the last
          \* that was not (a ghost: nothing in the code knows it)
  clock,
  prunes  \* how many prunings were completed

vars == <<mtime, store, fresh, stops, clock, prunes>>

Copy == [stem: {n.stem : n \in Name}, ext: {n.ext : n \in Name},
         stamp: Second, dup: Dup, whole: BOOLEAN]

NoCopy == [stem |-> "none"]

Init ==
  /\ mtime = [n \in Name |-> 0]
  /\ store = {}
  /\ fresh = [n \in Name |-> NoCopy]
  /\ stops = [n \in Name |-> 0]
  /\ clock = 0
  /\ prunes = 0

\* The copies that are really n's.
CopiesOf(n) == {v \in store : v.stem = n.stem /\ v.ext = n.ext}

\* The stored names that begin with "stem~" and end with ext: without an ext
\* to end with, those of every file with this stem.  Left out: files whose own
\* stem begins with "stem~", whose copies are listed here too.
Listed(n, s) ==
  {v \in s : v.stem = n.stem /\ (n.ext = NoExt \/ v.ext = n.ext)}

\* Where a copy comes in the string order of what lies between prefix and
\* suffix: "S" < "S-1" < "S-1.txt" < "S-10" < "S-2" < "S.txt".
Rank(n, v) ==
  LET bare  == v.ext = n.ext
      place == CASE v.dup = 0 -> IF bare THEN 0 ELSE 99
                 [] v.dup = 1 -> IF bare THEN 2 ELSE 3
                 [] v.dup >= 10 -> 4 + 2 * (v.dup - 10) + IF bare THEN 0 ELSE 1
                 [] OTHER -> 30 + 2 * v.dup + IF bare THEN 0 ELSE 1
  IN  100 * v.stamp + place

\* Versions sorts the stamps it has cut out: w comes before v.
Later(n, w, v) ==
  \/ Rank(n, w) > Rank(n, v)
  \/ Rank(n, w) = Rank(n, v) /\ ExtPlace[w.ext] > ExtPlace[v.ext]

\* Mutant of Excess: one copy too many is spared.
ExcessLate(n, s) ==
  LET listed == Listed(n, s)
  IN  {v \in listed :
         Cardinality({w \in listed : Later(n, w, v)}) > Keep}

\* Mutant of Excess: sorted the wrong way round.
ExcessNewest(n, s) ==
  LET listed == Listed(n, s)
  IN  {v \in listed :
         Cardinality({w \in listed : Later(n, v, w)}) >= Keep}

\* What pruning removes of n's listed copies in s: all but the Keep last.
Excess(n, s) ==
  LET listed == Listed(n, s)
  IN  {v \in listed :
         Cardinality({w \in listed : Later(n, w, v)}) >= Keep}

\* Mutant of FreeDup: the stamp is taken as it is.
FreeDupIgnored(n, stamp) == 0

\* The first k for which stem~stamp-k.ext does not exist.
FreeDup(n, stamp) ==
  Min({k \in Dup : \A v \in CopiesOf(n) : v.stamp = stamp => v.dup # k})

\* The copy that archiving n makes now.
CopyOf(n) ==
  [stem |-> n.stem, ext |-> n.ext, stamp |-> mtime[n],
   dup |-> FreeDup(n, mtime[n]), whole |-> TRUE]

\* Mutant of Added: every copy is named by the plain stamp.
AddedBeside(s, v) == s \cup {[v EXCEPT !.dup = 0]}

\* Write the copy; a file of that name would be overwritten.
Added(s, v) ==
  {w \in s : <<w.stem, w.ext, w.stamp, w.dup>>
               # <<v.stem, v.ext, v.stamp, v.dup>>} \cup {v}

\* Sync is about to replace n, and the version store copies what is there.
Archive(n) ==
  /\ fresh[n] = NoCopy
  /\ fresh' = [fresh EXCEPT ![n] = CopyOf(n)]
  /\ store' = Added(store, CopyOf(n))
  /\ UNCHANGED <<mtime, stops, clock, prunes>>

\* Copying breaks off (disk full, the process stops): the incomplete copy
\* stays, nothing is pruned, and the pull of this file fails.  Bound: one such
\* copy at a time.
ArchiveFails(n) ==
  /\ fresh[n] = NoCopy
  /\ \A v \in store : v.whole
  /\ store' = Added(store, [CopyOf(n) EXCEPT !.whole = FALSE])
  /\ UNCHANGED <<mtime, fresh, stops, clock, prunes>>

\* The list is pruned, and the pulled file is renamed into place, unless the
\* process stops before that or the renaming fails.
Overwrite(n) ==
  /\ fresh[n] # NoCopy
  /\ fresh' = [fresh EXCEPT ![n] = NoCopy]
  /\ store' = store \ Excess(n, store)
  /\ stops' = [stops EXCEPT ![n] = 0]
  /\ prunes < MaxPrunes
  /\ prunes' = prunes + 1
  /\ \/ mtime' = [mtime EXCEPT ![n] = clock]
     \/ UNCHANGED mtime
  /\ UNCHANGED clock

\* The process stops before or while it prunes, or a removal fails: from the
\* last of the list's excess on, some are gone and the rest stays.  The pull of
\* this file fails.
PruneStops(n) ==
  /\ fresh[n] # NoCopy
  /\ stops[n] < MaxStops
  /\ fresh' = [fresh EXCEPT ![n] = NoCopy]
  /\ stops' = [stops EXCEPT ![n] = @ + 1]
  /\ LET excess == Excess(n, store)
     IN  \E gone \in SUBSET excess :
           /\ \A v \in gone, w \in excess \ gone : ~Later(n, w, v)
           /\ store' = store \ gone
  /\ UNCHANGED <<mtime, clock, prunes>>

\* The user writes n; tools that keep modification times make it any second.
Edit(n) ==
  /\ \E t \in 0 .. clock : mtime' = [mtime EXCEPT ![n] = t]
  /\ UNCHANGED <<store, fresh, stops, clock, prunes>>

\* Store.Restore: copy a listed version over the file.  What was there is not
\* archived.
Restore(n) ==
  /\ Listed(n, store) # {}
  /\ mtime' = [mtime EXCEPT ![n] = clock]
  /\ UNCHANGED <<store, fresh, stops, clock, prunes>>

Tick ==
  /\ clock < MaxSecond
  /\ clock' = clock + 1
  /\ UNCHANGED <<mtime, store, fresh, stops, prunes>>

Next ==
  \/ \E n \in Name : \/ Archive(n) \/ ArchiveFails(n)
                     \/ Overwrite(n) \/ PruneStops(n)
                     \/ Restore(n) \/ Edit(n)
  \/ Tick

Spec == Init /\ [][Next]_vars

-----------------------------------------------------------------------------

\* The stored names are distinct.
TypeOK ==
  /\ mtime \in [Name -> Second]
  /\ store \subseteq Copy
  /\ fresh \in [Name -> Copy \cup {NoCopy}]
  /\ stops \in [Name -> 0 .. MaxStops]
  /\ clock \in Second /\ prunes \in 0 .. MaxPrunes
  /\ \A v, w \in store :
       <<v.stem, v.ext, v.stamp, v.dup>> = <<w.stem, w.ext, w.stamp, w.dup>>
         => v = w

\* A file has more than Keep complete copies only for prunings that are to come
\* (Store.Archive has copied and not pruned) or were cut short (it stopped in
\* between, or os.Remove failed), one copy for each; the next pruning that is
\* not cut short makes good for all of them, however the copies of the file,
\* those of files that share its stem and incomplete ones came and went.
AtMostKeep ==
  \A n \in Name :
    Cardinality({v \in CopiesOf(n) : v.whole})
      <= Keep + stops[n] + (IF fresh[n] # NoCopy THEN 1 ELSE 0)

\* Pruning (Store.prune) drops the copies of the oldest files: none that goes
\* is newer than one of the same file that stays.  A pruning that is cut short
\* has dropped from the newest of the excess on, so it may have left older ones.
DropsOldest ==
  [][\A n \in Name : Overwrite(n) =>
       \A v \in store \ store', w \in store' :
         v.stem = w.stem /\ v.ext = w.ext => v.stamp <= w.stamp]_vars

\* A copy goes only from a list of more than Keep, also when the pruning is cut
\* short; archiving (Store.uniquePath) never writes over an earlier copy,
\* however many files were replaced within one second.
DropsOnlyWhenFull ==
  [][\A v \in store \ store' : \E n \in Name :
       v \in Listed(n, store) /\ Cardinality(Listed(n, store)) > Keep]_vars

(* What the documentation promises and the code does not do *)

\* Once sync has replaced a file, the version store has what was replaced:
\* "an incoming change never silently discards the previous content".
ReplacedIsStored ==
  [][\A n \in Name : Overwrite(n) => fresh[n] \in store']_vars

\* Pruning is per file: "pruning to a configurable maximum number of versions
\* per file".
PrunesOwnCopies ==
  [][\A n \in Name : Overwrite(n) =>
       \A v \in store \ store' : v.stem = n.stem /\ v.ext = n.ext]_vars
=============================================================================
