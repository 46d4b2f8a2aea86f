------------------------------ MODULE Chunker ------------------------------
(***************************************************************************)
(* Chunker.Split: a file is read through a buffer of MaxSize bytes and cut *)
(* into blocks where a rolling fingerprint of the block's bytes is zero in *)
(* its low bits.  Two devices find equal blocks only if they cut equal     *)
(* files alike, however many bytes each call of Read happens to return.    *)
(***************************************************************************)
EXTENDS Integers, Sequences, FiniteSetsExt

CONSTANTS
  Byte,
  Gear,     \* Gear[b]: the table's entry, modulo AvgSize
  MinSize,  \* Config.Min
  AvgSize,  \* Config.Avg, a power of two: the mask is AvgSize - 1
  MaxSize,  \* Config.Max
  MaxFile   \* bound: the longest file

\* Config.Validate.
ASSUME ConfigAssumption ==
  /\ MinSize \in Nat \ {0} /\ AvgSize \in Nat /\ MaxSize \in Nat
  /\ MinSize <= AvgSize /\ AvgSize <= MaxSize
  /\ \E k \in 0 .. AvgSize : AvgSize = 2^k
  /\ Gear \in [Byte -> 0 .. AvgSize - 1]
  /\ MaxFile \in Nat

VARIABLES
  file,    \* the bytes the reader delivers
  taken,   \* how many of them it has delivered
  eof,     \* it has reported the end
  buf,     \* buf[:filled]
  offset,  \* where buf begins in the file
  chunks,  \* the Chunks handed to fn, their hashes left out
  pc       \* "run", "done", "failed"

vars == <<file, taken, eof, buf, offset, chunks, pc>>

File  == UNION {[1 .. n -> Byte] : n \in 0 .. MaxFile}
Chunk == [offset : 0 .. MaxFile, length : 1 .. MaxSize]

Init ==
  /\ file \in File
  /\ taken = 0 /\ eof = FALSE
  /\ buf = <<>> /\ offset = 0
  /\ chunks = <<>>
  /\ pc = "run"

\* fp after each byte of data.  The shift loses no bit of the mask and the sum
\* wraps at 2^64, a multiple of AvgSize.
Fingerprint(data) ==
  LET fp[i \in 0 .. Len(data)] ==
        IF i = 0 THEN 0 ELSE (2 * fp[i - 1] + Gear[data[i]]) % AvgSize
  IN  fp

\* Chunker.boundary of a full buffer, or of the file's last bytes.
Boundary(data) ==
  LET n == Len(data)
      fp == Fingerprint(data)
      zeros == {i \in MinSize .. n : fp[i] = 0}
  IN  IF n <= MinSize \/ zeros = {} THEN n ELSE Min(zeros)

Full == eof \/ Len(buf) = MaxSize

\* Read returns some bytes, as many as it likes, and perhaps the end with them.
Read ==
  /\ pc = "run" /\ ~Full
  /\ \E n \in 0 .. Min({MaxSize - Len(buf), Len(file) - taken}) :
       /\ buf' = buf \o SubSeq(file, taken + 1, taken + n)
       /\ taken' = taken + n
       /\ eof' \in IF taken' = Len(file) THEN BOOLEAN ELSE {FALSE}
       /\ n > 0 \/ eof'
  /\ UNCHANGED <<file, offset, chunks, pc>>

\* Hand out the first b bytes of the buffer and move the rest to its front; the
\* offset moves on.
HandOut(b, moved) ==
  IF buf = <<>> THEN UNCHANGED <<buf, offset, chunks>>
  ELSE /\ chunks' = Append(chunks, [offset |-> offset, length |-> b])
       /\ offset' = offset + moved
       /\ buf' = SubSeq(buf, b + 1, Len(buf))

\* Mutant of Cut: the next block is looked for after every read.
CutShort ==
  /\ pc = "run" /\ (eof \/ buf # <<>>)
  /\ HandOut(Boundary(buf), Boundary(buf))
  /\ pc' = IF eof /\ buf' = <<>> THEN "done" ELSE "run"
  /\ UNCHANGED <<file, taken, eof>>

\* Mutant of Cut: the offset moves on by what was in the buffer.
CutFilled ==
  /\ pc = "run" /\ Full
  /\ HandOut(Boundary(buf), Len(buf))
  /\ pc' = IF eof /\ buf' = <<>> THEN "done" ELSE "run"
  /\ UNCHANGED <<file, taken, eof>>

\* The buffer is full or the file has ended: hand out one block.
Cut ==
  /\ pc = "run" /\ Full
  /\ HandOut(Boundary(buf), Boundary(buf))
  /\ pc' = IF eof /\ buf' = <<>> THEN "done" ELSE "run"
  /\ UNCHANGED <<file, taken, eof>>

\* Read, or fn, returns an error.
Fail ==
  /\ pc = "run"
  /\ pc' = "failed"
  /\ UNCHANGED <<file, taken, eof, buf, offset, chunks>>

Next == Read \/ Cut \/ Fail

Spec == Init /\ [][Next]_vars

-----------------------------------------------------------------------------

\* The state has its type; the buffer never outgrows its array.
TypeOK ==
  /\ file \in File
  /\ taken \in 0 .. Len(file)
  /\ eof \in BOOLEAN
  /\ buf \in Seq(Byte) /\ Len(buf) <= MaxSize
  /\ offset \in 0 .. Len(file)
  /\ chunks \in Seq(Chunk)
  /\ pc \in {"run", "done", "failed"}

\* What the fingerprint of the bytes of data after p, up to e, adds up to: the
\* number they are the digits of, in base two and by Gear, wrapped nowhere.
Weight(data, p, e) ==
  LET sum[j \in p .. e] ==
        IF j = p THEN 0 ELSE 2 * sum[j - 1] + Gear[data[j]]
  IN  sum[e]

\* The end of the block of data that begins at p, said of data alone.
BlockEnd(data, p) ==
  LET last == Min({Len(data), p + MaxSize})
  IN  IF Len(data) - p <= MinSize THEN Len(data)
      ELSE Min({e \in p + MinSize .. last :
                  e = last \/ Weight(data, p, e) % AvgSize = 0})

\* Where the blocks of data begin.
Starts(data) ==
  LET nth[k \in 0 .. Len(data)] ==
        IF k = 0 THEN 0 ELSE BlockEnd(data, nth[k - 1])
  IN  {nth[k] : k \in DOMAIN nth} \ {Len(data)}

\* The blocks of a file are a function of its bytes: every block begins where
\* the one before it ended, and ends where the bytes after that say, however
\* the reads fell.
SameChunks ==
  \A k \in 1 .. Len(chunks) :
    LET c == chunks[k]
        begin == IF k = 1 THEN 0 ELSE chunks[k - 1].offset
                                      + chunks[k - 1].length
    IN  c.offset = begin /\ c.offset + c.length = BlockEnd(file, begin)
=============================================================================
