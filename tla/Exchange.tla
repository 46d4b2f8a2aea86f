------------------------------ MODULE Exchange ------------------------------
(***************************************************************************)
(* One file on its way between two devices.  The peer has cut it into      *)
(* blocks (Chunker) and advertises them in its index; the puller asks, on  *)
(* a stream of its own, for the blocks that no file of its own had at its  *)
(* scan (session.requestBlocks); the peer answers block by block from its  *)
(* live file (serveBlocks) and closes the stream, which is all that tells  *)
(* the puller that no more will come; the puller puts the file together    *)
(* (pullFile).  Both users may write meanwhile.                            *)
(*                                                                         *)
(* A hash stands for the bytes it is the hash of.                          *)
(***************************************************************************)
EXTENDS Chunker, Functions

CONSTANTS
  Edited(_),  \* Edited(data): what a user makes of a file with these bytes
  MaxFrame,   \* MaxFrameSize, in blocks of an index
  MaxPulled,  \* bound: the longest file that is pulled
  MaxTrouble  \* bound: how many edits and failures happen to a pull

\* Bound: users, too, make files of at most MaxFile bytes.
ASSUME EditedAssumption == \A data \in File : Edited(data) \subseteq File
ASSUME TroubleAssumption == MaxTrouble \in Nat

VARIABLES
  stage,   \* "start", "ask", "receive", "assemble"; "installed", "failed",
           \*   "nothing": the index said nothing of the file
  live,    \* the peer's file now
  own,     \* the puller's file now
  blocks,  \* rf.Blocks: the advertised blocks
  localBlocks, \* the puller's blocks: their offsets in its file, by hash
  need,    \* the numbers of the blocks it asks the peer for
  served,  \* those of them that the peer has answered
  closed,  \* the peer has closed the stream
  stream,  \* the frames on the way to the puller
  got,     \* the blocks received, by the hash they were sent under
  out,     \* the bytes written
  placed,  \* from how many blocks
  trouble  \* how many edits and failures there were

peer   == <<live, served, closed>>
index  == <<blocks, localBlocks>>
puller == <<own, index, need, got, out, placed>>
xvars  == <<vars, stage, peer, stream, puller, trouble>>

XInit ==
  /\ Init
  /\ stage = "start"
  /\ live = <<>> /\ own = <<>>
  /\ blocks = <<>> /\ localBlocks = <<>> /\ need = {}
  /\ served = {} /\ closed = FALSE /\ stream = <<>>
  /\ got = <<>> /\ out = <<>> /\ placed = 0
  /\ trouble = 0

\* length bytes of data from offset on, as ReadAt gives them or fails.
Holds(data, from, length) == from + length <= Len(data)
Slice(data, from, length) == SubSeq(data, from + 1, from + length)

\* The advertised blocks (indexToFileMeta).
Advertised ==
  [k \in 1 .. Len(chunks) |->
     [offset |-> chunks[k].offset, length |-> chunks[k].length,
      hash |-> Slice(file, chunks[k].offset, chunks[k].length)]]

\* The first place of each block of data (buildBlockIndex).
BlockIndex(data) ==
  LET hash == [p \in Starts(data) |-> Slice(data, p, BlockEnd(data, p) - p)]
  IN  [h \in Range(hash) |-> Min({p \in DOMAIN hash : hash[p] = h})]

\* WriteFrame writes nothing when its payload is larger than a frame.
Fits(payload) == Len(payload) <= MaxFrame

\* The puller scans, asks for the index and reads it.  One that is not written
\* is empty to the puller, which takes the end of the stream for its end.
TakeIndex ==
  /\ stage = "start" /\ pc = "done" /\ Len(file) <= MaxPulled
  /\ live' = file
  /\ own' \in ({<<>>} \cup Edited(file)) \ {file}
  /\ localBlocks' = BlockIndex(own')
  /\ IF Fits(chunks) THEN stage' = "ask" /\ blocks' = Advertised
     ELSE stage' = "nothing" /\ UNCHANGED blocks
  /\ UNCHANGED <<vars, served, closed, stream, need, got, out, placed,
                 trouble>>

\* Only what is missing is asked for, if anything is (requestBlocks).
Ask ==
  /\ stage = "ask"
  /\ need' = {k \in DOMAIN blocks : blocks[k].hash \notin DOMAIN localBlocks}
  /\ stage' = IF need' = {} THEN "assemble" ELSE "receive"
  /\ UNCHANGED <<vars, peer, stream, own, index, got, out, placed, trouble>>

\* A frame with a block and the hash it was asked for by.
BlockData(h, bytes) == [hash |-> h, data |-> bytes]

\* serveBlocks: the next block in the file's order, under the hash it was asked
\* for by, read from the file as it is now.  A file that has become too short
\* ends the answer.
Serve ==
  /\ stage = "receive" /\ ~closed /\ served # need
  /\ LET k == Min(need \ served)
         b == blocks[k]
     IN  IF Holds(live, b.offset, b.length)
         THEN /\ stream' = Append(stream,
                   BlockData(b.hash, Slice(live, b.offset, b.length)))
              /\ served' = served \cup {k} /\ UNCHANGED closed
         ELSE closed' = TRUE /\ UNCHANGED <<stream, served>>
  /\ UNCHANGED <<vars, stage, live, puller, trouble>>

\* All is served: the stream is closed.
Close ==
  /\ stage = "receive" /\ ~closed /\ served = need
  /\ closed' = TRUE
  /\ UNCHANGED <<vars, stage, live, served, stream, puller, trouble>>

\* A frame is read.  Blocks of one hash count once, so a file that repeats a
\* block is never complete by count and its pull waits for the end.
Receive ==
  /\ stage = "receive" /\ stream # <<>>
  /\ LET b == Head(stream)
     IN  got' = [h \in DOMAIN got \cup {b.hash} |->
                   IF h = b.hash THEN b.data ELSE got[h]]
  /\ stage' = IF Cardinality(DOMAIN got') = Cardinality(need) THEN "assemble"
              ELSE "receive"
  /\ stream' = Tail(stream)
  /\ UNCHANGED <<vars, peer, own, index, need, out, placed, trouble>>

\* Mutant of EndOfStream: the end of the stream is an error.
EndIsError ==
  /\ stage = "receive" /\ stream = <<>> /\ closed
  /\ stage' = "failed"
  /\ UNCHANGED <<vars, peer, stream, puller, trouble>>

\* io.EOF: whatever has come is used.
EndOfStream ==
  /\ stage = "receive" /\ stream = <<>> /\ closed
  /\ stage' = "assemble"
  /\ UNCHANGED <<vars, peer, stream, puller, trouble>>

\* The bytes for a block: from the local file, where the scan had found them,
\* or from the peer.
Found(hash) ==
  IF hash \in DOMAIN localBlocks
  THEN LET p == localBlocks[hash]
       IN  IF Holds(own, p, Len(hash)) THEN {Slice(own, p, Len(hash))} ELSE {}
  ELSE IF hash \in DOMAIN got THEN {got[hash]} ELSE {}

\* Mutant of Put: the bytes are not compared with their hash.
PutAny ==
  /\ stage = "assemble" /\ placed < Len(blocks)
  /\ LET data == Found(blocks[placed + 1].hash)
     IN  IF data # {}
         THEN /\ out' \in {out \o d : d \in data}
              /\ placed' = placed + 1
              /\ UNCHANGED stage
         ELSE stage' = "failed" /\ UNCHANGED <<out, placed>>
  /\ UNCHANGED <<vars, peer, stream, own, index, need, got, trouble>>

\* The next block is written, if its bytes are there and have its hash.
Put ==
  /\ stage = "assemble" /\ placed < Len(blocks)
  /\ LET hash == blocks[placed + 1].hash
     IN  IF hash \in Found(hash)
         THEN out' = out \o hash /\ placed' = placed + 1 /\ UNCHANGED stage
         ELSE stage' = "failed" /\ UNCHANGED <<out, placed>>
  /\ UNCHANGED <<vars, peer, stream, own, index, need, got, trouble>>

\* The file is complete; it is installed if it has the advertised hash.
Finish ==
  /\ stage = "assemble" /\ placed = Len(blocks)
  /\ stage' = IF out = file THEN "installed" ELSE "failed"
  /\ UNCHANGED <<vars, peer, stream, puller, trouble>>

Pulling == stage \in {"ask", "receive", "assemble"}

Trouble ==
  /\ Pulling /\ trouble < MaxTrouble /\ trouble' = trouble + 1

\* Either user writes.
PeerEdits ==
  /\ Trouble /\ live' \in Edited(live)
  /\ UNCHANGED <<vars, stage, served, closed, stream, puller>>

OwnEdits ==
  /\ Trouble /\ own' \in Edited(own)
  /\ UNCHANGED <<vars, stage, peer, stream, index, need, got, out, placed>>

\* The connection breaks, or a read or a write fails.
Breaks ==
  /\ Trouble /\ stage' = "failed"
  /\ UNCHANGED <<vars, peer, stream, puller>>

\* The peer gives up in the middle of its answer.
StopsServing ==
  /\ Trouble /\ stage = "receive" /\ ~closed
  /\ closed' = TRUE
  /\ UNCHANGED <<vars, stage, live, served, stream, puller>>

Split  == Next /\ UNCHANGED <<stage, peer, stream, puller, trouble>>
Answer == Serve \/ Close
Pull   == TakeIndex \/ Ask \/ Receive \/ EndOfStream \/ Put \/ Finish

XNext ==
  \/ Split \/ Answer \/ Pull
  \/ PeerEdits \/ OwnEdits \/ Breaks \/ StopsServing

XSpec == XInit /\ [][XNext]_xvars

\* Goroutines run; a connection that is up carries what is written.
XFairSpec ==
  XSpec /\ WF_xvars(Split) /\ WF_xvars(Answer) /\ WF_xvars(Pull)

\* The peer is only known to keep the connection alive.
SilentPeerSpec == XSpec /\ WF_xvars(Split) /\ WF_xvars(Pull)
-----------------------------------------------------------------------------

\* The state has its type; nothing is received that was not asked for.
XTypeOK ==
  /\ TypeOK
  /\ stage \in {"start", "ask", "receive", "assemble", "installed", "failed",
                "nothing"}
  /\ live \in File /\ own \in File
  /\ need \subseteq 1 .. Len(blocks) /\ served \subseteq need
  /\ closed \in BOOLEAN
  /\ \A k \in 1 .. Len(stream) : Len(stream[k].data) = Len(stream[k].hash)
  /\ DOMAIN got \subseteq {blocks[k].hash : k \in need}
  /\ placed \in 0 .. Len(blocks)
  /\ trouble \in 0 .. MaxTrouble

\* Whatever is written to the temporary file is the beginning of the
\* advertised file, though its blocks come from two files that change; and all
\* of it once every block is in its place, so that no complete file is thrown
\* away.
OnlyAdvertised ==
  /\ out = SubSeq(file, 1, Len(out))
  /\ stage = "assemble" /\ placed = Len(blocks) => out = file

\* A pull that nobody disturbs installs the file: its blocks make it up, those
\* the puller has are found in its own file, and those it has not are asked
\* for, sent and told apart, repeated ones too.  Any other pull comes to an
\* end, and with anything but the advertised bytes it fails.
PullSucceeds ==
  <>(\/ pc = "failed" \/ Len(file) > MaxPulled
     \/ stage = "installed"
     \/ stage = "failed" /\ trouble > 0)

\* A pull ends.  (With a peer that keeps silent it does not.)
PullEnds ==
  <>(\/ pc = "failed" \/ Len(file) > MaxPulled
     \/ stage \in {"installed", "failed", "nothing"})
=============================================================================
