----------------------------- MODULE MCChunker -----------------------------
(* Chunker and Exchange for TLC: two bytes, and blocks that end after the    *)
(* bytes 0, 1; a user shortens a file or changes a byte at one of its ends.  *)
EXTENDS Exchange

MCByte == {0, 1}
MCGear == [b \in MCByte |-> b + 1]

MCEdited(data) ==
  LET n == Len(data)
  IN  IF n = 0 THEN {<<1>>}
      ELSE {SubSeq(data, 1, n - 1), Tail(data),
            [data EXCEPT ![1] = 1 - @], [data EXCEPT ![n] = 1 - @]}
=============================================================================
