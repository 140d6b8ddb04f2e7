------------------------------ MODULE Chunker --------------------------------
(***************************************************************************)
(* split_text_into_chunks: a text of so many tokens is cut into windows    *)
(* that overlap, for the embeddings.  A chunk is the half-open interval of *)
(* the tokens it holds; encoding and decoding are left out.                *)
(***************************************************************************)
EXTENDS Integers, Sequences

VARIABLES
  cutter,   \* "idle", or "cutting" inside the loop
  length,   \* len(tokens)
  window,   \* max_tokens
  overlap,  \* overlap_tokens, as corrected
  start,    \* start
  chunks    \* chunks

chunker == <<cutter, length, window, overlap, start, chunks>>

Chunk == [from : Nat, to : Nat]

ChunkerInit ==
  /\ cutter = "idle"
  /\ length = 0 /\ window = 0 /\ overlap = 0 /\ start = 0
  /\ chunks = <<>>

(* The function has returned or raised, and its chunks are gone.           *)
Forget ==
  /\ cutter' = "idle"
  /\ length' = 0 /\ window' = 0 /\ overlap' = 0 /\ start' = 0
  /\ chunks' = <<>>

(* Mutant of Corrected: an overlap of the whole window is let through.     *)
CorrectedAbove(m, o) == IF o > m THEN m \div 4 ELSE o

(* An overlap that leaves no progress is replaced by a quarter.            *)
Corrected(m, o) == IF o >= m THEN m \div 4 ELSE o

(* The tests before the loop, for n tokens, a window m and an overlap o.   *)
Split(n, m, o) ==
  /\ cutter = "idle"
  /\ length' = n
  /\ window' = m
  /\ overlap' = Corrected(m, o)
  /\ start' = 0
  /\ chunks' = IF 0 < n /\ n <= m THEN <<[from |-> 0, to |-> n]>> ELSE <<>>
  /\ cutter' = IF 0 < m /\ m < n THEN "cutting" ELSE "idle"

(* Mutant of End: the overlap is put on top of the window.                 *)
EndWithOverlap ==
  IF start + window + overlap < length THEN start + window + overlap ELSE length

End == IF start + window < length THEN start + window ELSE length

(* One round of the loop.                                                  *)
Cut ==
  /\ cutter = "cutting"
  /\ chunks' = Append(chunks, [from |-> start, to |-> End])
  /\ IF End >= length
     THEN cutter' = "idle" /\ UNCHANGED start
     ELSE start' = End - overlap /\ UNCHANGED cutter
  /\ UNCHANGED <<length, window, overlap>>

-----------------------------------------------------------------------------
(* Properties.                                                             *)

(* The chunks tile the text: the first begins with it, each holds at most  *)
(* a window, a chunk that has a successor is a full one, the successor     *)
(* repeats exactly the overlap and reaches beyond it, and when the loop    *)
(* has ended nothing of the text is left.                                  *)
Tiles ==
  LET n == Len(chunks) IN
  /\ n > 0 => chunks[1].from = 0
  /\ \A i \in 1..n : chunks[i].from < chunks[i].to /\ chunks[i].to - chunks[i].from <= window
  /\ \A i \in 1..(n - 1) :
       /\ chunks[i].to = chunks[i].from + window
       /\ chunks[i + 1].from = chunks[i].to - overlap
       /\ chunks[i + 1].to > chunks[i].to
  /\ cutter = "idle" /\ length > 0 /\ window > 0 => n > 0 /\ chunks[n].to = length
=============================================================================
