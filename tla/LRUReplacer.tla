----------------------------- MODULE LRUReplacer -----------------------------
(***************************************************************************)
(* The eviction policy of the buffer pool (buffer/lru_replacer.go).        *)
(*                                                                         *)
(* The replacer is the sequence of its list `order`: the head is the most  *)
(* recently used candidate, the last element the least.  The map `index`   *)
(* from a frame to its list element is the position of the frame in that   *)
(* sequence, so it is derived and not a part of the state.                 *)
(***************************************************************************)
EXTENDS Integers, Sequences, Functions

NewLRUReplacer == << >>

Tracked(order, f) == f \in Range(order)

\* LRUReplacer.Unpin: f becomes a candidate, at the most recently used end;
\* a frame that is a candidate already keeps its place.
Unpin(order, f) == IF Tracked(order, f) THEN order ELSE <<f>> \o order

\* A mutant: Pin forgets to take the frame out of the candidates.
PinKeeps(order, f) == order

\* LRUReplacer.Pin: f is no candidate any more.
Pin(order, f) ==
  LET i == CHOOSE j \in 1..Len(order) : order[j] = f IN
  IF Tracked(order, f)
  THEN SubSeq(order, 1, i-1) \o SubSeq(order, i+1, Len(order))
  ELSE order

\* LRUReplacer.Victim: the least recently used candidate ...
Victim(order) == order[Len(order)]

\* ... and the candidates that remain once it is removed.
AfterVictim(order) == SubSeq(order, 1, Len(order) - 1)
=============================================================================
