------------------------------- MODULE MCHeap --------------------------------
(* Heap for TLC.  An empty page of 8 words takes two tuples of one word,   *)
(* or one of two words and an empty one, or three empty ones; a tuple of   *)
(* five words fits no page.                                                *)
EXTENDS Heap

Tuples == {<<>>, <<1>>, <<2, 3>>, <<4, 4, 4, 4, 4>>}
=============================================================================
