------------------------ MODULE BufferPoolRefinement -------------------------
(***************************************************************************)
(* The buffer pool as an implementation of PageStore.                      *)
(***************************************************************************)
EXTENDS BufferPool

\* What a caller sees: the frame of a resident page, else the file's bytes.
StoreImage == [k \in pageKey |-> IF Resident(k) THEN frames[pageTable[k]] ELSE disk[k]]

PS == INSTANCE PageStore WITH store <- StoreImage

\* The pool implements PageStore: fetches, evictions, flushes and failures of
\* the disk never change what a page holds; only its holders' stores do.
ImplementsPageStore == PS!Spec
=============================================================================
