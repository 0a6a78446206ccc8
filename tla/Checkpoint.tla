----------------------------- MODULE Checkpoint ------------------------------
(***************************************************************************)
(* A checkpoint, as the comments of FlushAll and Sync describe it, and the *)
(* machine failing at any moment: the buffer pool over files of which the  *)
(* device holds an older state.                                            *)
(*                                                                         *)
(* FlushAll runs under the pool's lock.  Sync takes a snapshot of the      *)
(* files under it and syncs them one by one outside: fetches, evictions,   *)
(* flushes, new pages and new files go on meanwhile.                       *)
(***************************************************************************)
EXTENDS BufferPool

CONSTANTS Absent, \* the device has no such page
          None    \* nothing was promised for a page

ASSUME MarkersAssumption == {Absent, None} \cap Image = {}

VARIABLES
  durable,  \* durable[k]: what the device holds for page k
  sync,     \* the checkpoint in progress
  flushed,  \* what its FlushAll has put in the files, for pages unwritten since
  promised  \* the same of the last checkpoint that returned nil

checkVars == <<durable, sync, flushed, promised>>
allVars == <<vars, checkVars>>

NoSync == [pc |-> "idle", next |-> 0, n |-> 0]
Nothing == [k \in pageKey |-> None]

CheckpointInit ==
  /\ Init
  /\ durable = [k \in pageKey |-> Absent]
  /\ sync = NoSync /\ flushed = Nothing /\ promised = Nothing

\* A page that is written again is no longer covered: the device may get the
\* new image, or a part of it, at any time.
Unwritten(p) == [k \in pageKey |-> IF disk'[k] = disk[k] THEN p[k] ELSE None]

-----------------------------------------------------------------------------
(* The pool goes on as before.                                             *)

\* Open counts the pages that the file has.
FileHasPages ==
  files' # files => \A p \in PageID : p < numPages'[files] <=> durable[<<files, p>>] # Absent

PoolStep ==
  /\ Next /\ FileHasPages
  /\ flushed' = Unwritten(flushed) /\ promised' = Unwritten(promised)
  /\ UNCHANGED <<durable, sync>>

-----------------------------------------------------------------------------
(* The checkpoint.                                                         *)

\* What callers find in page k, or have put there.
Contents(k) == IF Resident(k) THEN frames[pageTable[k]] ELSE disk[k]
BeingWritten(k) == Resident(k) /\ Racing(pageTable[k])

\* FlushAll returns nil: the files have every page that no caller is writing.
Flush ==
  /\ sync.pc = "idle" /\ FlushAllDone
  /\ sync' = [sync EXCEPT !.pc = "flushed"]
  /\ flushed' = [k \in pageKey |-> IF Exists(k) /\ ~BeingWritten(k) THEN Contents(k) ELSE None]
  /\ promised' = Unwritten(promised)
  /\ UNCHANGED durable

\* Mutant: the last file is left out.
SnapshotShort == [pc |-> "sync", next |-> 0, n |-> files - 1]
\* Sync's snapshot of bp.files.
Snapshot == [pc |-> "sync", next |-> 0, n |-> files]

SyncBegins ==
  /\ sync.pc = "flushed" /\ sync' = Snapshot
  /\ UNCHANGED <<vars, durable, flushed, promised>>

\* dm.Sync of the next file.
SyncFile ==
  /\ sync.pc = "sync" /\ sync.next < sync.n
  /\ durable' = [k \in pageKey |-> IF k[1] = sync.next /\ Exists(k) THEN disk[k] ELSE durable[k]]
  /\ sync' = [sync EXCEPT !.next = @ + 1]
  /\ UNCHANGED <<vars, flushed, promised>>

\* It fails: Sync returns the error, and the files after it are not synced.
SyncFails ==
  /\ sync.pc = "sync" /\ sync.next < sync.n
  /\ sync' = NoSync /\ flushed' = Nothing
  /\ UNCHANGED <<vars, durable, promised>>

SyncReturns ==
  /\ sync.pc = "sync" /\ sync.next = sync.n
  /\ sync' = NoSync /\ flushed' = Nothing /\ promised' = flushed
  /\ UNCHANGED <<vars, durable>>

-----------------------------------------------------------------------------
(* The operating system and the machine.                                   *)

\* A page goes to the device, or a part of it; a file grows from its front.
OSWriteBack(k) ==
  /\ Exists(k) /\ durable[k] # disk[k]
  /\ \A p \in PageID : p < k[2] => durable[<<k[1], p>>] # Absent
  /\ \E img \in {disk[k], Torn} : durable' = [durable EXCEPT ![k] = img]
  /\ UNCHANGED <<vars, sync, flushed, promised>>

\* The machine fails and a new process starts on what the device has.
Crash ==
  /\ files > 0 /\ files' = 0 /\ numPages' = [i \in FileID |-> 0]
  /\ frames' = [f \in frameID |-> Blank]
  /\ meta' = [f \in frameID |-> [key |-> <<0, 0>>, pinCount |-> 0, dirty |-> FALSE]]
  /\ pageTable' = [k \in pageKey |-> NoFrame]
  /\ freeList' = [i \in 1..PoolSize |-> i - 1] /\ replacer' = NewLRUReplacer
  /\ ptr' = [h \in Holder |-> NoFrame]
  /\ held' = [h \in Holder |-> NoKey] /\ wrote' = [h \in Holder |-> FALSE]
  /\ disk' = [k \in pageKey |-> IF durable[k] = Absent THEN Blank ELSE durable[k]]
  /\ sync' = NoSync /\ flushed' = Nothing
  /\ UNCHANGED <<durable, promised>>

CheckpointNext ==
  \/ PoolStep
  \/ Flush \/ SyncBegins \/ SyncFile \/ SyncFails \/ SyncReturns
  \/ \E k \in pageKey : OSWriteBack(k)
  \/ Crash

CheckpointSpec == CheckpointInit /\ [][CheckpointNext]_allVars

-----------------------------------------------------------------------------
CheckpointTypeOK ==
  /\ durable \in [pageKey -> Image \cup {Absent}]
  /\ sync \in [pc : {"idle", "flushed", "sync"}, next : 0 .. MaxFiles, n : 0 .. MaxFiles]
  /\ {flushed, promised} \subseteq [pageKey -> Image \cup {None}]

\* FlushAll followed by Sync is a checkpoint: once both have returned nil, every
\* page is on the device as callers had left it when FlushAll ran (the ones being
\* written just then excepted), until it is written again.  It stays so while
\* other callers evict, flush and add pages and files during the Sync, and a
\* process that starts after a failure of the machine finds it there.
CheckpointHolds ==
  \A k \in pageKey : promised[k] # None =>
    /\ durable[k] = promised[k] /\ disk[k] = promised[k]
    /\ k[1] < files => Exists(k)
=============================================================================
