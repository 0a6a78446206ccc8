----------------------------- MODULE BufferPool ------------------------------
(***************************************************************************)
(* The multi-file buffer pool (buffer/buffer_pool.go) with its LRU         *)
(* replacer, over disk managers that may fail any call.                    *)
(*                                                                         *)
(* Every public operation runs with bp.mu held from its first read to its  *)
(* last write, so each is one action.  What happens outside the lock is    *)
(* what callers do with the page they pinned: they store through the       *)
(* pointer to the frame, between their FetchPage or NewPage and their      *)
(* UnpinPage, interleaved with everything else.                            *)
(***************************************************************************)
EXTENDS Integers, Sequences, FiniteSets, LRUReplacer

CONSTANTS
  PoolSize, \* the number of frames, NewBufferPool's argument
  Holder,   \* one element per pin that can be outstanding at a time
  Value,    \* page images a caller can store
  Blank,    \* the image of a zeroed page
  Torn,     \* an image that mixes the bytes of two others
  MaxFiles, \* bound: registered files
  MaxPages  \* the page count at which AllocatePage refuses to grow a file

ASSUME PoolSizeAssumption == PoolSize \in Nat \ {0}
ASSUME BoundsAssumption   == MaxFiles \in Nat \ {0} /\ MaxPages \in Nat \ {0}
ASSUME HolderAssumption   == IsFiniteSet(Holder)

frameID == 0..PoolSize-1
NoFrame == -1
FileID  == 0..MaxFiles-1
PageID  == 0..MaxPages-1
pageKey == FileID \X PageID
NoKey   == <<-1, -1>>
Image   == Value \cup {Blank, Torn}

VARIABLES
  files,     \* len(bp.files): files are registered as 0, 1, ...
  numPages,  \* numPages[i]: the page count of file i's disk manager
  disk,      \* disk[k]: what the file of k holds for page k
  frames,    \* frames[f]: the bytes of frame f
  meta,      \* meta[f]: key, pinCount and dirty of frame f
  pageTable, \* pageTable[k]: the frame page k is resident in, or NoFrame
  freeList,  \* the frames that hold no page; taken from the end
  replacer,  \* the idle resident frames, most recently used first
  ptr,       \* ptr[h]: the frame that holder h's pointer refers to, or NoFrame
  held,      \* held[h]: the page that h asked for, or NoKey
  wrote      \* wrote[h]: h stored through its pointer since it got it

poolVars == <<frames, meta, pageTable, freeList, replacer>>
diskVars == <<files, numPages, disk>>
callVars == <<ptr, held, wrote>>
vars     == <<diskVars, poolVars, callVars>>

frameMeta == [key : pageKey, pinCount : Nat, dirty : BOOLEAN]

Resident(k) == pageTable[k] # NoFrame
Exists(k)   == k[1] < files /\ k[2] < numPages[k[1]]
Idle(h)     == ptr[h] = NoFrame
HoldersOf(f) == {h \in Holder : ptr[h] = f}
-----------------------------------------------------------------------------
NewBufferPool ==
  /\ frames = [f \in frameID |-> Blank]
  /\ meta = [f \in frameID |-> [key |-> <<0, 0>>, pinCount |-> 0, dirty |-> FALSE]]
  /\ pageTable = [k \in pageKey |-> NoFrame]
  /\ freeList = [i \in 1..PoolSize |-> i - 1]
  /\ replacer = NewLRUReplacer

\* A process that has just started: a new pool, no file registered.
Started ==
  /\ NewBufferPool
  /\ files = 0
  /\ numPages = [i \in FileID |-> 0]
  /\ ptr = [h \in Holder |-> NoFrame]
  /\ held = [h \in Holder |-> NoKey]
  /\ wrote = [h \in Holder |-> FALSE]

Init == Started /\ disk = [k \in pageKey |-> Blank]
-----------------------------------------------------------------------------
(***************************************************************************)
(* Write-backs.  A frame is racing when a caller is storing into it: the   *)
(* bytes WritePage copies are then a mix of the stores before and after.   *)
(***************************************************************************)
Racing(f)   == \E h \in HoldersOf(f) : wrote[h]
DirtyFrames == {f \in frameID : meta[f].dirty /\ \E k \in pageKey : pageTable[k] = f}

\* The files once the frames in S are written back, each under the key its
\* metadata names, those in torn as a mix.
WriteBack(S, torn) ==
  LET Of(k) == {f \in S : meta[f].key = k} IN
  [k \in pageKey |-> IF Of(k) = {} THEN disk[k]
                     ELSE IF Of(k) \subseteq torn THEN Torn
                     ELSE frames[CHOOSE f \in Of(k) : TRUE]]

\* A mutant: every frame is marked clean, the ones not written included.
MarkCleanAll(S) == [f \in frameID |-> [meta[f] EXCEPT !.dirty = FALSE]]

\* flushLocked's last step, for every frame of S.
MarkClean(S) ==
  [f \in frameID |-> IF f \in S THEN [meta[f] EXCEPT !.dirty = FALSE] ELSE meta[f]]
-----------------------------------------------------------------------------
(***************************************************************************)
(* acquireFrame: a free frame when there is one, else the victim's, whose  *)
(* page is written back if it is dirty and leaves the page table.          *)
(***************************************************************************)
\* A mutant: no eviction when the free list is empty.
FreeOnly == freeList # << >>

CanAcquire == freeList # << >> \/ replacer # << >>

acquireFrame ==
  IF freeList # << >>
  THEN [frame |-> freeList[Len(freeList)], freeList |-> SubSeq(freeList, 1, Len(freeList)-1),
        replacer |-> replacer, pageTable |-> pageTable, disk |-> disk]
  ELSE LET v == Victim(replacer) IN
       [frame |-> v, freeList |-> freeList, replacer |-> AfterVictim(replacer),
        pageTable |-> [pageTable EXCEPT ![meta[v].key] = NoFrame],
        disk |-> IF meta[v].dirty THEN WriteBack({v}, {}) ELSE disk]

\* ErrNoFreeFrame: nothing has changed.
NoFreeFrame == ~CanAcquire /\ UNCHANGED vars

\* The victim's write-back fails, with or without bytes of it in the file; the
\* victim is a candidate again and its page stays resident.
VictimWriteFails ==
  LET v == Victim(replacer) IN
  /\ freeList = << >> /\ replacer # << >>
  /\ meta[v].dirty
  /\ \E spoiled \in SUBSET {v} : disk' = WriteBack(spoiled, spoiled)
  /\ replacer' = Unpin(AfterVictim(replacer), v)
  /\ UNCHANGED <<files, numPages, frames, meta, pageTable, freeList, callVars>>

\* A mutant: the frame keeps the key of the page it held before.
bindFrameStaleKey(a, k) ==
  /\ meta' = [meta EXCEPT ![a.frame].pinCount = 1, ![a.frame].dirty = FALSE]
  /\ pageTable' = [a.pageTable EXCEPT ![k] = a.frame]

bindFrame(a, k) ==
  /\ meta' = [meta EXCEPT ![a.frame] = [key |-> k, pinCount |-> 1, dirty |-> FALSE]]
  /\ pageTable' = [a.pageTable EXCEPT ![k] = a.frame]

\* The caller gets the pointer to frame f, which holds page k.
Return(h, k, f) ==
  /\ ptr' = [ptr EXCEPT ![h] = f]
  /\ held' = [held EXCEPT ![h] = k]
  /\ UNCHANGED wrote

\* A mutant: the frame is not put back.
GiveBackLeaks(a) ==
  /\ freeList' = a.freeList
  /\ pageTable' = a.pageTable
  /\ replacer' = a.replacer
  /\ disk' = a.disk
  /\ UNCHANGED meta

\* The frame that was acquired goes back, blank of any page, to the free list.
GiveBack(a) ==
  /\ freeList' = Append(a.freeList, a.frame)
  /\ pageTable' = a.pageTable
  /\ replacer' = a.replacer
  /\ disk' = a.disk
  /\ UNCHANGED meta
-----------------------------------------------------------------------------
Register ==
  /\ files < MaxFiles
  /\ files' = files + 1
  /\ \E n \in 0..MaxPages : numPages' = [numPages EXCEPT ![files] = n]
  /\ UNCHANGED <<disk, poolVars, callVars>>

FetchHit(h, k) ==
  LET f == pageTable[k] IN
  /\ Resident(k)
  /\ meta' = [meta EXCEPT ![f].pinCount = @ + 1]
  /\ replacer' = Pin(replacer, f)
  /\ Return(h, k, f)
  /\ UNCHANGED <<diskVars, frames, pageTable, freeList>>

FetchLoad(h, k) ==
  LET a == acquireFrame IN
  /\ ~Resident(k) /\ CanAcquire
  /\ Exists(k)
  /\ disk' = a.disk
  /\ frames' = [frames EXCEPT ![a.frame] = a.disk[k]]
  /\ freeList' = a.freeList
  /\ replacer' = a.replacer
  /\ bindFrame(a, k)
  /\ Return(h, k, a.frame)
  /\ UNCHANGED <<files, numPages>>

\* ReadPage refuses an id past the end, or fails with part of the frame read.
FetchReadFails(k) ==
  LET a == acquireFrame IN
  /\ ~Resident(k) /\ CanAcquire
  /\ GiveBack(a)
  /\ \/ UNCHANGED frames
     \/ Exists(k) /\ frames' = [frames EXCEPT ![a.frame] = Torn]
  /\ UNCHANGED <<files, numPages, callVars>>

FetchPage(h, k) ==
  /\ Idle(h)
  /\ k[1] < files
  /\ \/ FetchHit(h, k)
     \/ FetchLoad(h, k)
     \/ FetchReadFails(k)
     \/ ~Resident(k) /\ NoFreeFrame
     \/ ~Resident(k) /\ VictimWriteFails

\* A mutant: the limit is off by one.
HasRoomForOneMore(i) == numPages[i] <= MaxPages

\* AllocatePage's test that file i can still grow.
HasRoom(i) == numPages[i] < MaxPages

NewPageBound(h, i) ==
  LET a == acquireFrame
      k == <<i, numPages[i]>> IN
  /\ CanAcquire
  /\ HasRoom(i)
  /\ numPages' = [numPages EXCEPT ![i] = @ + 1]
  /\ disk' = [a.disk EXCEPT ![k] = Blank]
  /\ frames' = [frames EXCEPT ![a.frame] = Blank]
  /\ freeList' = a.freeList
  /\ replacer' = a.replacer
  /\ bindFrame(a, k)
  /\ Return(h, k, a.frame)
  /\ UNCHANGED files

\* AllocatePage fails: the file is full, or could not be extended.
NewPageAllocFails ==
  /\ CanAcquire
  /\ GiveBack(acquireFrame)
  /\ UNCHANGED <<files, numPages, frames, callVars>>

NewPage(h, i) ==
  /\ Idle(h)
  /\ i < files
  /\ \/ NewPageBound(h, i)
     \/ NewPageAllocFails
     \/ NoFreeFrame
     \/ VictimWriteFails

\* Outside the lock: the caller stores through the pointer it was given.
Store(h, v) ==
  /\ ~Idle(h)
  /\ frames' = [frames EXCEPT ![ptr[h]] = v]
  /\ wrote' = [wrote EXCEPT ![h] = TRUE]
  /\ UNCHANGED <<diskVars, meta, pageTable, freeList, replacer, ptr, held>>

\* A mutant: the last unpin decides.
Overwritten(f, dirty) == dirty

\* The dirty flag is merged, never cleared, by an unpin.
Merged(f, dirty) == meta[f].dirty \/ dirty

\* The caller's duty: it says dirty when it stored anything.
UnpinPage(h, dirty) ==
  LET f == pageTable[held[h]] IN
  /\ ~Idle(h)
  /\ wrote[h] => dirty
  /\ Resident(held[h]) /\ meta[f].pinCount # 0
  /\ meta' = [meta EXCEPT ![f].dirty = Merged(f, dirty), ![f].pinCount = @ - 1]
  /\ replacer' = IF meta[f].pinCount = 1 THEN Unpin(replacer, f) ELSE replacer
  /\ ptr' = [ptr EXCEPT ![h] = NoFrame]
  /\ held' = [held EXCEPT ![h] = NoKey]
  /\ wrote' = [wrote EXCEPT ![h] = FALSE]
  /\ UNCHANGED <<diskVars, frames, pageTable, freeList>>

\* An unpin of a page that is not resident, or not pinned, is refused.
UnpinRefused(k) ==
  /\ Resident(k) => meta[pageTable[k]].pinCount = 0
  /\ UNCHANGED vars

FlushPage(k) ==
  LET f == pageTable[k] IN
  /\ Resident(k)
  /\ f \in DirtyFrames
  /\ UNCHANGED <<files, numPages, frames, pageTable, freeList, replacer, callVars>>
  /\ \/ \E torn \in SUBSET {g \in {f} : Racing(g)} :
          disk' = WriteBack({f}, torn) /\ meta' = MarkClean({f})
     \/ \E spoiled \in SUBSET {f} :
          disk' = WriteBack(spoiled, spoiled) /\ UNCHANGED meta

\* A page that is not resident is refused, a clean one needs no write.
FlushPageSkips(k) ==
  /\ Resident(k) => pageTable[k] \notin DirtyFrames
  /\ UNCHANGED vars

\* FlushAll writes every dirty resident page.
FlushAllDone ==
  /\ \E torn \in SUBSET {g \in DirtyFrames : Racing(g)} :
       disk' = WriteBack(DirtyFrames, torn) /\ meta' = MarkClean(DirtyFrames)
  /\ UNCHANGED <<files, numPages, frames, pageTable, freeList, replacer, callVars>>

\* The page table is walked in any order, up to the first write that fails.
FlushAllFails ==
  /\ \E bad \in DirtyFrames, done \in SUBSET DirtyFrames :
       /\ bad \notin done
       /\ \E torn \in SUBSET {g \in done : Racing(g)}, spoiled \in SUBSET {bad} :
            disk' = WriteBack(done \cup spoiled, torn \cup spoiled)
       /\ meta' = MarkClean(done)
  /\ UNCHANGED <<files, numPages, frames, pageTable, freeList, replacer, callVars>>

FlushAll == FlushAllDone \/ FlushAllFails

Next ==
  \/ Register
  \/ \E h \in Holder :
       \/ \E k \in pageKey : FetchPage(h, k)
       \/ \E i \in FileID : NewPage(h, i)
       \/ \E v \in Value : Store(h, v)
       \/ \E dirty \in BOOLEAN : UnpinPage(h, dirty)
  \/ \E k \in pageKey : /\ k[1] < files
                        /\ UnpinRefused(k) \/ FlushPage(k) \/ FlushPageSkips(k)
  \/ FlushAll

Spec == Init /\ [][Next]_vars
-----------------------------------------------------------------------------
TypeOK ==
  /\ files \in 0..MaxFiles
  /\ numPages \in [FileID -> 0..MaxPages]
  /\ disk \in [pageKey -> Image]
  /\ frames \in [frameID -> Image]
  /\ meta \in [frameID -> frameMeta]
  /\ pageTable \in [pageKey -> frameID \cup {NoFrame}]
  /\ freeList \in Seq(frameID)
  /\ replacer \in Seq(frameID)
  /\ ptr \in [Holder -> frameID \cup {NoFrame}]
  /\ held \in [Holder -> pageKey \cup {NoKey}]
  /\ wrote \in [Holder -> BOOLEAN]

ResidentFrames == {f \in frameID : \E k \in pageKey : pageTable[k] = f}

\* The three states of a frame that BufferPool's comment lists: free, resident
\* and pinned, resident and idle.  No operation, failed or not, leaves a frame
\* in none of them (it would be lost for good) or in two.
FrameStates ==
  /\ IsInjective(freeList) /\ IsInjective(replacer)
  /\ Range(freeList) = frameID \ ResidentFrames
  /\ Range(replacer) = {f \in ResidentFrames : meta[f].pinCount = 0}

\* The page table and the frames' metadata name each other, and only pages
\* that exist are resident: no page is in two frames.
TableMatchesMeta ==
  \A k \in pageKey : Resident(k) => meta[pageTable[k]].key = k /\ Exists(k)

\* A pointer is good until its UnpinPage: the frame still holds the page that
\* was asked for, and is pinned once for every caller that points into it.
PointersValid ==
  /\ \A h \in Holder : IF Idle(h) THEN held[h] = NoKey
                       ELSE held[h] \in pageKey /\ pageTable[held[h]] = ptr[h]
  /\ \A f \in ResidentFrames : meta[f].pinCount = Cardinality(HoldersOf(f))

\* Nothing is lost when a frame is reused without a write: whatever a resident
\* page has that its file does not is marked dirty, or belongs to a caller that
\* has yet to say so by its UnpinPage.
NoLostUpdate ==
  \A k \in pageKey :
    Resident(k) /\ frames[pageTable[k]] # disk[k] =>
      meta[pageTable[k]].dirty \/ Racing(pageTable[k])

\* ErrNoFreeFrame is only returned when the callers hold a pin on every frame.
ExhaustedOnlyByPins ==
  ~CanAcquire => \A f \in frameID : HoldersOf(f) # {}
=============================================================================
