-------------------------- MODULE BufferPoolProofs ---------------------------
(***************************************************************************)
(* The buffer pool's invariants, that it implements PageStore, and that a  *)
(* checkpoint holds, for every pool size, every number of files and pages, *)
(* every set of callers and images, any number of failures of the machine  *)
(* and any interleaving of the pool's calls with the checkpoints.          *)
(*                                                                         *)
(* IInv is the pool's inductive invariant.  CInv follows a page from       *)
(* FlushAll to the device: FlushAll puts it in its file (Flushed), each    *)
(* file's sync takes what is still there to the device (Syncing), and from *)
(* then on file and device agree (Promised).                               *)
(***************************************************************************)
EXTENDS BufferPoolRefinement, Checkpoint, BufferPoolSteps

\* fetch, on a miss: the acquired frame takes the bytes of the file.
LEMMA FetchLoadIInv ==
  ASSUME HoldersCounted, IInv, NEW h \in Holder, NEW k \in pageKey, Idle(h), FetchLoad(h, k)
  PROVE  IInv'
<1> DEFINE a == acquireFrame
<1>1. Acquired(a)
  BY AcquireFrame DEF FetchLoad
<1>2. /\ disk' = a.disk /\ frames' = [frames EXCEPT ![a.frame] = a.disk[k]]
      /\ freeList' = a.freeList /\ replacer' = a.replacer
      /\ bindFrame(a, k) /\ Return(h, k, a.frame)
      /\ ~Resident(k) /\ Exists(k) /\ UNCHANGED <<files, numPages>>
  BY DEF FetchLoad
<1> HIDE DEF a
<1>3. a.disk[k] \in Image /\ disk' = [a.disk EXCEPT ![k] = a.disk[k]]
  BY <1>1, <1>2 DEF Acquired
<1>4. Exists(k)'
  BY <1>2 DEF Exists
<1>5. /\ numPages' \in [FileID -> 0..MaxPages]
      /\ \A i \in FileID : numPages[i] <= numPages'[i]
  BY <1>2, BoundsAssumption DEF IInv, TypeOK
<1>6. Binds(a, h, k, a.disk[k])
  BY <1>2, <1>3, <1>4, <1>5 DEF Binds
<1> QED
  BY <1>1, <1>2, <1>3, <1>6, BindPreserves

\* newPage: the acquired frame takes the blank page just allocated.
LEMMA NewPageBoundIInv ==
  ASSUME HoldersCounted, IInv, NEW h \in Holder, NEW i \in FileID, Idle(h), i < files, NewPageBound(h, i)
  PROVE  IInv'
<1> DEFINE a == acquireFrame
           k == <<i, numPages[i]>>
<1> USE BoundsAssumption
<1>1. Acquired(a)
  BY AcquireFrame DEF NewPageBound
<1>2. /\ numPages[i] < MaxPages
      /\ numPages' = [numPages EXCEPT ![i] = @ + 1]
      /\ disk' = [a.disk EXCEPT ![k] = Blank]
      /\ frames' = [frames EXCEPT ![a.frame] = Blank]
      /\ freeList' = a.freeList /\ replacer' = a.replacer
      /\ bindFrame(a, k) /\ Return(h, k, a.frame)
      /\ files' = files
  BY DEF NewPageBound, HasRoom
<1> HIDE DEF a
<1>2a. /\ numPages[i] < MaxPages /\ files' = files
       /\ numPages' = [numPages EXCEPT ![i] = @ + 1]
  BY <1>2
<1>2b. numPages \in [FileID -> 0..MaxPages]
  BY DEF IInv, TypeOK
<1>3. numPages[i] \in 0..MaxPages
  BY <1>2b
<1>4. k \in pageKey
  BY <1>2a, <1>3 DEF pageKey, PageID
<1>5. ~Exists(k)
  BY <1>3 DEF Exists
<1>6. ~Resident(k)
  BY <1>4, <1>5 DEF IInv, TableMatchesMeta
<1>7. /\ numPages' \in [FileID -> 0..MaxPages]
      /\ \A j \in FileID : numPages[j] <= numPages'[j]
  <2>1. numPages[i] + 1 \in 0..MaxPages
    BY <1>2a, <1>3
  <2>2. \A j \in FileID : numPages[j] <= numPages[j] + 1
    BY <1>2b
  <2> QED
    BY <1>2a, <1>2b, <2>1, <2>2
<1>8. k[1] < files' /\ k[2] < numPages'[k[1]]
  BY <1>2a, <1>2b, <1>3
<1>9. Blank \in Image
  BY DEF Image
<1>10. \A q : q = k => Exists(q)'
  BY <1>8 DEF Exists
<1>11. ASSUME NEW q \in pageKey, q = k PROVE IInv'
  <2>1. ~Resident(q) /\ Exists(q)' /\ bindFrame(a, q) /\ Return(h, q, a.frame)
        /\ disk' = [a.disk EXCEPT ![q] = Blank]
    BY <1>2, <1>6, <1>10, <1>11
  <2>2. Binds(a, h, q, Blank)
    BY <1>2, <1>7, <2>1 DEF Binds
  <2> QED
    BY <1>1, <1>9, <2>1, <2>2, BindPreserves
<1> QED
  BY <1>4, <1>11

\* The failed read of fetch and the failed AllocatePage of newPage.
LEMMA GiveBackIInv ==
  ASSUME HoldersCounted, IInv, (\E k \in pageKey : FetchReadFails(k)) \/ NewPageAllocFails
  PROVE  IInv'
<1> DEFINE a == acquireFrame
<1>1. CanAcquire /\ GiveBack(a) /\ UNCHANGED <<files, numPages, callVars>>
  BY DEF FetchReadFails, NewPageAllocFails
<1>2. Acquired(a)
  BY <1>1, AcquireFrame
<1>3. UNCHANGED frames \/ frames' = [frames EXCEPT ![a.frame] = Torn]
  BY DEF FetchReadFails, NewPageAllocFails
<1> HIDE DEF a
<1>4. /\ frames' \in [frameID -> Image]
      /\ \A g \in frameID : g # a.frame => frames'[g] = frames[g]
  BY <1>3 DEF IInv, TypeOK, Image
<1> QED
  BY <1>1, <1>2, <1>4, GiveBackPreserves

\* The failed write-back of acquireFrame: the victim is a candidate again.
LEMMA VictimWriteFailsIInv == IInv /\ VictimWriteFails => IInv'
<1> SUFFICES ASSUME IInv, VictimWriteFails PROVE IInv'
  OBVIOUS
<1> DEFINE v == Victim(replacer)
<1>1. /\ replacer # << >> /\ meta[v].dirty
      /\ replacer' = Unpin(AfterVictim(replacer), v)
      /\ UNCHANGED <<files, numPages, frames, meta, pageTable, freeList, callVars>>
  BY DEF VictimWriteFails
<1>2. PICK spoiled \in SUBSET {v} : disk' = WriteBack(spoiled, spoiled)
  BY DEF VictimWriteFails
<1>3. /\ v \in frameID /\ v \in Range(replacer)
      /\ AfterVictim(replacer) \in Seq(frameID) /\ IsInjective(AfterVictim(replacer))
      /\ Range(AfterVictim(replacer)) = Range(replacer) \ {v}
  BY <1>1, VictimRemoves DEF IInv, TypeOK, FrameStates
<1>4. v \in ResidentFrames
  BY <1>3 DEF IInv, FrameStates
<1>5. /\ replacer' \in Seq(frameID) /\ IsInjective(replacer')
      /\ Range(replacer') = Range(replacer)
  <2>1. /\ replacer' \in Seq(frameID) /\ IsInjective(replacer')
        /\ Range(replacer') = Range(AfterVictim(replacer)) \cup {v}
    BY <1>1, <1>3, UnpinAdds
  <2> QED
    BY <1>3, <2>1
<1>6. meta' = MarkClean({})
  BY <1>1 DEF MarkClean, IInv, TypeOK
<1>7. spoiled \in SUBSET ResidentFrames /\ \A g \in spoiled : meta[g].dirty
  BY <1>1, <1>2, <1>4
<1> QED
  BY <1>1, <1>2, <1>5, <1>6, <1>7, FlushPreserves

\* A caller that writes through its pointer touches just the frame it holds.
LEMMA StoreIInv ==
  ASSUME IInv, NEW h \in Holder, NEW v \in Value, Store(h, v)
  PROVE  IInv'
<1> USE NoFrameFacts
<1>1. /\ UNCHANGED <<files, numPages, disk, meta, pageTable, freeList, replacer, ptr, held>>
      /\ frames' = [frames EXCEPT ![ptr[h]] = v]
      /\ wrote' = [wrote EXCEPT ![h] = TRUE]
  BY DEF Store, diskVars
<1>2. ptr[h] \in frameID
  BY DEF Store, Idle, IInv, TypeOK
<1>3. TypeOK'
  BY <1>1, <1>2 DEF IInv, TypeOK, Image
<1>4. FrameStates' /\ TableMatchesMeta' /\ PointersValid'
  <2>1. FrameStates'
    BY <1>1 DEF IInv, FrameStates, ResidentFrames
  <2>2. TableMatchesMeta'
    BY <1>1 DEF IInv, TableMatchesMeta, Resident, Exists
  <2>3. PointersValid'
    BY <1>1 DEF IInv, PointersValid, ResidentFrames, Idle, HoldersOf
  <2> QED
    BY <2>1, <2>2, <2>3
<1>5. NoLostUpdate'
  <2>1. SUFFICES ASSUME NEW q \in pageKey, pageTable[q] # NoFrame,
                        frames'[pageTable[q]] # disk[q]
                 PROVE  meta[pageTable[q]].dirty \/ Racing(pageTable[q])'
    BY <1>1 DEF NoLostUpdate, Resident
  <2>2. \A x \in Holder : wrote[x] => wrote'[x]
    BY <1>1 DEF IInv, TypeOK
  <2>3. HoldersOf(pageTable[q])' = HoldersOf(pageTable[q])
    BY <1>1 DEF HoldersOf
  <2>4. CASE pageTable[q] = ptr[h]
    <3>1. h \in HoldersOf(pageTable[q]) /\ wrote'[h]
      BY <1>1, <2>4 DEF HoldersOf, IInv, TypeOK
    <3> QED
      BY <2>3, <3>1 DEF Racing
  <2>5. CASE pageTable[q] # ptr[h]
    <3>1. frames[pageTable[q]] # disk[q]
      BY <1>1, <2>1, <2>5 DEF IInv, TypeOK
    <3>2. meta[pageTable[q]].dirty \/ \E x \in HoldersOf(pageTable[q]) : wrote[x]
      BY <2>1, <3>1 DEF IInv, NoLostUpdate, Resident, Racing
    <3> QED
      BY <2>2, <2>3, <3>2 DEF Racing, HoldersOf
  <2> QED
    BY <2>4, <2>5
<1> QED
  BY <1>3, <1>4, <1>5 DEF IInv

\* unpin: one pin less, the dirty flag merged, a candidate again at zero.
LEMMA UnpinPageIInv ==
  ASSUME HoldersCounted, IInv, NEW h \in Holder, NEW d \in BOOLEAN, UnpinPage(h, d)
  PROVE  IInv'
<1> DEFINE f == pageTable[held[h]]
<1> USE NoFrameFacts
<1>1. /\ UNCHANGED <<files, numPages, disk, frames, pageTable, freeList>>
      /\ meta' = [meta EXCEPT ![f].dirty = @ \/ d, ![f].pinCount = @ - 1]
      /\ replacer' = IF meta[f].pinCount = 1 THEN Unpin(replacer, f) ELSE replacer
      /\ ptr' = [ptr EXCEPT ![h] = NoFrame]
      /\ held' = [held EXCEPT ![h] = NoKey]
      /\ wrote' = [wrote EXCEPT ![h] = FALSE]
      /\ wrote[h] => d
      /\ ptr[h] # NoFrame /\ meta[f].pinCount # 0
  BY DEF UnpinPage, Merged, diskVars, Idle
<1>2. held[h] \in pageKey /\ f = ptr[h] /\ f \in frameID
  BY <1>1 DEF IInv, TypeOK, PointersValid, Idle
<1>3. f \in ResidentFrames
  BY <1>2 DEF ResidentFrames
<1> HIDE DEF f
<1>4. /\ meta \in [frameID -> frameMeta]
      /\ \A g \in frameID : meta[g].pinCount \in Nat /\ meta[g].dirty \in BOOLEAN
  BY DEF IInv, TypeOK, frameMeta
<1>5. meta[f].pinCount - 1 \in Nat
  BY <1>1, <1>2, <1>4
<1>6. meta' = [meta EXCEPT ![f] = [key |-> meta[f].key, pinCount |-> meta[f].pinCount - 1,
                                   dirty |-> meta[f].dirty \/ d]]
  BY <1>1, <1>2, <1>4 DEF frameMeta
<1>7. \A g \in frameID : /\ meta'[g].key = meta[g].key
                         /\ meta'[g].dirty <=> (meta[g].dirty \/ (g = f /\ d))
                         /\ meta'[g].pinCount = IF g = f THEN meta[f].pinCount - 1
                                                ELSE meta[g].pinCount
  BY <1>2, <1>4, <1>6
<1>8. meta' \in [frameID -> frameMeta]
  BY <1>2, <1>4, <1>5, <1>6 DEF frameMeta
<1>9. /\ replacer' \in Seq(frameID) /\ IsInjective(replacer')
      /\ Range(replacer') = IF meta[f].pinCount = 1 THEN Range(replacer) \cup {f}
                            ELSE Range(replacer)
  <2>1. replacer \in Seq(frameID) /\ IsInjective(replacer)
    BY DEF IInv, TypeOK, FrameStates
  <2>2. /\ Unpin(replacer, f) \in Seq(frameID) /\ IsInjective(Unpin(replacer, f))
        /\ Range(Unpin(replacer, f)) = Range(replacer) \cup {f}
    BY <1>2, <2>1, UnpinAdds
  <2> QED
    BY <1>1, <2>1, <2>2, Zenon
<1>10. TypeOK'
  BY <1>1, <1>8, <1>9 DEF IInv, TypeOK
<1>11. ResidentFrames' = ResidentFrames /\ ResidentFrames \subseteq frameID
  BY <1>1 DEF ResidentFrames
<1>12. FrameStates'
  <2>1. meta[f].pinCount - 1 = 0 <=> meta[f].pinCount = 1
    BY <1>2, <1>4
  <2>2. {g \in ResidentFrames : meta'[g].pinCount = 0}
          = IF meta[f].pinCount = 1
            THEN {g \in ResidentFrames : meta[g].pinCount = 0} \cup {f}
            ELSE {g \in ResidentFrames : meta[g].pinCount = 0}
    <3>1. \A g \in ResidentFrames :
            meta'[g].pinCount = 0 <=> IF g = f THEN meta[f].pinCount = 1 ELSE meta[g].pinCount = 0
      BY <1>7, <1>11, <2>1, Zenon
    <3> QED
      BY <1>1, <1>3, <3>1, Zenon
  <2> QED
    BY <1>1, <1>9, <1>11, <2>2, Zenon DEF IInv, FrameStates
<1>13. TableMatchesMeta'
  <2>1. SUFFICES ASSUME NEW q \in pageKey, pageTable[q] # NoFrame
                 PROVE  meta'[pageTable[q]].key = q /\ Exists(q)'
    BY <1>1, Zenon DEF TableMatchesMeta, Resident
  <2>2. pageTable[q] \in frameID /\ meta[pageTable[q]].key = q /\ Exists(q)
    BY <2>1 DEF IInv, TypeOK, TableMatchesMeta, Resident
  <2>3. Exists(q)'
    BY <1>1, <2>2 DEF Exists
  <2> QED
    BY <1>7, <2>2, <2>3
<1>14. \A g \in frameID :
         HoldersOf(g)' = IF g = f THEN HoldersOf(g) \ {h} ELSE HoldersOf(g)
  BY <1>1, <1>2 DEF HoldersOf, IInv, TypeOK
<1>15. PointersValid'
  <2>1. \A x \in Holder : IF ptr'[x] = NoFrame THEN held'[x] = NoKey
                          ELSE held'[x] \in pageKey /\ pageTable'[held'[x]] = ptr'[x]
    BY <1>1 DEF IInv, TypeOK, PointersValid, Idle
  <2>2. ASSUME NEW g \in ResidentFrames'
        PROVE  meta'[g].pinCount = Cardinality(HoldersOf(g)')
    <3>1. g \in ResidentFrames /\ g \in frameID
      BY <1>11
    <3>2. meta[g].pinCount = Cardinality(HoldersOf(g))
      BY <3>1 DEF IInv, PointersValid
    <3>3. CASE g = f
      <4>1. h \in HoldersOf(g)
        BY <1>2, <3>3 DEF HoldersOf
      <4>2. Cardinality(HoldersOf(g) \ {h}) = Cardinality(HoldersOf(g)) - 1
        BY <4>1, HolderSets DEF HoldersCounted, Card
      <4> QED
        BY <1>7, <1>14, <3>1, <3>2, <3>3, <4>2, Zenon
    <3>4. CASE g # f
      BY <1>7, <1>14, <3>1, <3>2, <3>4
    <3> QED
      BY <3>3, <3>4
  <2> QED
    BY <2>1, <2>2 DEF PointersValid, Idle
<1>16. NoLostUpdate'
  <2>1. SUFFICES ASSUME NEW q \in pageKey, pageTable[q] # NoFrame,
                        frames[pageTable[q]] # disk[q]
                 PROVE  meta'[pageTable[q]].dirty \/ Racing(pageTable[q])'
    BY <1>1, Zenon DEF NoLostUpdate, Resident
  <2>2. pageTable[q] \in frameID
    BY <2>1 DEF IInv, TypeOK
  <2>3. CASE meta[pageTable[q]].dirty
    BY <1>7, <2>2, <2>3
  <2>4. CASE ~meta[pageTable[q]].dirty
    <3>1. PICK x \in Holder : ptr[x] = pageTable[q] /\ wrote[x]
      BY <2>1, <2>4 DEF IInv, NoLostUpdate, Resident, Racing, HoldersOf
    <3>2. CASE x = h
      BY <1>1, <1>2, <1>7, <2>2, <3>1, <3>2, Zenon
    <3>3. CASE x # h
      <4>1. ptr'[x] = pageTable'[q] /\ wrote'[x]
        BY <1>1, <3>1, <3>3 DEF IInv, TypeOK
      <4> QED
        BY <4>1 DEF Racing, HoldersOf
    <3> QED
      BY <3>2, <3>3
  <2> QED
    BY <2>3, <2>4
<1> QED
  BY <1>10, <1>12, <1>13, <1>15, <1>16 DEF IInv

\* flushPage and FlushAll, complete or cut short by a failed write.
LEMMA FlushIInv ==
  ASSUME IInv, (\E k \in pageKey : FlushPage(k)) \/ FlushAll
  PROVE  IInv'
<1>1. /\ UNCHANGED <<files, numPages, frames, pageTable, freeList, callVars>>
      /\ replacer' \in Seq(frameID) /\ IsInjective(replacer')
      /\ Range(replacer') = Range(replacer)
  BY Zenon DEF FlushPage, FlushAll, FlushAllDone, FlushAllFails, IInv, TypeOK, FrameStates
<1>2. DirtyFrames \subseteq ResidentFrames /\ \A g \in DirtyFrames : meta[g].dirty
  BY DEF DirtyFrames, ResidentFrames
<1>3. ASSUME NEW S \in SUBSET DirtyFrames, NEW torn \in SUBSET {g \in S : Racing(g)},
             disk' = WriteBack(S, torn), meta' = MarkClean(S)
      PROVE  IInv'
  <2>1. /\ S \in SUBSET ResidentFrames /\ S \in SUBSET S
        /\ \A g \in S : g \in torn => Racing(g)
    BY <1>2
  <2> QED
    BY <1>1, <1>3, <2>1, FlushPreserves
<1>4. ASSUME NEW done \in SUBSET DirtyFrames, NEW torn \in SUBSET {g \in done : Racing(g)},
             NEW spoiled \in SUBSET DirtyFrames, spoiled \cap done = {},
             disk' = WriteBack(done \cup spoiled, torn \cup spoiled), meta' = MarkClean(done)
      PROVE  IInv'
  <2> DEFINE S == done \cup spoiled
             T == torn \cup spoiled
  <2>1. /\ S \in SUBSET ResidentFrames /\ done \in SUBSET S
        /\ \A g \in done : g \in T => Racing(g)
        /\ \A g \in S : g \notin done => meta[g].dirty
    BY <1>2, <1>4
  <2>2. disk' = WriteBack(S, T)
    BY <1>4
  <2> HIDE DEF S, T
  <2> QED
    BY <1>1, <1>4, <2>1, <2>2, FlushPreserves, Zenon
<1>5. ASSUME NEW k \in pageKey, FlushPage(k) PROVE IInv'
  <2> DEFINE f == pageTable[k]
  <2>1. f \in DirtyFrames
    BY <1>5 DEF FlushPage
  <2>2. CASE \E torn \in SUBSET {g \in {f} : Racing(g)} :
               disk' = WriteBack({f}, torn) /\ meta' = MarkClean({f})
    BY <1>3, <2>1, <2>2
  <2>3. CASE (\E spoiled \in SUBSET {f} : disk' = WriteBack(spoiled, spoiled)) /\ UNCHANGED meta
    <3>1. PICK spoiled \in SUBSET {f} : disk' = WriteBack(spoiled, spoiled)
      BY <2>3
    <3>2. meta' = MarkClean({})
      BY <2>3 DEF MarkClean, IInv, TypeOK
    <3>3. {} \cup spoiled = spoiled /\ spoiled \in SUBSET DirtyFrames
      BY <2>1
    <3>4. disk' = WriteBack({} \cup spoiled, {} \cup spoiled)
      BY <3>1, <3>3
    <3> QED
      BY <1>4, <3>2, <3>3, <3>4, Zenon
  <2> QED
    BY <1>5, <2>2, <2>3 DEF FlushPage
<1>6. ASSUME FlushAll PROVE IInv'
  <2>1. CASE \E torn \in SUBSET {g \in DirtyFrames : Racing(g)} :
               disk' = WriteBack(DirtyFrames, torn) /\ meta' = MarkClean(DirtyFrames)
    BY <1>3, <2>1
  <2>2. CASE \E bad \in DirtyFrames, done \in SUBSET DirtyFrames :
               /\ bad \notin done
               /\ \E torn \in SUBSET {g \in done : Racing(g)}, spoiled \in SUBSET {bad} :
                    disk' = WriteBack(done \cup spoiled, torn \cup spoiled)
               /\ meta' = MarkClean(done)
    <3>1. PICK bad \in DirtyFrames, done \in SUBSET DirtyFrames :
                 /\ bad \notin done
                 /\ \E torn \in SUBSET {g \in done : Racing(g)}, spoiled \in SUBSET {bad} :
                      disk' = WriteBack(done \cup spoiled, torn \cup spoiled)
                 /\ meta' = MarkClean(done)
      BY <2>2, Zenon
    <3>2. PICK torn \in SUBSET {g \in done : Racing(g)}, spoiled \in SUBSET {bad} :
                 disk' = WriteBack(done \cup spoiled, torn \cup spoiled)
      BY <3>1, Zenon
    <3>3. spoiled \in SUBSET DirtyFrames /\ spoiled \cap done = {}
      BY <3>1, <3>2
    <3> QED
      BY <1>4, <3>1, <3>2, <3>3, Zenon
  <2> QED
    BY <1>6, <2>1, <2>2, Zenon DEF FlushAll, FlushAllDone, FlushAllFails
<1> QED
  BY <1>5, <1>6

\* A step of the pool, or of a caller, keeps the inductive invariant.
LEMMA NextIInv ==
  ASSUME HoldersCounted
  PROVE  IInv /\ [Next]_vars => IInv'
<1> SUFFICES ASSUME IInv, [Next]_vars PROVE IInv'
  OBVIOUS
<1>1. ASSUME UNCHANGED vars PROVE IInv'
  <2>1. UNCHANGED <<files, numPages, disk, frames, meta, pageTable, freeList, replacer,
                    ptr, held, wrote>>
    BY <1>1 DEF vars, diskVars, poolVars, callVars
  <2>2. TypeOK' /\ FrameStates'
    <3>1. TypeOK'
      BY <2>1 DEF IInv, TypeOK
    <3>2. FrameStates'
      BY <2>1 DEF IInv, FrameStates, ResidentFrames
    <3> QED
      BY <3>1, <3>2
  <2>3. TableMatchesMeta' /\ NoLostUpdate'
    BY <2>1 DEF IInv, TableMatchesMeta, Resident, Exists, NoLostUpdate, Racing, HoldersOf
  <2>4. PointersValid'
    BY <2>1 DEF IInv, PointersValid, Idle, HoldersOf, ResidentFrames
  <2> QED
    BY <2>2, <2>3, <2>4 DEF IInv
<1>2. CASE Register
  BY <1>2, RegisterIInv
<1>3. ASSUME NEW h \in Holder, NEW k \in pageKey, FetchPage(h, k) PROVE IInv'
  BY <1>1, <1>3, FetchHitIInv, FetchLoadIInv, GiveBackIInv, VictimWriteFailsIInv
  DEF FetchPage, NoFreeFrame
<1>4. ASSUME NEW h \in Holder, NEW i \in FileID, NewPage(h, i) PROVE IInv'
  BY <1>1, <1>4, NewPageBoundIInv, GiveBackIInv, VictimWriteFailsIInv
  DEF NewPage, NoFreeFrame
<1>5. ASSUME NEW h \in Holder, NEW v \in Value, Store(h, v) PROVE IInv'
  BY <1>5, StoreIInv
<1>6. ASSUME NEW h \in Holder, NEW d \in BOOLEAN, UnpinPage(h, d) PROVE IInv'
  BY <1>6, UnpinPageIInv
<1>7. ASSUME NEW k \in pageKey, UnpinRefused(k) \/ FlushPage(k) \/ FlushPageSkips(k) PROVE IInv'
  BY <1>1, <1>7, FlushIInv DEF UnpinRefused, FlushPageSkips
<1>8. CASE FlushAll
  BY <1>8, FlushIInv
<1> QED
  BY <1>1, <1>2, <1>3, <1>4, <1>5, <1>6, <1>7, <1>8 DEF Next


-----------------------------------------------------------------------------
(* Refinement.                                                             *)

\* Dropping the page of an acquired frame is invisible: its file has it all.
LEMMA GiveBackInvisible ==
  ASSUME IInv, NEW a, Acquired(a), GiveBack(a),
         \A g \in frameID : g # a.frame => frames'[g] = frames[g]
  PROVE  StoreImage' = StoreImage
<1>1. ASSUME NEW k \in pageKey PROVE StoreImage'[k] = StoreImage[k]
  <2>1. /\ pageTable'[k] = IF pageTable[k] = a.frame THEN NoFrame ELSE pageTable[k]
        /\ disk'[k] = IF pageTable[k] = a.frame THEN frames[a.frame] ELSE disk[k]
    BY DEF GiveBack, Acquired
  <2>2. pageTable[k] = NoFrame \/ pageTable[k] \in frameID
    BY DEF IInv, TypeOK
  <2>3. /\ StoreImage'[k] = IF pageTable'[k] = NoFrame THEN disk'[k] ELSE frames'[pageTable'[k]]
        /\ StoreImage[k] = IF pageTable[k] = NoFrame THEN disk[k] ELSE frames[pageTable[k]]
    BY DEF StoreImage, Resident
  <2>4. a.frame \in frameID /\ a.frame # NoFrame
    BY NoFrameFacts DEF Acquired
  <2>5. CASE pageTable[k] = a.frame
    BY <2>1, <2>3, <2>4, <2>5
  <2>6. CASE pageTable[k] # a.frame
    BY <2>1, <2>2, <2>3, <2>6
  <2> QED
    BY <2>5, <2>6
<1> QED
  BY <1>1 DEF StoreImage

\* Binding an acquired frame changes what the bound page holds, and no other.
LEMMA BindVisible ==
  ASSUME IInv, NEW a, Acquired(a), NEW h, NEW k \in pageKey, NEW img \in Image,
         Binds(a, h, k, img)
  PROVE  StoreImage' = [StoreImage EXCEPT ![k] = img]
<1>1. ASSUME NEW q \in pageKey
      PROVE  StoreImage'[q] = IF q = k THEN img ELSE StoreImage[q]
  <2>1. pageTable'[q] = IF q = k THEN a.frame
                        ELSE IF pageTable[q] = a.frame THEN NoFrame ELSE pageTable[q]
    BY DEF Binds, bindFrame, Acquired
  <2>2. disk'[q] = IF q = k THEN img
                   ELSE IF pageTable[q] = a.frame THEN frames[a.frame] ELSE disk[q]
    BY DEF Binds, Acquired
  <2>3. pageTable[q] = NoFrame \/ pageTable[q] \in frameID
    BY DEF IInv, TypeOK
  <2>4. \A g \in frameID : frames'[g] = IF g = a.frame THEN img ELSE frames[g]
    BY DEF Binds, IInv, TypeOK
  <2>5. /\ StoreImage'[q] = IF pageTable'[q] = NoFrame THEN disk'[q] ELSE frames'[pageTable'[q]]
        /\ StoreImage[q] = IF pageTable[q] = NoFrame THEN disk[q] ELSE frames[pageTable[q]]
    BY DEF StoreImage, Resident
  <2>6. a.frame \in frameID
    BY DEF Acquired
  <2> QED
    BY <2>1, <2>2, <2>3, <2>4, <2>5, <2>6, NoFrameFacts
<1> QED
  BY <1>1, Zenon DEF StoreImage

\* A write-back of resident frames is invisible, whole, torn or failed.
LEMMA FlushInvisible ==
  ASSUME IInv, NEW S \in SUBSET ResidentFrames, NEW torn,
         disk' = WriteBack(S, torn), UNCHANGED <<frames, pageTable>>
  PROVE  StoreImage' = StoreImage
<1>1. \A k \in pageKey : pageTable[k] = NoFrame => WriteBack(S, torn)[k] = disk[k]
  BY WriteBackFacts, NoFrameFacts DEF ResidentFrames
<1>2. \A k \in pageKey : pageTable[k] = NoFrame => disk'[k] = disk[k]
  BY <1>1
<1> QED
  BY <1>2 DEF StoreImage, Resident

\* A new pool is an empty store.
LEMMA InitRefines == Init => PS!Init
BY DEF Init, Started, NewBufferPool, PS!Init, StoreImage, Resident, PS!FileID, FileID, PS!Key, PS!PageID,
       pageKey, PageID, NoKey, PS!NoKey

\* Pool and store have the same page keys.
LEMMA SameSets == PS!FileID = FileID /\ PS!Key = pageKey /\ PS!NoKey = NoKey
BY DEF PS!FileID, FileID, PS!Key, pageKey, PS!PageID, PageID, PS!NoKey, NoKey

\* Every step of the pool is a step of PageStore or leaves its variables alone.
LEMMA NextRefines ==
  ASSUME HoldersCounted
  PROVE  IInv /\ [Next]_vars => [PS!Next]_(PS!vars)
<1> SUFFICES ASSUME IInv, [Next]_vars PROVE PS!Next \/ UNCHANGED PS!vars
  OBVIOUS
<1> USE SameSets, NoFrameFacts
<1>0. \A h \in Holder : Idle(h) => held[h] = NoKey
  BY DEF IInv, PointersValid
<1>1. ASSUME UNCHANGED <<files, numPages, held, wrote>>, StoreImage' = StoreImage
      PROVE  UNCHANGED PS!vars
  BY <1>1 DEF PS!vars
<1>2. ASSUME UNCHANGED vars PROVE UNCHANGED PS!vars
  BY <1>1, <1>2 DEF vars, diskVars, poolVars, callVars, StoreImage, Resident
<1>3. CASE Register
  <2>1. PICK n \in 0..MaxPages : numPages' = [numPages EXCEPT ![files] = n]
    BY <1>3, Zenon DEF Register
  <2>2. StoreImage' = StoreImage
    BY <1>3 DEF Register, poolVars, StoreImage, Resident
  <2>3. PS!Register(n)
    BY <1>3, <2>1, <2>2, Zenon DEF Register, callVars, PS!Register
  <2> QED
    BY <2>3 DEF PS!Next
<1>4. ASSUME NEW h \in Holder, NEW k \in pageKey, Idle(h), FetchHit(h, k) PROVE PS!Next
  <2>1. StoreImage' = StoreImage
    BY <1>4 DEF FetchHit, diskVars, StoreImage, Resident
  <2>2. Exists(k)
    BY <1>4 DEF FetchHit, IInv, TableMatchesMeta
  <2>3. PS!Fetch(h, k)
    BY <1>0, <1>4, <2>1, <2>2 DEF FetchHit, Return, diskVars, PS!Fetch, PS!Exists, Exists
  <2> QED
    BY <2>3 DEF PS!Next
<1>5. ASSUME NEW h \in Holder, NEW k \in pageKey, Idle(h), FetchLoad(h, k) PROVE PS!Next
  <2> DEFINE a == acquireFrame
  <2>1. Acquired(a)
    BY <1>5, AcquireFrame DEF FetchLoad
  <2>2. /\ disk' = a.disk /\ frames' = [frames EXCEPT ![a.frame] = a.disk[k]]
        /\ freeList' = a.freeList /\ replacer' = a.replacer
        /\ bindFrame(a, k) /\ Return(h, k, a.frame)
        /\ ~Resident(k) /\ Exists(k) /\ UNCHANGED <<files, numPages>>
    BY <1>5 DEF FetchLoad
  <2> HIDE DEF a
  <2>3. a.disk[k] \in Image /\ disk' = [a.disk EXCEPT ![k] = a.disk[k]]
    BY <2>1, <2>2 DEF Acquired
  <2>4. Binds(a, h, k, a.disk[k])
    <3>1. /\ numPages' \in [FileID -> 0..MaxPages]
          /\ \A i \in FileID : numPages[i] <= numPages'[i]
      <4>1. numPages \in [FileID -> 0..MaxPages]
        BY DEF IInv, TypeOK
      <4>2. numPages' = numPages
        BY <2>2
      <4>3. \A i \in FileID : numPages[i] <= numPages[i]
        BY <4>1, BoundsAssumption
      <4> QED
        BY <4>1, <4>2, <4>3, Zenon
    <3>2. Exists(k)'
      BY <2>2 DEF Exists
    <3> QED
      BY <2>2, <2>3, <3>1, <3>2 DEF Binds
  <2>5. StoreImage' = [StoreImage EXCEPT ![k] = a.disk[k]]
    BY <2>1, <2>3, <2>4, BindVisible
  <2>6. a.disk[k] = StoreImage[k]
    BY <2>1, <2>2, Zenon DEF Acquired, StoreImage, Resident
  <2>7. StoreImage' = StoreImage
    BY <2>5, <2>6, Zenon DEF StoreImage
  <2>8. PS!Fetch(h, k)
    BY <1>0, <1>5, <2>2, <2>7 DEF Return, PS!Fetch, PS!Exists, Exists
  <2> QED
    BY <2>8 DEF PS!Next
<1>6. ASSUME (\E k \in pageKey : FetchReadFails(k)) \/ NewPageAllocFails
      PROVE  UNCHANGED PS!vars
  <2> DEFINE a == acquireFrame
  <2>1. CanAcquire /\ GiveBack(a) /\ UNCHANGED <<files, numPages, callVars>>
    BY <1>6 DEF FetchReadFails, NewPageAllocFails
  <2>2. Acquired(a)
    BY <2>1, AcquireFrame
  <2>3. UNCHANGED frames \/ frames' = [frames EXCEPT ![a.frame] = Torn]
    BY <1>6 DEF FetchReadFails, NewPageAllocFails
  <2> HIDE DEF a
  <2>4. \A g \in frameID : g # a.frame => frames'[g] = frames[g]
    BY <2>3 DEF IInv, TypeOK
  <2>5. StoreImage' = StoreImage
    BY <2>1, <2>2, <2>4, GiveBackInvisible
  <2> QED
    BY <1>1, <2>1, <2>5 DEF callVars
<1>7. ASSUME VictimWriteFails PROVE UNCHANGED PS!vars
  <2> DEFINE v == Victim(replacer)
  <2>1. PICK spoiled \in SUBSET {v} : disk' = WriteBack(spoiled, spoiled)
    BY <1>7 DEF VictimWriteFails
  <2>2. v \in Range(replacer)
    BY <1>7, VictimRemoves DEF VictimWriteFails, IInv, TypeOK, FrameStates
  <2>3. spoiled \in SUBSET ResidentFrames
    BY <2>1, <2>2 DEF IInv, FrameStates
  <2>4. UNCHANGED <<files, numPages, frames, pageTable, callVars>>
    BY <1>7 DEF VictimWriteFails
  <2>5. StoreImage' = StoreImage
    BY <2>1, <2>3, <2>4, FlushInvisible
  <2> QED
    BY <1>1, <2>4, <2>5 DEF callVars
<1>8. ASSUME NEW h \in Holder, NEW i \in FileID, i < files, Idle(h), NewPageBound(h, i)
      PROVE  PS!Next
  <2> DEFINE a == acquireFrame
             k == <<i, numPages[i]>>
  <2> USE BoundsAssumption
  <2>1. Acquired(a)
    BY <1>8, AcquireFrame DEF NewPageBound
  <2>2. /\ numPages[i] < MaxPages
        /\ numPages' = [numPages EXCEPT ![i] = @ + 1]
        /\ disk' = [a.disk EXCEPT ![k] = Blank]
        /\ frames' = [frames EXCEPT ![a.frame] = Blank]
        /\ freeList' = a.freeList /\ replacer' = a.replacer
        /\ bindFrame(a, k) /\ Return(h, k, a.frame)
        /\ files' = files
    BY <1>8 DEF NewPageBound, HasRoom
  <2> HIDE DEF a
  <2>3. numPages[i] \in 0..MaxPages /\ k \in pageKey
    <3>1. numPages[i] \in 0..MaxPages
      BY DEF IInv, TypeOK
    <3> QED
      BY <2>2, <3>1 DEF pageKey, PageID
  <2>4. /\ numPages' \in [FileID -> 0..MaxPages]
        /\ \A j \in FileID : numPages[j] <= numPages'[j]
    <3>1. numPages[i] + 1 \in 0..MaxPages
      <4>1. numPages[i] \in 0..MaxPages
        BY <2>3
      <4>2. numPages[i] < MaxPages
        BY <2>2
      <4> QED
        BY <4>1, <4>2
    <3>2. numPages \in [FileID -> 0..MaxPages] /\ MaxPages \in Nat
      BY DEF IInv, TypeOK
    <3>3. numPages' = [numPages EXCEPT ![i] = @ + 1]
      BY <2>2
    <3>4. \A j \in FileID : /\ numPages[j] \in 0..MaxPages
                            /\ numPages'[j] = IF j = i THEN numPages[i] + 1 ELSE numPages[j]
      BY <3>2, <3>3
    <3>5. \A j \in FileID : numPages'[j] \in 0..MaxPages /\ numPages[j] <= numPages'[j]
      BY <3>1, <3>4
    <3>6. DOMAIN numPages' = FileID /\ numPages' = [j \in FileID |-> numPages'[j]]
      BY <3>2, <3>3
    <3> QED
      BY <3>5, <3>6
  <2>5. k[1] < files' /\ k[2] < numPages'[k[1]]
    <3>1. k[1] = i /\ k[2] = numPages[i] /\ files' = files /\ i < files
      BY <1>8, <2>2
    <3>2. numPages'[i] = numPages[i] + 1
      <4>1. numPages \in [FileID -> 0..MaxPages]
        BY DEF IInv, TypeOK
      <4> QED
        BY <2>2, <4>1
    <3> QED
      BY <2>3, <3>1, <3>2
  <2>6. PICK q \in pageKey : q = k
    BY <2>3
  <2>7. Exists(q)'
    BY <2>5, <2>6, Zenon DEF Exists
  <2>8. Binds(a, h, q, Blank)
    BY <2>2, <2>4, <2>6, <2>7 DEF Binds
  <2>9. Blank \in Image
    BY DEF Image
  <2>10. StoreImage' = [StoreImage EXCEPT ![q] = Blank]
    BY <2>1, <2>8, <2>9, BindVisible
  <2>11. PS!NewPage(h, i)
    BY <1>0, <1>8, <2>2, <2>6, <2>10 DEF Return, PS!NewPage
  <2> QED
    BY <2>11 DEF PS!Next
<1>9. ASSUME NEW h \in Holder, NEW v \in Value, Store(h, v) PROVE PS!Next
  <2>1. held[h] \in pageKey /\ pageTable[held[h]] = ptr[h] /\ ptr[h] \in frameID
    BY <1>9 DEF Store, Idle, IInv, TypeOK, PointersValid
  <2>2. \A q \in pageKey : pageTable[q] = ptr[h] => q = held[h]
    BY <2>1 DEF IInv, TableMatchesMeta, Resident
  <2>3. /\ frames' = [frames EXCEPT ![ptr[h]] = v]
        /\ UNCHANGED <<files, numPages, disk, pageTable, held>>
        /\ wrote' = [wrote EXCEPT ![h] = TRUE]
    BY <1>9 DEF Store, diskVars
  <2>4. StoreImage' = [StoreImage EXCEPT ![held[h]] = v]
    <3>1. ASSUME NEW q \in pageKey
          PROVE  StoreImage'[q] = IF q = held[h] THEN v ELSE StoreImage[q]
      BY <2>1, <2>2, <2>3 DEF StoreImage, Resident, IInv, TypeOK
    <3> QED
      BY <3>1, Zenon DEF StoreImage
  <2>5. PS!Store(h, v)
    BY <2>1, <2>3, <2>4 DEF PS!Store
  <2> QED
    BY <2>5 DEF PS!Next
<1>10. ASSUME NEW h \in Holder, NEW d \in BOOLEAN, UnpinPage(h, d) PROVE PS!Next
  <2>1. held[h] # NoKey
    BY <1>10 DEF UnpinPage, Idle, IInv, PointersValid
  <2>2. StoreImage' = StoreImage
    BY <1>10 DEF UnpinPage, diskVars, StoreImage, Resident
  <2>3. PS!Release(h)
    BY <1>10, <2>1, <2>2 DEF UnpinPage, diskVars, PS!Release
  <2> QED
    BY <2>3 DEF PS!Next
<1>11. ASSUME (\E k \in pageKey : FlushPage(k)) \/ FlushAll PROVE UNCHANGED PS!vars
  <2>1. UNCHANGED <<files, numPages, frames, pageTable, callVars>>
    BY <1>11, Zenon DEF FlushPage, FlushAll, FlushAllDone, FlushAllFails
  <2>2. \E S \in SUBSET DirtyFrames, torn \in SUBSET frameID : disk' = WriteBack(S, torn)
    <3>0. DirtyFrames \subseteq frameID
      BY DEF DirtyFrames
    <3>1. CASE \E k \in pageKey : FlushPage(k)
      <4>1. PICK k \in pageKey : FlushPage(k)
        BY <3>1
      <4>2. \A S \in SUBSET {pageTable[k]} : S \in SUBSET DirtyFrames
        BY <4>1 DEF FlushPage
      <4>3. \E S \in SUBSET {pageTable[k]}, torn \in SUBSET {pageTable[k]} :
              disk' = WriteBack(S, torn)
        BY <4>1 DEF FlushPage
      <4> QED
        BY <3>0, <4>2, <4>3
    <3>2. CASE FlushAll
      <4>1. CASE \E torn \in SUBSET DirtyFrames : disk' = WriteBack(DirtyFrames, torn)
        BY <3>0, <4>1
      <4>2. CASE \E bad \in DirtyFrames, done \in SUBSET DirtyFrames :
                   \E torn \in SUBSET done, spoiled \in SUBSET {bad} :
                     disk' = WriteBack(done \cup spoiled, torn \cup spoiled)
        <5>1. PICK bad \in DirtyFrames, done \in SUBSET DirtyFrames :
                     \E torn \in SUBSET done, spoiled \in SUBSET {bad} :
                       disk' = WriteBack(done \cup spoiled, torn \cup spoiled)
          BY <4>2, Zenon
        <5>2. PICK torn \in SUBSET done, spoiled \in SUBSET {bad} :
                     disk' = WriteBack(done \cup spoiled, torn \cup spoiled)
          BY <5>1, Zenon
        <5>3. /\ done \cup spoiled \in SUBSET DirtyFrames
              /\ torn \cup spoiled \in SUBSET frameID
          BY <3>0, <5>1, <5>2
        <5> QED
          BY <5>2, <5>3
      <4>3. \/ \E torn \in SUBSET DirtyFrames : disk' = WriteBack(DirtyFrames, torn)
            \/ \E bad \in DirtyFrames, done \in SUBSET DirtyFrames :
                 \E torn \in SUBSET done, spoiled \in SUBSET {bad} :
                   disk' = WriteBack(done \cup spoiled, torn \cup spoiled)
        <5>1. \A D : \A torn \in SUBSET {g \in D : Racing(g)} : torn \in SUBSET D
          OBVIOUS
        <5> QED
          BY <3>2, <5>1, Zenon DEF FlushAll, FlushAllDone, FlushAllFails
      <4> QED
        BY <4>1, <4>2, <4>3, Zenon
    <3> QED
      BY <1>11, <3>1, <3>2
  <2>3. PICK S \in SUBSET DirtyFrames, torn \in SUBSET frameID : disk' = WriteBack(S, torn)
    BY <2>2
  <2>4. S \in SUBSET ResidentFrames
    BY <2>3 DEF DirtyFrames, ResidentFrames
  <2>5. StoreImage' = StoreImage
    BY <2>1, <2>3, <2>4, FlushInvisible
  <2> QED
    BY <1>1, <2>1, <2>5 DEF callVars
<1>12. ASSUME NEW h \in Holder, NEW k \in pageKey, FetchPage(h, k)
       PROVE  PS!Next \/ UNCHANGED PS!vars
  BY <1>2, <1>4, <1>5, <1>6, <1>7, <1>12 DEF FetchPage, NoFreeFrame
<1>13. ASSUME NEW h \in Holder, NEW i \in FileID, NewPage(h, i)
       PROVE  PS!Next \/ UNCHANGED PS!vars
  BY <1>2, <1>6, <1>7, <1>8, <1>13 DEF NewPage, NoFreeFrame
<1>14. ASSUME NEW k \in pageKey, UnpinRefused(k) \/ FlushPage(k) \/ FlushPageSkips(k)
       PROVE  UNCHANGED PS!vars
  BY <1>2, <1>11, <1>14 DEF UnpinRefused, FlushPageSkips
<1> QED
  BY <1>2, <1>3, <1>9, <1>10, <1>11, <1>12, <1>13, <1>14 DEF Next


\* What FlushAll has put in a file and nobody has written since is there.
Flushed == \A k \in pageKey : flushed[k] # None => Exists(k) /\ disk[k] = flushed[k]

\* Sync's snapshot has the file of every such page, and the files it is past
\* are on the device.
Syncing ==
  sync.pc = "sync" =>
    /\ sync.next <= sync.n /\ sync.n <= files
    /\ \A k \in pageKey : flushed[k] # None =>
         k[1] < sync.n /\ (k[1] < sync.next => durable[k] = flushed[k])

Promised ==
  \A k \in pageKey : promised[k] # None => durable[k] = promised[k] /\ disk[k] = promised[k]

\* The device has no page that its open file does not have.
Known == \A k \in pageKey : k[1] < files /\ durable[k] # Absent => Exists(k)

CInv == IInv /\ CheckpointTypeOK /\ Flushed /\ Syncing /\ Promised /\ Known

\* A new process keeps the pool's invariant: StartedIInv of the next state.
LEMMA RestartIInv == Started' /\ (disk \in [pageKey -> Image])' => IInv'
<1>1. Started /\ disk \in [pageKey -> Image] => IInv
  BY StartedIInv
<1> QED
  BY <1>1, PTL

\* No step of the pool changes a file count but Register, which adds one file;
\* page counts only grow.
LEMMA PagesStay ==
  ASSUME IInv, [Next]_vars
  PROVE  /\ files' = files \/ files' = files + 1
         /\ \A k \in pageKey : Exists(k) => Exists(k)'
<1> USE DEF Exists
<1>0. files \in 0..MaxFiles /\ numPages \in [FileID -> 0..MaxPages]
  BY DEF IInv, TypeOK
<1>1. CASE UNCHANGED <<files, numPages>>
  BY <1>1
<1>2. CASE Register
  <2>1. files' = files + 1 /\ \E n \in 0..MaxPages : numPages' = [numPages EXCEPT ![files] = n]
    BY <1>2, Zenon DEF Register
  <2>2. \A k \in pageKey : k[1] < files => k[1] \in FileID /\ numPages'[k[1]] = numPages[k[1]]
    BY <1>0, <2>1 DEF pageKey, FileID
  <2> QED
    BY <1>0, <2>1, <2>2 DEF pageKey, FileID
<1>3. ASSUME NEW h \in Holder, NEW i \in FileID, NewPageBound(h, i)
      PROVE  /\ files' = files
             /\ \A k \in pageKey : Exists(k) => Exists(k)'
  <2>1. files' = files /\ numPages' = [numPages EXCEPT ![i] = @ + 1]
    BY <1>3 DEF NewPageBound
  <2>2. \A j \in FileID : numPages[j] <= numPages'[j] /\ numPages[j] \in Nat /\ numPages'[j] \in Nat
    BY <1>0, <2>1
  <2>3. \A k \in pageKey : k[1] \in FileID /\ k[2] \in Nat
    BY DEF pageKey, PageID
  <2> QED
    BY <2>1, <2>2, <2>3
<1> HIDE DEF Exists
<1>4. ASSUME NEW h \in Holder, NEW k \in pageKey, FetchPage(h, k)
      PROVE  UNCHANGED <<files, numPages>>
  BY <1>4 DEF FetchPage, FetchHit, FetchLoad, FetchReadFails, NoFreeFrame, VictimWriteFails,
              vars, diskVars
<1>5. ASSUME NEW h \in Holder, NEW i \in FileID, NewPage(h, i), ~NewPageBound(h, i)
      PROVE  UNCHANGED <<files, numPages>>
  BY <1>5 DEF NewPage, NewPageAllocFails, NoFreeFrame, VictimWriteFails, vars, diskVars
<1>6. ASSUME NEW h \in Holder, (\E v \in Value : Store(h, v)) \/ \E d \in BOOLEAN : UnpinPage(h, d)
      PROVE  UNCHANGED <<files, numPages>>
  BY <1>6, Zenon DEF Store, UnpinPage, diskVars
<1>7. ASSUME NEW k \in pageKey, UnpinRefused(k) \/ FlushPage(k) \/ FlushPageSkips(k)
      PROVE  UNCHANGED <<files, numPages>>
  BY <1>7 DEF UnpinRefused, FlushPage, FlushPageSkips, vars, diskVars
<1>8. ASSUME FlushAll PROVE UNCHANGED <<files, numPages>>
  BY <1>8 DEF FlushAll, FlushAllDone, FlushAllFails
<1>9. ASSUME UNCHANGED vars PROVE UNCHANGED <<files, numPages>>
  BY <1>9 DEF vars, diskVars
<1> QED
  BY <1>1, <1>2, <1>3, <1>4, <1>5, <1>6, <1>7, <1>8, <1>9, Zenon DEF Next

\* A page no caller is writing is in its file, as callers left it, after FlushAll.
LEMMA FlushAllWrites ==
  ASSUME IInv, FlushAllDone, NEW k \in pageKey, ~BeingWritten(k)
  PROVE  disk'[k] = Contents(k)
<1>1. PICK torn \in SUBSET {g \in DirtyFrames : Racing(g)} : disk' = WriteBack(DirtyFrames, torn)
  BY DEF FlushAllDone
<1>2. DirtyFrames \in SUBSET ResidentFrames
  BY DEF DirtyFrames, ResidentFrames
<1>3. disk'[k] = IF pageTable[k] \notin DirtyFrames THEN disk[k]
                 ELSE IF pageTable[k] \in torn THEN Torn
                 ELSE frames[pageTable[k]]
  <2> DEFINE W == WriteBack(DirtyFrames, torn)
  <2>1. \A q \in pageKey : W[q] = IF pageTable[q] \notin DirtyFrames THEN disk[q]
                                  ELSE IF pageTable[q] \in torn THEN Torn
                                  ELSE frames[pageTable[q]]
    BY <1>2, WriteBackFacts, Zenon
  <2>2. disk' = W
    BY <1>1
  <2> HIDE DEF W
  <2> QED
    BY <2>1, <2>2
<1>4. CASE ~Resident(k)
  <2>1. pageTable[k] \notin DirtyFrames
    BY <1>4, NoFrameFacts DEF Resident, DirtyFrames
  <2> QED
    BY <1>3, <1>4, <2>1 DEF Contents
<1>5. CASE Resident(k)
  <2>1. pageTable[k] \notin torn
    BY <1>1, <1>5 DEF BeingWritten
  <2>2. pageTable[k] \in frameID
    BY <1>5 DEF IInv, TypeOK, Resident
  <2>3. pageTable[k] \notin DirtyFrames => frames[pageTable[k]] = disk[k]
    BY <1>5, <2>2 DEF DirtyFrames, IInv, NoLostUpdate, BeingWritten
  <2> QED
    BY <1>3, <1>5, <2>1, <2>3 DEF Contents
<1> QED
  BY <1>4, <1>5

\* The pool goes on: what it writes is no longer covered, the rest stays.
LEMMA PoolStepCInv ==
  ASSUME HoldersCounted
  PROVE  CInv /\ PoolStep => CInv'
<1> SUFFICES ASSUME CInv, PoolStep PROVE CInv'
  OBVIOUS
<1> USE DEF CInv
<1>1. IInv'
  BY NextIInv DEF PoolStep
<1>2. /\ files' = files \/ files' = files + 1
      /\ \A k \in pageKey : Exists(k) => Exists(k)'
  BY PagesStay DEF PoolStep
<1>3. /\ flushed' = Unwritten(flushed) /\ promised' = Unwritten(promised)
      /\ UNCHANGED <<durable, sync>>
  BY DEF PoolStep
<1>4. \A k \in pageKey : /\ flushed'[k] # None => flushed'[k] = flushed[k] /\ disk'[k] = disk[k]
                         /\ promised'[k] # None => promised'[k] = promised[k] /\ disk'[k] = disk[k]
  BY <1>3 DEF Unwritten
<1>5. CheckpointTypeOK'
  BY <1>3 DEF CheckpointTypeOK, Unwritten
<1>6. Flushed' /\ Promised'
  <2>1. Flushed'
    BY <1>2, <1>4 DEF Flushed
  <2>2. Promised'
    BY <1>3, <1>4 DEF Promised
  <2> QED
    BY <2>1, <2>2
<1>7. files \in Nat /\ sync.n \in Nat
  BY DEF IInv, TypeOK, CheckpointTypeOK
<1>8. Syncing'
  <2>1. SUFFICES ASSUME sync.pc = "sync"
                 PROVE  /\ sync.next <= sync.n /\ sync.n <= files'
                        /\ \A k \in pageKey : flushed'[k] # None =>
                             k[1] < sync.n /\ (k[1] < sync.next => durable[k] = flushed'[k])
    BY <1>3 DEF Syncing
  <2>2. sync.next <= sync.n /\ sync.n <= files'
    BY <1>2, <1>7, <2>1 DEF Syncing
  <2> QED
    BY <1>4, <2>1, <2>2 DEF Syncing
<1>9. Known'
  <2>1. SUFFICES ASSUME NEW k \in pageKey, k[1] < files', durable[k] # Absent
                 PROVE  Exists(k)'
    BY <1>3 DEF Known
  <2>2. CASE k[1] < files
    BY <1>2, <2>1, <2>2 DEF Known
  <2>3. CASE ~(k[1] < files)
    <3>1. k[1] = files /\ k[2] \in PageID /\ k = <<files, k[2]>> /\ files' # files
      BY <1>2, <1>7, <2>1, <2>3 DEF pageKey, FileID
    <3>2. k[2] < numPages'[files]
      BY <2>1, <3>1 DEF PoolStep, FileHasPages
    <3> QED
      BY <2>1, <3>1, <3>2 DEF Exists
  <2> QED
    BY <2>2, <2>3
<1> QED
  BY <1>1, <1>5, <1>6, <1>8, <1>9

\* FlushAll: the pages it covers are in their files.
LEMMA FlushCInv ==
  ASSUME HoldersCounted
  PROVE  CInv /\ Flush => CInv'
<1> SUFFICES ASSUME CInv, Flush PROVE CInv'
  OBVIOUS
<1> USE DEF CInv
<1>1. FlushAllDone /\ [Next]_vars
  BY DEF Flush, Next, FlushAll
<1>2. IInv' /\ \A k \in pageKey : Exists(k) => Exists(k)'
  BY <1>1, NextIInv, PagesStay, Zenon
<1>3. /\ flushed' = [k \in pageKey |-> IF Exists(k) /\ ~BeingWritten(k) THEN Contents(k) ELSE None]
      /\ promised' = Unwritten(promised)
      /\ sync' = [sync EXCEPT !.pc = "flushed"]
      /\ UNCHANGED <<durable, files, numPages>>
  BY DEF Flush, FlushAllDone
<1>4. \A k \in pageKey : Contents(k) \in Image
  BY NoFrameFacts DEF Contents, Resident, IInv, TypeOK
<1>5. CheckpointTypeOK'
  <2>1. flushed' \in [pageKey -> Image \cup {None}]
    BY <1>3, <1>4
  <2>2. promised' \in [pageKey -> Image \cup {None}]
    BY <1>3 DEF CheckpointTypeOK, Unwritten
  <2>3. sync' \in [pc : {"idle", "flushed", "sync"}, next : 0 .. MaxFiles, n : 0 .. MaxFiles]
    BY <1>3 DEF CheckpointTypeOK
  <2> QED
    BY <1>3, <2>1, <2>2, <2>3 DEF CheckpointTypeOK
<1>6. Flushed'
  <2>1. SUFFICES ASSUME NEW k \in pageKey, flushed'[k] # None
                 PROVE  Exists(k)' /\ disk'[k] = flushed'[k]
    BY DEF Flushed
  <2>2. Exists(k) /\ ~BeingWritten(k) /\ flushed'[k] = Contents(k)
    BY <1>3, <2>1
  <2>3. disk'[k] = Contents(k)
    BY <1>1, <2>2, FlushAllWrites
  <2> QED
    BY <1>2, <2>2, <2>3
<1>7. Promised'
  BY <1>3 DEF Promised, Unwritten
<1>8. sync'.pc # "sync"
  BY <1>3 DEF CheckpointTypeOK
<1>9. Known'
  BY <1>3 DEF Known, Exists
<1> QED
  BY <1>2, <1>5, <1>6, <1>7, <1>8, <1>9 DEF Syncing

\* The steps that leave the pool alone: Sync's, and the operating system's.
LEMMA PoolUnchanged ==
  ASSUME HoldersCounted, CInv, UNCHANGED vars
  PROVE  /\ IInv' /\ UNCHANGED <<files, numPages, disk>>
         /\ \A k \in pageKey : Exists(k)' = Exists(k)
<1>1. IInv'
  BY NextIInv DEF CInv
<1>2. UNCHANGED <<files, numPages, disk>>
  BY DEF vars, diskVars
<1> QED
  BY <1>1, <1>2 DEF Exists

\* Sync takes its snapshot, which has every file that FlushAll wrote.
LEMMA SyncBeginsCInv ==
  ASSUME HoldersCounted
  PROVE  CInv /\ SyncBegins => CInv'
<1> SUFFICES ASSUME CInv, SyncBegins PROVE CInv'
  OBVIOUS
<1>1. /\ UNCHANGED <<vars, durable, flushed, promised>>
      /\ sync' = [pc |-> "sync", next |-> 0, n |-> files]
  BY DEF SyncBegins, Snapshot
<1>2. /\ IInv' /\ UNCHANGED <<files, numPages, disk>>
      /\ \A k \in pageKey : Exists(k)' = Exists(k)
  BY <1>1, PoolUnchanged
<1>3. files \in 0 .. MaxFiles /\ 0 \in 0 .. MaxFiles
  BY BoundsAssumption DEF CInv, IInv, TypeOK
<1>4. CheckpointTypeOK'
  BY <1>1, <1>3 DEF CInv, CheckpointTypeOK
<1>5. Flushed' /\ Promised' /\ Known'
  BY <1>1, <1>2 DEF CInv, Flushed, Promised, Known
<1>6. Syncing'
  <2>1. \A k \in pageKey : flushed'[k] # None => k[1] < files
    BY <1>1 DEF CInv, Flushed, Exists
  <2>2. \A k \in pageKey : ~(k[1] < 0)
    BY DEF pageKey, FileID
  <2>3. sync'.next = 0 /\ sync'.n = files /\ files' = files
    BY <1>1, <1>2
  <2>4. sync'.next <= sync'.n /\ sync'.n <= files'
    BY <1>3, <2>3
  <2>5. \A k \in pageKey : flushed'[k] # None => k[1] < sync'.n /\ ~(k[1] < sync'.next)
    BY <2>1, <2>2, <2>3
  <2> QED
    BY <2>4, <2>5 DEF Syncing
<1> QED
  BY <1>2, <1>4, <1>5, <1>6 DEF CInv

\* One file reaches the device.
LEMMA SyncFileCInv ==
  ASSUME HoldersCounted
  PROVE  CInv /\ SyncFile => CInv'
<1> SUFFICES ASSUME CInv, SyncFile PROVE CInv'
  OBVIOUS
<1>1. /\ UNCHANGED <<vars, flushed, promised>>
      /\ sync.pc = "sync" /\ sync.next < sync.n
      /\ sync' = [sync EXCEPT !.next = @ + 1]
      /\ durable' = [k \in pageKey |-> IF k[1] = sync.next /\ Exists(k) THEN disk[k] ELSE durable[k]]
  BY DEF SyncFile
<1>2. /\ IInv' /\ UNCHANGED <<files, numPages, disk>>
      /\ \A k \in pageKey : Exists(k)' = Exists(k)
  BY <1>1, PoolUnchanged
<1>3. sync.next \in 0 .. MaxFiles /\ sync.n \in 0 .. MaxFiles /\ files \in Nat /\ MaxFiles \in Nat
  BY BoundsAssumption DEF CInv, CheckpointTypeOK, IInv, TypeOK
<1>4. sync'.pc = "sync" /\ sync'.n = sync.n /\ sync'.next = sync.next + 1
  BY <1>1 DEF CInv, CheckpointTypeOK
<1>5. CheckpointTypeOK'
  <2>1. sync.next + 1 \in 0 .. MaxFiles
    BY <1>1, <1>3
  <2>2. durable' \in [pageKey -> Image \cup {Absent}]
    BY <1>1 DEF CInv, CheckpointTypeOK, IInv, TypeOK
  <2>3. sync' \in [pc : {"idle", "flushed", "sync"}, next : 0 .. MaxFiles, n : 0 .. MaxFiles]
    BY <1>1, <2>1 DEF CInv, CheckpointTypeOK
  <2> QED
    BY <1>1, <2>2, <2>3 DEF CInv, CheckpointTypeOK
<1>6. Flushed' /\ Promised'
  BY <1>1, <1>2 DEF CInv, Flushed, Promised
<1>7. Known'
  BY <1>1, <1>2 DEF CInv, Known
<1>8. Syncing'
  <2>1. sync'.next <= sync'.n /\ sync'.n <= files'
    BY <1>1, <1>2, <1>3, <1>4 DEF CInv, Syncing
  <2>2. ASSUME NEW k \in pageKey, flushed'[k] # None
        PROVE  k[1] < sync'.n /\ (k[1] < sync'.next => durable'[k] = flushed'[k])
    <3>1. /\ k[1] < sync.n /\ (k[1] < sync.next => durable[k] = flushed[k])
          /\ Exists(k) /\ disk[k] = flushed[k]
      BY <1>1, <2>2 DEF CInv, Syncing, Flushed
    <3>2. k[1] < sync.next + 1 => k[1] < sync.next \/ k[1] = sync.next
      BY <1>3 DEF pageKey, FileID
    <3> QED
      BY <1>1, <1>4, <3>1, <3>2
  <2> QED
    BY <2>1, <2>2 DEF Syncing
<1> QED
  BY <1>2, <1>5, <1>6, <1>7, <1>8 DEF CInv

\* Sync returns, with an error or with the promise that its caller relies on.
LEMMA SyncEndsCInv ==
  ASSUME HoldersCounted
  PROVE  CInv /\ (SyncFails \/ SyncReturns) => CInv'
<1> SUFFICES ASSUME CInv, SyncFails \/ SyncReturns PROVE CInv'
  OBVIOUS
<1>1. /\ UNCHANGED <<vars, durable>>
      /\ sync' = NoSync /\ flushed' = Nothing
      /\ promised' = promised \/ (promised' = flushed /\ sync.pc = "sync" /\ sync.next = sync.n)
  BY DEF SyncFails, SyncReturns
<1>2. /\ IInv' /\ UNCHANGED <<files, numPages, disk>>
      /\ \A k \in pageKey : Exists(k)' = Exists(k)
  BY <1>1, PoolUnchanged
<1>3. CheckpointTypeOK'
  <2>1. sync' \in [pc : {"idle", "flushed", "sync"}, next : 0 .. MaxFiles, n : 0 .. MaxFiles]
    BY <1>1, BoundsAssumption DEF NoSync
  <2>2. flushed' \in [pageKey -> Image \cup {None}]
    BY <1>1 DEF Nothing
  <2> QED
    BY <1>1, <2>1, <2>2 DEF CInv, CheckpointTypeOK
<1>4. Flushed' /\ Syncing'
  BY <1>1 DEF Flushed, Syncing, Nothing, NoSync
<1>5. Promised'
  <2>1. CASE promised' = promised
    BY <1>1, <1>2, <2>1 DEF CInv, Promised
  <2>2. CASE promised' = flushed /\ sync.pc = "sync" /\ sync.next = sync.n
    <3>1. \A k \in pageKey : flushed[k] # None => durable[k] = flushed[k] /\ disk[k] = flushed[k]
      BY <2>2 DEF CInv, Syncing, Flushed
    <3> QED
      BY <1>1, <1>2, <2>2, <3>1 DEF Promised
  <2> QED
    BY <1>1, <2>1, <2>2
<1>6. Known'
  BY <1>1, <1>2 DEF CInv, Known
<1> QED
  BY <1>2, <1>3, <1>4, <1>5, <1>6 DEF CInv

\* The operating system writes a page; it finds none to write that is covered.
LEMMA OSWriteBackCInv ==
  ASSUME HoldersCounted
  PROVE  \A k \in pageKey : CInv /\ OSWriteBack(k) => CInv'
<1> SUFFICES ASSUME NEW k \in pageKey, CInv, OSWriteBack(k) PROVE CInv'
  OBVIOUS
<1>1. /\ UNCHANGED <<vars, sync, flushed, promised>>
      /\ Exists(k) /\ durable[k] # disk[k]
      /\ \E img \in {disk[k], Torn} : durable' = [durable EXCEPT ![k] = img]
  BY Zenon DEF OSWriteBack
<1>2. /\ IInv' /\ UNCHANGED <<files, numPages, disk>>
      /\ \A q \in pageKey : Exists(q)' = Exists(q)
  BY <1>1, PoolUnchanged
<1>3. /\ durable' \in [pageKey -> Image \cup {Absent}]
      /\ \A q \in pageKey : q # k => durable'[q] = durable[q]
  <2>1. disk[k] \in Image /\ Torn \in Image
    BY DEF CInv, IInv, TypeOK, Image
  <2> QED
    BY <1>1, <2>1 DEF CInv, CheckpointTypeOK
<1>4. CheckpointTypeOK'
  BY <1>1, <1>3 DEF CInv, CheckpointTypeOK
<1>5. Flushed'
  BY <1>1, <1>2 DEF CInv, Flushed
<1>6. Promised'
  BY <1>1, <1>2, <1>3 DEF CInv, Promised
<1>7. Syncing'
  BY <1>1, <1>2, <1>3 DEF CInv, Syncing, Flushed
<1>8. Known'
  BY <1>1, <1>2, <1>3 DEF CInv, Known
<1> QED
  BY <1>2, <1>4, <1>5, <1>6, <1>7, <1>8 DEF CInv

\* The machine fails: what was promised is on the device, and is what the next
\* process reads.
LEMMA CrashCInv == CInv /\ Crash => CInv'
<1> SUFFICES ASSUME CInv, Crash PROVE CInv'
  OBVIOUS
<1>1. /\ files' = 0 /\ UNCHANGED <<durable, promised>>
      /\ sync' = NoSync /\ flushed' = Nothing
      /\ disk' = [k \in pageKey |-> IF durable[k] = Absent THEN Blank ELSE durable[k]]
  BY DEF Crash
<1>2. disk' \in [pageKey -> Image]
  BY <1>1 DEF CInv, CheckpointTypeOK, Image
<1>3. Started'
  BY DEF Crash, Started, NewBufferPool
<1>4. IInv'
  BY <1>2, <1>3, RestartIInv
<1>5. CheckpointTypeOK'
  <2>1. sync' \in [pc : {"idle", "flushed", "sync"}, next : 0 .. MaxFiles, n : 0 .. MaxFiles]
    BY <1>1, BoundsAssumption DEF NoSync
  <2>2. flushed' \in [pageKey -> Image \cup {None}]
    BY <1>1 DEF Nothing
  <2> QED
    BY <1>1, <2>1, <2>2 DEF CInv, CheckpointTypeOK
<1>6. Flushed' /\ Syncing'
  BY <1>1 DEF Flushed, Syncing, Nothing, NoSync
<1>7. Promised'
  <2>1. \A k \in pageKey : promised[k] # None => durable[k] # Absent
    BY MarkersAssumption DEF CInv, CheckpointTypeOK, Promised, IInv, TypeOK
  <2> QED
    BY <1>1, <2>1 DEF CInv, Promised
<1>8. Known'
  BY <1>1 DEF Known, pageKey, FileID
<1> QED
  BY <1>4, <1>5, <1>6, <1>7, <1>8 DEF CInv

\* If no frame can be acquired, every frame has a holder.
LEMMA ExhaustedIInv ==
  ASSUME HoldersCounted, IInv
  PROVE  ExhaustedOnlyByPins
<1>1. SUFFICES ASSUME ~CanAcquire, NEW f \in frameID, HoldersOf(f) = {} PROVE FALSE
  BY DEF ExhaustedOnlyByPins
<1>2. Range(freeList) = {} /\ Range(replacer) = {}
  BY <1>1 DEF CanAcquire, Range
<1>3. f \in ResidentFrames
  BY <1>2 DEF IInv, FrameStates
<1>4. meta[f].pinCount # 0
  BY <1>2, <1>3 DEF IInv, FrameStates
<1>5. meta[f].pinCount = Cardinality({})
  BY <1>1, <1>3 DEF IInv, PointersValid
<1> QED
  BY <1>4, <1>5 DEF HoldersCounted, Card

\* Every step of the pool, the checkpoints and the machine keeps CInv.
LEMMA CheckpointNextCInv ==
  ASSUME HoldersCounted
  PROVE  CInv /\ [CheckpointNext]_allVars => CInv'
<1>1. ASSUME CInv, UNCHANGED allVars PROVE CInv'
  <2>1. UNCHANGED <<vars, durable, sync, flushed, promised>>
    BY <1>1 DEF allVars, checkVars
  <2>2. /\ IInv' /\ UNCHANGED <<files, numPages, disk>>
        /\ \A k \in pageKey : Exists(k)' = Exists(k)
    BY <1>1, <2>1, PoolUnchanged
  <2>3. CheckpointTypeOK' /\ Flushed' /\ Promised' /\ Known'
    BY <1>1, <2>1, <2>2 DEF CInv, CheckpointTypeOK, Flushed, Promised, Known
  <2>4. Syncing'
    BY <1>1, <2>1, <2>2 DEF CInv, Syncing
  <2> QED
    BY <2>2, <2>3, <2>4 DEF CInv
<1> QED
  BY <1>1, PoolStepCInv, FlushCInv, SyncBeginsCInv, SyncFileCInv, SyncEndsCInv, OSWriteBackCInv,
     CrashCInv DEF CheckpointNext

-----------------------------------------------------------------------------
(* The theorems.                                                           *)

\* The notions of finite sets spelled out.
Listed(S) == \E seq \in Seq(S) : \A s \in S : \E n \in 1 .. Len(seq) : seq[n] = s
Count(S) == LET CS[T \in SUBSET S] == IF T = {} THEN 0 ELSE 1 + CS[T \ {CHOOSE x : x \in T}]
            IN  CS[S]

\* The set of holders is finite, and the size of a set with the recursion of its
\* definition spelled out.
LEMMA CardForm == Listed(Holder) /\ \A S : Card(S) = Count(S)
  BY HolderAssumption DEF Card, Cardinality, Count, Listed, IsFiniteSet

LOCAL INSTANCE FiniteSetTheorems

\* Finiteness and sizes here and in the library are the same.
LEMMA CardSame == IsFiniteSet(Holder) /\ \A S : Card(S) = Cardinality(S)
  BY CardForm, Zenon DEF Count, Cardinality, Listed, IsFiniteSet

\* A set of callers is finite, and grows and shrinks by one.
LEMMA HoldersCountedHolds == HoldersCounted
<1>1. \A S \in SUBSET Holder : IsFiniteSet(S) /\ Card(S) = Cardinality(S)
  BY CardSame, FS_Subset
<1>2. Card({}) = 0
  BY CardSame, FS_EmptySet
<1>3. \A S \in SUBSET Holder : Card(S) = 0 => S = {}
  BY <1>1, FS_EmptySet
<1>4. \A h \in Holder : Card({h}) = 1
  BY CardSame, FS_Singleton, Zenon
<1>5. \A S \in SUBSET Holder : \A h \in Holder \ S : Card(S \cup {h}) = Card(S) + 1
  BY <1>1, CardSame, FS_AddElement
<1>6. \A S \in SUBSET Holder : \A h \in S : Card(S \ {h}) = Card(S) - 1
  BY <1>1, CardSame, FS_RemoveElement
<1> QED
  BY <1>2, <1>3, <1>4, <1>5, <1>6 DEF HoldersCounted

\* IInv holds in every reachable state of the pool.
THEOREM Inductive == Spec => []IInv
<1>1. IInv /\ [Next]_vars => IInv'
  BY NextIInv, HoldersCountedHolds
<1> QED
  BY <1>1, InitIInv, PTL DEF Spec

\* Every reachable state has the types of BufferPool's fields.
THEOREM TypeCorrect == Spec => []TypeOK
<1>1. IInv => TypeOK
  BY DEF IInv
<1> QED
  BY <1>1, Inductive, PTL

\* In every reachable state each frame is free, pinned or idle, and just one of
\* them, whatever calls of the disk have failed: no frame leaks.
THEOREM FramesNeverLeak == Spec => []FrameStates
<1>1. IInv => FrameStates
  BY DEF IInv
<1> QED
  BY <1>1, Inductive, PTL

\* The page table and the frames' metadata agree in every reachable state, so no
\* page is ever in two frames.
THEOREM OneFramePerPage == Spec => []TableMatchesMeta
<1>1. IInv => TableMatchesMeta
  BY DEF IInv
<1> QED
  BY <1>1, Inductive, PTL

\* A caller's pointer refers to the page it asked for until it unpins it.
THEOREM PointersStayValid == Spec => []PointersValid
<1>1. IInv => PointersValid
  BY DEF IInv
<1> QED
  BY <1>1, Inductive, PTL

\* Every difference between a resident page and its file is marked dirty or
\* still in the hands of the caller that made it.
THEOREM UpdatesNeverLost == Spec => []NoLostUpdate
<1>1. IInv => NoLostUpdate
  BY DEF IInv
<1> QED
  BY <1>1, Inductive, PTL

\* acquireFrame reports ErrNoFreeFrame only if callers pin every frame.
THEOREM ExhaustionIsReal == Spec => []ExhaustedOnlyByPins
<1>1. IInv => ExhaustedOnlyByPins
  BY ExhaustedIInv, HoldersCountedHolds
<1> QED
  BY <1>1, Inductive, PTL

\* The pool implements PageStore: to its callers, fetches, evictions, flushes
\* and failed calls of the disk are invisible, and a store is never undone.
THEOREM Refinement == Spec => ImplementsPageStore
<1>1. IInv /\ [Next]_vars => [PS!Next]_(PS!vars)
  BY NextRefines, HoldersCountedHolds
<1> QED
  BY <1>1, InitRefines, Inductive, PTL DEF Spec, ImplementsPageStore, PS!Spec

\* CInv holds in every reachable state of the pool, the checkpoints and the
\* machine.
THEOREM CheckpointInductive == CheckpointSpec => []CInv
<1>1. CheckpointInit => CInv
  <2> SUFFICES ASSUME CheckpointInit PROVE CInv
    OBVIOUS
  <2>1. IInv
    BY InitIInv DEF CheckpointInit
  <2>2. CheckpointTypeOK
    BY BoundsAssumption DEF CheckpointInit, CheckpointTypeOK, NoSync, Nothing
  <2>3. Flushed /\ Syncing /\ Promised /\ Known
    BY DEF CheckpointInit, Flushed, Syncing, Promised, Known, NoSync, Nothing
  <2> QED
    BY <2>1, <2>2, <2>3 DEF CInv
<1>2. CInv /\ [CheckpointNext]_allVars => CInv'
  BY CheckpointNextCInv, HoldersCountedHolds
<1> QED
  BY <1>1, <1>2, PTL DEF CheckpointSpec

\* Every reachable state has the types of the checkpoint's state.
THEOREM CheckpointTypeCorrect == CheckpointSpec => []CheckpointTypeOK
<1>1. CInv => CheckpointTypeOK
  BY DEF CInv
<1> QED
  BY <1>1, CheckpointInductive, PTL

\* FlushAll and then Sync is a checkpoint, in every reachable state: what both
\* have reported as done survives any failure of the machine until it is written
\* again, whatever the pool does while Sync runs.
THEOREM CheckpointsHold == CheckpointSpec => []CheckpointHolds
<1>1. ASSUME CInv PROVE CheckpointHolds
  <2>1. SUFFICES ASSUME NEW k \in pageKey, promised[k] # None
                 PROVE  /\ durable[k] = promised[k] /\ disk[k] = promised[k]
                        /\ k[1] < files => Exists(k)
    BY DEF CheckpointHolds
  <2>2. durable[k] = promised[k] /\ disk[k] = promised[k]
    BY <1>1, <2>1 DEF CInv, Promised
  <2>3. durable[k] # Absent
    BY <1>1, <2>1, <2>2, MarkersAssumption DEF CInv, CheckpointTypeOK
  <2> QED
    BY <1>1, <2>2, <2>3 DEF CInv, Known
<1>2. CInv => CheckpointHolds
  BY <1>1
<1> QED
  BY <1>2, CheckpointInductive, PTL
=============================================================================
