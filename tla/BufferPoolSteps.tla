--------------------------- MODULE BufferPoolSteps ---------------------------
(***************************************************************************)
(* What the replacer's operations do to the set of candidates, for every   *)
(* duplicate-free order (the same facts serve the pool's free list); the   *)
(* inductive invariant of the buffer pool, what acquireFrame leaves, the   *)
(* binding of an acquired frame to a page; and that the initial state and  *)
(* the first steps keep the invariant.                                     *)
(***************************************************************************)
EXTENDS BufferPool, TLAPS

-----------------------------------------------------------------------------
(* Sequences, and the numbers of a frame's holders.                        *)

\* A sequence is a function on the first naturals.
LEMMA LenProperties == 
  ASSUME NEW S, NEW seq \in Seq(S)
  PROVE  /\ Len(seq) \in Nat
         /\ seq \in [1..Len(seq) -> S]
         /\ DOMAIN seq = 1 .. Len(seq) 
  OBVIOUS

\* Its elements are of the type of its elements.
LEMMA ElementOfSeq ==
   ASSUME NEW S, NEW seq \in Seq(S),
          NEW n \in 1..Len(seq)
   PROVE  seq[n] \in S
  OBVIOUS

\* The empty sequence is one of any type, and the only one without elements.
LEMMA EmptySeq ==
   ASSUME NEW S
   PROVE /\ << >> \in Seq(S)
         /\ Len(<< >>) = 0
         /\ \A seq \in Seq(S) : (seq # << >>) => (Len(seq) \in Nat \ {0})
  OBVIOUS

\* Append adds one element at the end.
LEMMA AppendProperties ==
  ASSUME NEW S, NEW seq \in Seq(S), NEW elt \in S
  PROVE  /\ Append(seq, elt) \in Seq(S)
         /\ Append(seq, elt) # << >>
         /\ Len(Append(seq, elt)) = Len(seq)+1
         /\ \A i \in 1.. Len(seq) : Append(seq, elt)[i] = seq[i]
         /\ Append(seq, elt)[Len(seq)+1] = elt
  OBVIOUS

\* SubSeq takes a slice.
LEMMA SubSeqProperties ==
  ASSUME NEW S, NEW s, NEW m \in Int, NEW n \in Int,
         \A i \in m .. n : s[i] \in S
   PROVE /\ SubSeq(s,m,n) \in Seq(S)
         /\ Len(SubSeq(s,m,n)) = IF m<=n THEN n-m+1 ELSE 0
         /\ \A i \in 1 .. n-m+1 : SubSeq(s,m,n)[i] = s[m+i-1]
  OBVIOUS

\* Concatenation puts one after the other.
LEMMA ConcatProperties ==
  ASSUME NEW S, NEW s1 \in Seq(S), NEW s2 \in Seq(S)
  PROVE  /\ s1 \o s2 \in Seq(S)
         /\ Len(s1 \o s2) = Len(s1) + Len(s2)
         /\ \A i \in 1 .. Len(s1) + Len(s2) :
              (s1 \o s2)[i] = IF i <= Len(s1) THEN s1[i] ELSE s2[i - Len(s1)]
  OBVIOUS

\* How the number of a page's holders changes when one comes and one goes: a
\* hypothesis of the lemmas, proved with the theorems.
Card(S) == Cardinality(S)
HoldersCounted ==
  /\ Card({}) = 0
  /\ \A S \in SUBSET Holder : Card(S) = 0 => S = {}
  /\ \A h \in Holder : Card({h}) = 1
  /\ \A S \in SUBSET Holder : \A h \in Holder \ S : Card(S \cup {h}) = Card(S) + 1
  /\ \A S \in SUBSET Holder : \A h \in S : Card(S \ {h}) = Card(S) - 1

\* Taking the last element of a list without duplicates (Victim, and a pop of
\* the free list) removes that element from it, and only that one.
THEOREM VictimRemoves ==
  ASSUME NEW S, NEW s \in Seq(S), s # << >>, IsInjective(s)
  PROVE  /\ Victim(s) \in S
         /\ Victim(s) \in Range(s)
         /\ AfterVictim(s) \in Seq(S)
         /\ IsInjective(AfterVictim(s))
         /\ Range(AfterVictim(s)) = Range(s) \ {Victim(s)}
<1> DEFINE n == Len(s)
           t == AfterVictim(s)
<1>1. n \in Nat \ {0} /\ DOMAIN s = 1..n /\ \A i \in 1..n : s[i] \in S
  BY EmptySeq, LenProperties, ElementOfSeq
<1>2. t \in Seq(S) /\ Len(t) = n - 1 /\ \A i \in 1..n-1 : t[i] = s[i]
  BY <1>1, SubSeqProperties DEF AfterVictim
<1>3. DOMAIN t = 1..n-1
  BY <1>2, LenProperties
<1>4. Victim(s) = s[n] /\ n \in 1..n
  BY <1>1 DEF Victim
<1> HIDE DEF n, t
<1>5. IsInjective(t)
  BY <1>1, <1>2, <1>3 DEF IsInjective
<1>6. Range(t) = Range(s) \ {s[n]}
  BY <1>1, <1>2, <1>3, <1>4 DEF Range, IsInjective
<1> QED
  BY <1>1, <1>2, <1>4, <1>5, <1>6 DEF Range, t

\* Appending a new element (a frame given back to the free list) keeps the
\* list free of duplicates and adds just that element.
LEMMA AppendNew ==
  ASSUME NEW S, NEW s \in Seq(S), NEW e \in S, IsInjective(s), e \notin Range(s)
  PROVE  /\ Append(s, e) \in Seq(S)
         /\ IsInjective(Append(s, e))
         /\ Range(Append(s, e)) = Range(s) \cup {e}
<1> DEFINE n == Len(s)
           t == Append(s, e)
<1>1. n \in Nat /\ DOMAIN s = 1..n
  BY LenProperties
<1>2. t \in Seq(S) /\ Len(t) = n + 1 /\ t[n+1] = e /\ \A i \in 1..n : t[i] = s[i]
  BY AppendProperties
<1>3. DOMAIN t = 1..n+1
  BY <1>2, LenProperties
<1>4. \A i \in 1..n+1 : i \in 1..n \/ i = n+1
  BY <1>1
<1>5. IsInjective(t)
  BY <1>1, <1>2, <1>3, <1>4 DEF IsInjective, Range
<1>6. Range(t) = Range(s) \cup {e}
  BY <1>1, <1>2, <1>3, <1>4 DEF Range
<1> QED
  BY <1>2, <1>5, <1>6

\* Unpin makes a frame a candidate once, whether or not it was one.
THEOREM UnpinAdds ==
  ASSUME NEW S, NEW s \in Seq(S), NEW f \in S, IsInjective(s)
  PROVE  /\ Unpin(s, f) \in Seq(S)
         /\ IsInjective(Unpin(s, f))
         /\ Range(Unpin(s, f)) = Range(s) \cup {f}
<1>1. CASE f \in Range(s)
  BY <1>1 DEF Unpin, Tracked
<1>2. CASE f \notin Range(s)
  <2> DEFINE n == Len(s)
             t == <<f>> \o s
  <2>0. Unpin(s, f) = t
    BY <1>2 DEF Unpin, Tracked
  <2>1. n \in Nat /\ DOMAIN s = 1..n
    BY LenProperties
  <2>2. <<f>> \in Seq(S) /\ Len(<<f>>) = 1 /\ <<f>>[1] = f
    OBVIOUS
  <2>3. t \in Seq(S) /\ Len(t) = n + 1 /\ t[1] = f /\ \A i \in 2..n+1 : t[i] = s[i-1]
    BY <2>1, <2>2, ConcatProperties
  <2>4. DOMAIN t = 1..n+1
    BY <2>3, LenProperties
  <2>5. \A i \in 1..n+1 : i = 1 \/ (i \in 2..n+1 /\ i-1 \in 1..n)
    BY <2>1
  <2>6. IsInjective(t)
    BY <1>2, <2>1, <2>3, <2>4, <2>5 DEF IsInjective, Range
  <2>7. \A i \in 1..n : i+1 \in 2..n+1 /\ t[i+1] = s[i]
    BY <2>1, <2>3
  <2> HIDE DEF t
  <2>8. Range(t) = Range(s) \cup {f}
    <3>1. Range(t) \subseteq Range(s) \cup {f}
      BY <2>1, <2>3, <2>4, <2>5 DEF Range
    <3>2. Range(s) \subseteq Range(t)
      BY <2>1, <2>4, <2>7 DEF Range
    <3>3. 1 \in DOMAIN t
      BY <2>1, <2>4
    <3>4. f \in Range(t)
      BY <2>3, <3>3 DEF Range
    <3> QED
      BY <3>1, <3>2, <3>4
  <2> QED
    BY <2>0, <2>3, <2>6, <2>8
<1> QED
  BY <1>1, <1>2

\* Pin takes a frame out of the candidates and leaves every other one there.
THEOREM PinRemoves ==
  ASSUME NEW S, NEW s \in Seq(S), NEW f, IsInjective(s)
  PROVE  /\ Pin(s, f) \in Seq(S)
         /\ IsInjective(Pin(s, f))
         /\ Range(Pin(s, f)) = Range(s) \ {f}
<1>1. CASE f \notin Range(s)
  BY <1>1 DEF Pin, Tracked
<1>2. CASE f \in Range(s)
  <2> DEFINE n == Len(s)
             i == CHOOSE j \in 1..n : s[j] = f
             l == SubSeq(s, 1, i-1)
             r == SubSeq(s, i+1, n)
             t == l \o r
  <2>1. n \in Nat /\ DOMAIN s = 1..n /\ \A j \in 1..n : s[j] \in S
    BY LenProperties, ElementOfSeq
  <2>2. i \in 1..n /\ s[i] = f
    BY <1>2, <2>1 DEF Range
  <2>3. Pin(s, f) = t
    BY <1>2, Zenon DEF Pin, Tracked
  <2> HIDE DEF i
  <2>4. l \in Seq(S) /\ Len(l) = i-1 /\ \A j \in 1..i-1 : l[j] = s[j]
    BY <2>1, <2>2, SubSeqProperties
  <2>5. r \in Seq(S) /\ Len(r) = n-i /\ \A j \in 1..n-i : r[j] = s[i+j]
    <3>1. i+1 \in Int /\ n \in Int /\ \A j \in i+1..n : s[j] \in S
      BY <2>1, <2>2
    <3>2. /\ r \in Seq(S)
          /\ Len(r) = IF i+1 <= n THEN n-(i+1)+1 ELSE 0
          /\ \A j \in 1..n-(i+1)+1 : r[j] = s[(i+1)+j-1]
      BY <3>1, SubSeqProperties
    <3>3. n-(i+1)+1 = n-i /\ \A j \in 1..n-i : (i+1)+j-1 = i+j
      BY <2>1, <2>2
    <3> HIDE DEF r, n
    <3>4. Len(r) = n-i
      BY <2>1, <2>2, <3>2
    <3> QED
      BY <3>2, <3>3, <3>4
  <2> HIDE DEF l, r
  <2>6. /\ t \in Seq(S) /\ Len(t) = n-1
        /\ \A j \in 1..n-1 : t[j] = IF j <= i-1 THEN l[j] ELSE r[j-(i-1)]
    <3>1. /\ t \in Seq(S)
          /\ Len(t) = Len(l) + Len(r)
          /\ \A j \in 1..Len(l)+Len(r) : t[j] = IF j <= Len(l) THEN l[j] ELSE r[j-Len(l)]
      BY <2>4, <2>5, ConcatProperties, Zenon
    <3>2. Len(l) = i-1 /\ Len(l) + Len(r) = n-1
      BY <2>1, <2>2, <2>4, <2>5
    <3> QED
      BY <3>1, <3>2
  <2>7. \A j \in 1..n-1 : t[j] = IF j < i THEN s[j] ELSE s[j+1]
    <3>1. ASSUME NEW j \in 1..n-1, j < i PROVE t[j] = s[j]
      <4>1. j \in 1..i-1
        BY <2>1, <2>2, <3>1
      <4>2. t[j] = l[j]
        BY <2>6, <4>1
      <4> QED
        BY <2>4, <4>1, <4>2
    <3>2. ASSUME NEW j \in 1..n-1, ~(j < i) PROVE t[j] = s[j+1]
      <4>1. j-(i-1) \in 1..n-i /\ i+(j-(i-1)) = j+1 /\ ~(j <= i-1)
        BY <2>1, <2>2, <3>2
      <4>2. t[j] = r[j-(i-1)]
        BY <2>6, <4>1
      <4> QED
        BY <2>5, <4>1, <4>2
    <3> QED
      BY <3>1, <3>2, Zenon
  <2>8. DOMAIN t = 1..n-1
    BY <2>6, LenProperties
  <2> HIDE DEF t
  <2>9. IsInjective(t)
    BY <2>1, <2>2, <2>7, <2>8 DEF IsInjective
  <2>10. Range(t) \subseteq Range(s) \ {f}
    BY <2>1, <2>2, <2>7, <2>8 DEF IsInjective, Range
  <2>11. Range(s) \ {f} \subseteq Range(t)
    <3>1. SUFFICES ASSUME NEW j \in 1..n, j # i PROVE s[j] \in Range(t)
      BY <2>1, <2>2 DEF Range
    <3>2. CASE j < i
      BY <2>1, <2>2, <2>7, <2>8, <3>2 DEF Range
    <3>3. CASE j > i
      <4>1. j-1 \in 1..n-1 /\ t[j-1] = s[j]
        BY <2>1, <2>2, <2>7, <3>3
      <4> QED
        BY <2>8, <4>1 DEF Range
    <3> QED
      BY <2>1, <2>2, <3>1, <3>2, <3>3
  <2> QED
    BY <2>3, <2>6, <2>9, <2>10, <2>11
<1> QED
  BY <1>1, <1>2

-----------------------------------------------------------------------------
(* The buffer pool.                                                        *)

\* The inductive invariant: the conjunction of the pool's safety invariants.
\* They are not inductive one by one: an eviction keeps PointersValid because
\* of FrameStates, and NoLostUpdate because of both.
IInv ==
  /\ TypeOK
  /\ FrameStates
  /\ TableMatchesMeta
  /\ PointersValid
  /\ NoLostUpdate

IdleFrames == {f \in ResidentFrames : meta[f].pinCount = 0}

\* The markers for "no frame" and "no page" are neither.
LEMMA NoFrameFacts ==
  /\ NoFrame \notin frameID
  /\ NoKey \notin pageKey
BY DEF NoFrame, frameID, NoKey, pageKey, FileID, PageID

\* Those who point into a frame are callers.
LEMMA HolderSets == \A f : HoldersOf(f) \in SUBSET Holder
BY DEF HoldersOf

\* A frame with no resident page, or an idle one, has no caller pointing into it.
LEMMA NoHolders ==
  ASSUME HoldersCounted, IInv, NEW f \in frameID, f \notin ResidentFrames \/ meta[f].pinCount = 0
  PROVE  HoldersOf(f) = {}
<1>1. CASE f \notin ResidentFrames
  BY <1>1, NoFrameFacts DEF IInv, PointersValid, HoldersOf, Idle, ResidentFrames
<1>2. CASE f \in ResidentFrames /\ meta[f].pinCount = 0
  <2>1. Cardinality(HoldersOf(f)) = 0
    BY <1>2 DEF IInv, PointersValid
  <2> QED
    BY <2>1, HolderSets DEF HoldersCounted, Card
<1> QED
  BY <1>1, <1>2

\* Writing resident frames back changes the files under just their pages.
LEMMA WriteBackFacts ==
  ASSUME IInv, NEW S \in SUBSET ResidentFrames, NEW torn
  PROVE  /\ WriteBack(S, torn) \in [pageKey -> Image]
         /\ \A k \in pageKey :
              WriteBack(S, torn)[k] = IF pageTable[k] \notin S THEN disk[k]
                                      ELSE IF pageTable[k] \in torn THEN Torn
                                      ELSE frames[pageTable[k]]
<1> DEFINE Of(k) == {f \in S : meta[f].key = k}
           W == WriteBack(S, torn)
<1>1. ASSUME NEW k \in pageKey
      PROVE  Of(k) = IF pageTable[k] \in S THEN {pageTable[k]} ELSE {}
  BY NoFrameFacts DEF IInv, TableMatchesMeta, Resident, ResidentFrames
<1>2. ASSUME NEW k \in pageKey
      PROVE  W[k] = IF pageTable[k] \notin S THEN disk[k]
                    ELSE IF pageTable[k] \in torn THEN Torn
                    ELSE frames[pageTable[k]]
  <2>1. W[k] = IF Of(k) = {} THEN disk[k]
               ELSE IF Of(k) \subseteq torn THEN Torn
               ELSE frames[CHOOSE f \in Of(k) : TRUE]
    BY DEF WriteBack
  <2>2. CASE pageTable[k] \notin S
    BY <1>1, <2>1, <2>2
  <2>3. CASE pageTable[k] \in S
    <3>1. Of(k) = {pageTable[k]}
      BY <1>1, <2>3
    <3>2. (CHOOSE f \in Of(k) : TRUE) = pageTable[k]
      BY <3>1
    <3> QED
      BY <2>1, <2>3, <3>1, <3>2
  <2> QED
    BY <2>2, <2>3
<1>3. W = [k \in pageKey |-> W[k]]
  BY DEF WriteBack
<1>4. \A k \in pageKey : W[k] \in Image
  <2>1. S \subseteq frameID
    BY DEF ResidentFrames
  <2> QED
    BY <1>2, <2>1 DEF IInv, TypeOK, Image
<1> QED
  BY <1>2, <1>3, <1>4

\* What acquireFrame leaves, whichever way it finds the frame: a frame nobody
\* points into, out of both lists and out of the page table, and files that
\* hold all that the frame held.
Acquired(a) ==
  /\ a.frame \in frameID
  /\ HoldersOf(a.frame) = {}
  /\ a.freeList \in Seq(frameID) /\ IsInjective(a.freeList)
  /\ Range(a.freeList) = (frameID \ ResidentFrames) \ {a.frame}
  /\ a.replacer \in Seq(frameID) /\ IsInjective(a.replacer)
  /\ Range(a.replacer) = IdleFrames \ {a.frame}
  /\ a.pageTable \in [pageKey -> frameID \cup {NoFrame}]
  /\ \A k \in pageKey :
       a.pageTable[k] = IF pageTable[k] = a.frame THEN NoFrame ELSE pageTable[k]
  /\ a.disk \in [pageKey -> Image]
  /\ \A k \in pageKey :
       a.disk[k] = IF pageTable[k] = a.frame THEN frames[a.frame] ELSE disk[k]

\* acquireFrame, on the free-list path and on the eviction path, keeps that
\* promise: the write-back comes before the entry leaves the page table.
LEMMA AcquireFrame ==
  ASSUME HoldersCounted, IInv, CanAcquire
  PROVE  Acquired(acquireFrame)
<1> DEFINE a == acquireFrame
<1>1. CASE freeList # << >>
  <2>1. /\ a.frame = Victim(freeList) /\ a.freeList = AfterVictim(freeList)
        /\ a.replacer = replacer /\ a.pageTable = pageTable /\ a.disk = disk
    BY <1>1 DEF acquireFrame, Victim, AfterVictim
  <2>2. /\ Victim(freeList) \in frameID /\ Victim(freeList) \in Range(freeList)
        /\ AfterVictim(freeList) \in Seq(frameID) /\ IsInjective(AfterVictim(freeList))
        /\ Range(AfterVictim(freeList)) = Range(freeList) \ {Victim(freeList)}
    BY <1>1, VictimRemoves, Zenon DEF IInv, TypeOK, FrameStates
  <2>3. Victim(freeList) \notin ResidentFrames
    BY <2>2 DEF IInv, FrameStates
  <2>4. HoldersOf(Victim(freeList)) = {}
    BY <2>2, <2>3, NoHolders
  <2>5. \A k \in pageKey : pageTable[k] # Victim(freeList)
    BY <2>2, <2>3 DEF ResidentFrames
  <2> QED
    BY <2>1, <2>2, <2>3, <2>4, <2>5
    DEF Acquired, IInv, TypeOK, FrameStates, IdleFrames
<1>2. CASE freeList = << >>
  <2> DEFINE v == Victim(replacer)
  <2>1. /\ a.frame = v /\ a.freeList = freeList
        /\ a.replacer = AfterVictim(replacer)
        /\ a.pageTable = [pageTable EXCEPT ![meta[v].key] = NoFrame]
        /\ a.disk = IF meta[v].dirty THEN WriteBack({v}, {}) ELSE disk
    BY <1>2 DEF acquireFrame
  <2>2. replacer # << >>
    BY <1>2 DEF CanAcquire
  <2>3. /\ v \in frameID /\ v \in Range(replacer)
        /\ AfterVictim(replacer) \in Seq(frameID) /\ IsInjective(AfterVictim(replacer))
        /\ Range(AfterVictim(replacer)) = Range(replacer) \ {v}
    BY <2>2, VictimRemoves, Zenon DEF IInv, TypeOK, FrameStates
  <2>4. v \in ResidentFrames /\ meta[v].pinCount = 0
    BY <2>3 DEF IInv, FrameStates
  <2>5. HoldersOf(v) = {}
    BY <2>3, <2>4, NoHolders
  <2>6. PICK o \in pageKey : pageTable[o] = v
    BY <2>4 DEF ResidentFrames
  <2>7. meta[v].key = o /\ \A k \in pageKey : pageTable[k] = v => k = o
    BY <2>3, <2>6, NoFrameFacts DEF IInv, TableMatchesMeta, Resident
  <2>8. /\ a.pageTable \in [pageKey -> frameID \cup {NoFrame}]
        /\ \A k \in pageKey :
             a.pageTable[k] = IF pageTable[k] = v THEN NoFrame ELSE pageTable[k]
    BY <2>1, <2>6, <2>7 DEF IInv, TypeOK
  <2>9. /\ a.disk \in [pageKey -> Image]
        /\ \A k \in pageKey :
             a.disk[k] = IF pageTable[k] = v THEN frames[v] ELSE disk[k]
    <3>1. CASE meta[v].dirty
      BY <2>1, <2>4, <3>1, WriteBackFacts
    <3>2. CASE ~meta[v].dirty
      <4>1. frames[v] = disk[o]
        BY <2>3, <2>5, <2>6, <3>2, NoFrameFacts
        DEF IInv, NoLostUpdate, Resident, Racing
      <4> QED
        BY <2>1, <2>6, <2>7, <3>2, <4>1 DEF IInv, TypeOK
    <3> QED
      BY <3>1, <3>2
  <2>10. Range(freeList) = (frameID \ ResidentFrames) \ {v}
    BY <2>4 DEF IInv, FrameStates
  <2>11. Range(AfterVictim(replacer)) = IdleFrames \ {v}
    BY <2>3 DEF IInv, FrameStates, IdleFrames
  <2>12. freeList \in Seq(frameID) /\ IsInjective(freeList)
    BY DEF IInv, TypeOK, FrameStates
  <2> HIDE DEF a, v
  <2>13. Acquired(a)
    BY <2>1, <2>3, <2>5, <2>8, <2>9, <2>10, <2>11, <2>12, Zenon DEF Acquired
  <2> QED
    BY <2>13 DEF a
<1> QED
  BY <1>1, <1>2

\* The shared tail of fetch and newPage: the acquired frame is bound, with one
\* pin, to page k, which the file and now the frame hold as img.
Binds(a, h, k, img) ==
  /\ disk' = [a.disk EXCEPT ![k] = img]
  /\ frames' = [frames EXCEPT ![a.frame] = img]
  /\ freeList' = a.freeList /\ replacer' = a.replacer
  /\ bindFrame(a, k) /\ Return(h, k, a.frame)
  /\ files' = files
  /\ numPages' \in [FileID -> 0..MaxPages]
  /\ \A i \in FileID : numPages[i] <= numPages'[i]
  /\ Exists(k)'

\* Binding an acquired frame to a page that was not resident is safe.
LEMMA BindPreserves ==
  ASSUME HoldersCounted, IInv, NEW a, Acquired(a),
         NEW h \in Holder, NEW k \in pageKey, NEW img \in Image,
         Idle(h), ~Resident(k), Binds(a, h, k, img)
  PROVE  IInv'
<1> DEFINE f == a.frame
<1> USE NoFrameFacts DEF Binds
<1>1. f \in frameID /\ HoldersOf(f) = {}
  BY DEF Acquired
<1>2. pageTable' = [q \in pageKey |-> IF q = k THEN f
                                     ELSE IF pageTable[q] = f THEN NoFrame
                                     ELSE pageTable[q]]
  BY Zenon DEF Acquired, bindFrame
<1>3. /\ meta' = [meta EXCEPT ![f] = [key |-> k, pinCount |-> 1, dirty |-> FALSE]]
      /\ ptr' = [ptr EXCEPT ![h] = f]
      /\ held' = [held EXCEPT ![h] = k]
      /\ wrote' = wrote
  BY DEF bindFrame, Return
<1>4. pageTable[k] = NoFrame
  BY DEF Resident
<1>5. TypeOK'
  <2>1. pageTable' \in [pageKey -> frameID \cup {NoFrame}]
    BY <1>1, <1>2 DEF IInv, TypeOK
  <2>2. meta' \in [frameID -> frameMeta]
    BY <1>1, <1>3 DEF IInv, TypeOK, frameMeta
  <2>3. disk' \in [pageKey -> Image] /\ frames' \in [frameID -> Image]
    BY <1>1 DEF IInv, TypeOK, Acquired
  <2>4. freeList' \in Seq(frameID) /\ replacer' \in Seq(frameID)
    BY DEF Acquired
  <2>5. /\ ptr' \in [Holder -> frameID \cup {NoFrame}]
        /\ held' \in [Holder -> pageKey \cup {NoKey}]
        /\ wrote' \in [Holder -> BOOLEAN]
    BY <1>1, <1>3 DEF IInv, TypeOK
  <2>6. files' \in 0..MaxFiles
    BY DEF IInv, TypeOK
  <2> QED
    BY <2>1, <2>2, <2>3, <2>4, <2>5, <2>6 DEF TypeOK
<1>6. ResidentFrames' = ResidentFrames \cup {f}
  <2>1. \A g \in frameID : g # f =>
          ((\E q \in pageKey : pageTable'[q] = g) <=> (\E q \in pageKey : pageTable[q] = g))
    BY <1>2, <1>4
  <2>2. pageTable'[k] = f
    BY <1>2
  <2> QED
    BY <1>1, <2>1, <2>2 DEF ResidentFrames
<1>7. IdleFrames' = IdleFrames \ {f}
  <2>1. meta'[f].pinCount = 1 /\ \A g \in frameID : g # f => meta'[g] = meta[g]
    BY <1>1, <1>3 DEF IInv, TypeOK
  <2>2. IdleFrames' = {g \in ResidentFrames' : meta'[g].pinCount = 0}
    BY DEF IdleFrames
  <2>3. IdleFrames \subseteq frameID /\ ResidentFrames' \subseteq frameID
    BY DEF IdleFrames, ResidentFrames
  <2> QED
    BY <1>6, <2>1, <2>2, <2>3 DEF IdleFrames
<1>8. FrameStates'
  <2>1. Range(freeList') = frameID \ ResidentFrames'
    BY <1>6 DEF Acquired
  <2>2. Range(replacer') = IdleFrames'
    BY <1>7 DEF Acquired
  <2>3. IsInjective(freeList') /\ IsInjective(replacer')
    BY DEF Acquired
  <2> QED
    BY <2>1, <2>2, <2>3 DEF FrameStates, IdleFrames
<1>9. TableMatchesMeta'
  <2>1. SUFFICES ASSUME NEW q \in pageKey, pageTable'[q] # NoFrame
                 PROVE  meta'[pageTable'[q]].key = q /\ Exists(q)'
    BY DEF TableMatchesMeta, Resident
  <2>2. CASE q = k
    BY <1>1, <1>2, <1>3, <2>2 DEF IInv, TypeOK
  <2>3. CASE q # k
    <3>1. pageTable'[q] = pageTable[q] /\ pageTable[q] # f /\ pageTable[q] \in frameID
      BY <1>2, <2>1, <2>3 DEF IInv, TypeOK
    <3>2. meta'[pageTable'[q]] = meta[pageTable[q]]
      BY <1>3, <3>1 DEF IInv, TypeOK
    <3>3. meta[pageTable[q]].key = q /\ Exists(q)
      BY <3>1 DEF IInv, TableMatchesMeta, Resident
    <3>4. Exists(q)'
      <4>1. q[1] \in FileID /\ q[2] \in Int
        BY DEF pageKey, PageID
      <4>2. q[1] < files /\ q[2] < numPages[q[1]]
        BY <3>3 DEF Exists
      <4>3. numPages[q[1]] \in Int /\ numPages'[q[1]] \in Int /\ numPages[q[1]] <= numPages'[q[1]]
        <5>1. numPages[q[1]] \in 0..MaxPages
          BY <4>1 DEF IInv, TypeOK
        <5>2. numPages'[q[1]] \in 0..MaxPages
          BY <4>1, <1>5 DEF TypeOK
        <5> QED
          BY <4>1, <5>1, <5>2
      <4>4. q[2] < numPages'[q[1]]
        BY <4>1, <4>2, <4>3
      <4> QED
        BY <4>2, <4>4 DEF Exists
    <3> QED
      BY <3>2, <3>3, <3>4
  <2> QED
    BY <2>2, <2>3
<1>10. /\ HoldersOf(f)' = {h}
       /\ \A g \in frameID : g # f => HoldersOf(g)' = HoldersOf(g)
  <2>1. HoldersOf(f)' = {h}
    <3>1. ASSUME NEW x \in Holder PROVE ptr'[x] = f <=> x = h
      BY <1>1, <1>3 DEF HoldersOf, Idle, IInv, TypeOK
    <3> QED
      BY <1>1, <3>1 DEF HoldersOf, Idle
  <2>2. \A g \in frameID : g # f => HoldersOf(g)' = HoldersOf(g)
    BY <1>1, <1>3 DEF HoldersOf, Idle, IInv, TypeOK
  <2> QED
    BY <2>1, <2>2
<1>11. PointersValid'
  <2>1. ASSUME NEW x \in Holder
        PROVE  IF ptr'[x] = NoFrame THEN held'[x] = NoKey
               ELSE held'[x] \in pageKey /\ pageTable'[held'[x]] = ptr'[x]
    <3>1. CASE x = h
      BY <1>1, <1>2, <1>3, <3>1 DEF IInv, TypeOK
    <3>2. CASE x # h
      <4>1. ptr'[x] = ptr[x] /\ held'[x] = held[x] /\ ptr[x] # f
        BY <1>1, <1>3, <3>2 DEF IInv, TypeOK, HoldersOf
      <4>2. IF ptr[x] = NoFrame THEN held[x] = NoKey
            ELSE held[x] \in pageKey /\ pageTable[held[x]] = ptr[x]
        BY DEF IInv, PointersValid, Idle
      <4> QED
        BY <1>2, <1>4, <4>1, <4>2
    <3> QED
      BY <3>1, <3>2
  <2>2. ASSUME NEW g \in ResidentFrames'
        PROVE  meta'[g].pinCount = Cardinality(HoldersOf(g)')
    <3>1. CASE g = f
      <4>1. meta'[f].pinCount = 1
        BY <1>1, <1>3 DEF IInv, TypeOK
      <4> QED
        BY <1>10, <3>1, <4>1 DEF HoldersCounted, Card
    <3>2. CASE g # f
      <4>1. g \in ResidentFrames /\ g \in frameID
        BY <1>6, <3>2 DEF ResidentFrames
      <4>2. meta'[g] = meta[g]
        BY <1>3, <3>2, <4>1 DEF IInv, TypeOK
      <4> QED
        BY <1>10, <3>2, <4>1, <4>2 DEF IInv, PointersValid
    <3> QED
      BY <3>1, <3>2
  <2> QED
    BY <2>1, <2>2 DEF PointersValid, Idle
<1>12. NoLostUpdate'
  <2>1. SUFFICES ASSUME NEW q \in pageKey, pageTable'[q] # NoFrame,
                        frames'[pageTable'[q]] # disk'[q]
                 PROVE  meta'[pageTable'[q]].dirty \/ Racing(pageTable[q])'
    BY Zenon DEF NoLostUpdate, Resident
  <2>2. q # k
    BY <1>1, <1>2, <2>1 DEF IInv, TypeOK, Acquired
  <2>3. pageTable'[q] = pageTable[q] /\ pageTable[q] # f /\ pageTable[q] \in frameID
    BY <1>2, <2>1, <2>2, Zenon DEF IInv, TypeOK
  <2>4. frames'[pageTable'[q]] = frames[pageTable[q]] /\ disk'[q] = disk[q]
    BY <1>1, <2>2, <2>3, Zenon DEF IInv, TypeOK, Acquired
  <2>5. meta[pageTable[q]].dirty \/ \E x \in HoldersOf(pageTable[q]) : wrote[x]
    BY <2>1, <2>3, <2>4 DEF IInv, NoLostUpdate, Resident, Racing
  <2>6. meta'[pageTable'[q]] = meta[pageTable[q]]
    BY <1>3, <2>3 DEF IInv, TypeOK
  <2>7. HoldersOf(pageTable[q])' = HoldersOf(pageTable[q])
    BY <1>3, <2>3 DEF HoldersOf, Idle, IInv, TypeOK
  <2> QED
    BY <1>3, <2>5, <2>6, <2>7 DEF Racing
<1> QED
  BY <1>5, <1>8, <1>9, <1>11, <1>12 DEF IInv

\* The error path after an acquisition: the frame goes to the free list and
\* the page it was taken from stays dropped, which loses nothing.
LEMMA GiveBackPreserves ==
  ASSUME IInv, NEW a, Acquired(a), GiveBack(a),
         frames' \in [frameID -> Image],
         \A g \in frameID : g # a.frame => frames'[g] = frames[g],
         UNCHANGED <<files, numPages, callVars>>
  PROVE  IInv'
<1> DEFINE f == a.frame
<1> USE NoFrameFacts
<1>1. f \in frameID /\ HoldersOf(f) = {}
  BY DEF Acquired
<1>2. pageTable' = [q \in pageKey |-> IF pageTable[q] = f THEN NoFrame ELSE pageTable[q]]
  BY Zenon DEF Acquired, GiveBack
<1>3. disk' = [q \in pageKey |-> IF pageTable[q] = f THEN frames[f] ELSE disk[q]]
  BY DEF Acquired, GiveBack
<1>4. /\ UNCHANGED <<files, numPages, meta, ptr, held, wrote>>
      /\ freeList' = Append(a.freeList, f)
      /\ replacer' = a.replacer
  BY DEF GiveBack, callVars
<1>5. /\ freeList' \in Seq(frameID) /\ IsInjective(freeList')
      /\ Range(freeList') = Range(a.freeList) \cup {f}
  BY <1>1, <1>4, AppendNew DEF Acquired
<1>6. TypeOK'
  <2>1. pageTable' \in [pageKey -> frameID \cup {NoFrame}]
    BY <1>2 DEF IInv, TypeOK
  <2>2. disk' \in [pageKey -> Image]
    BY <1>1, <1>3 DEF IInv, TypeOK
  <2> QED
    BY <1>4, <1>5, <2>1, <2>2 DEF IInv, TypeOK, Acquired
<1>7. ResidentFrames' = ResidentFrames \ {f}
  <2>1. \A g \in frameID :
          (\E q \in pageKey : pageTable'[q] = g) <=> (g # f /\ \E q \in pageKey : pageTable[q] = g)
    BY <1>2
  <2> QED
    BY <2>1 DEF ResidentFrames
<1>8. FrameStates'
  <2>1. Range(freeList') = frameID \ ResidentFrames'
    BY <1>1, <1>5, <1>7 DEF Acquired
  <2>2. Range(replacer') = {g \in ResidentFrames' : meta'[g].pinCount = 0}
    BY <1>4, <1>7 DEF Acquired, IdleFrames
  <2> QED
    BY <1>4, <1>5, <2>1, <2>2 DEF FrameStates, Acquired
<1>9. TableMatchesMeta'
  BY <1>2, <1>4 DEF IInv, TableMatchesMeta, Resident, Exists
<1>10. \A g : HoldersOf(g)' = HoldersOf(g)
  BY <1>4 DEF HoldersOf
<1>11. PointersValid'
  <2>1. ASSUME NEW x \in Holder
        PROVE  IF ptr'[x] = NoFrame THEN held'[x] = NoKey
               ELSE held'[x] \in pageKey /\ pageTable'[held'[x]] = ptr'[x]
    <3>1. ptr[x] # f
      BY <1>1 DEF HoldersOf
    <3> QED
      BY <1>2, <1>4, <3>1 DEF IInv, PointersValid, Idle
  <2>2. ASSUME NEW g \in ResidentFrames'
        PROVE  meta'[g].pinCount = Cardinality(HoldersOf(g)')
    BY <1>4, <1>7, <1>10 DEF IInv, PointersValid
  <2> QED
    BY <2>1, <2>2 DEF PointersValid, Idle
<1>12. NoLostUpdate'
  <2>1. SUFFICES ASSUME NEW q \in pageKey, pageTable'[q] # NoFrame,
                        frames'[pageTable'[q]] # disk'[q]
                 PROVE  meta'[pageTable'[q]].dirty \/ Racing(pageTable[q])'
    BY DEF NoLostUpdate, Resident
  <2>2. pageTable'[q] = pageTable[q] /\ pageTable[q] # f /\ pageTable[q] \in frameID
    BY <1>2, <2>1 DEF IInv, TypeOK
  <2>3. frames'[pageTable'[q]] = frames[pageTable[q]] /\ disk'[q] = disk[q]
    BY <1>3, <2>2
  <2>4. meta[pageTable[q]].dirty \/ \E x \in HoldersOf(pageTable[q]) : wrote[x]
    BY <2>1, <2>2, <2>3 DEF IInv, NoLostUpdate, Resident, Racing
  <2>5. HoldersOf(pageTable[q])' = HoldersOf(pageTable[q])
    BY <1>4, <2>2 DEF HoldersOf
  <2> QED
    BY <1>4, <2>2, <2>4, <2>5 DEF Racing
<1> QED
  BY <1>6, <1>8, <1>9, <1>11, <1>12 DEF IInv

\* Write-backs that leave the frames where they are: the frames in S reach the
\* files, whole or torn, and those in done are marked clean.  A frame is written
\* as a mix only while a caller stores into it or if it stays dirty.
LEMMA FlushPreserves ==
  ASSUME IInv, NEW S \in SUBSET ResidentFrames, NEW done \in SUBSET S, NEW torn,
         \A g \in done : g \in torn => Racing(g),
         \A g \in S : g \notin done => meta[g].dirty,
         disk' = WriteBack(S, torn), meta' = MarkClean(done),
         replacer' \in Seq(frameID), IsInjective(replacer'),
         Range(replacer') = Range(replacer),
         UNCHANGED <<files, numPages, frames, pageTable, freeList, callVars>>
  PROVE  IInv'
<1> USE NoFrameFacts
<1>1. UNCHANGED <<files, numPages, frames, pageTable, freeList, ptr, held, wrote>>
  BY DEF callVars
<1>2. \A g \in frameID : /\ meta'[g].key = meta[g].key
                         /\ meta'[g].pinCount = meta[g].pinCount
                         /\ meta'[g].dirty = IF g \in done THEN FALSE ELSE meta[g].dirty
  BY DEF MarkClean, IInv, TypeOK, frameMeta
<1>3. /\ disk' \in [pageKey -> Image]
      /\ \A k \in pageKey : disk'[k] = IF pageTable[k] \notin S THEN disk[k]
                                       ELSE IF pageTable[k] \in torn THEN Torn
                                       ELSE frames[pageTable[k]]
  <2> DEFINE W == WriteBack(S, torn)
  <2>1. /\ W \in [pageKey -> Image]
        /\ \A k \in pageKey : W[k] = IF pageTable[k] \notin S THEN disk[k]
                                     ELSE IF pageTable[k] \in torn THEN Torn
                                     ELSE frames[pageTable[k]]
    BY WriteBackFacts, Zenon
  <2>2. disk' = W
    OBVIOUS
  <2> HIDE DEF W
  <2> QED
    BY <2>1, <2>2
<1>4. meta' \in [frameID -> frameMeta]
  <2>1. meta \in [frameID -> frameMeta]
    BY DEF IInv, TypeOK
  <2>2. ASSUME NEW g \in frameID
        PROVE  [meta[g] EXCEPT !.dirty = FALSE] \in frameMeta /\ meta[g] \in frameMeta
    BY <2>1, Zenon DEF frameMeta
  <2>3. meta' = [g \in frameID |-> IF g \in done THEN [meta[g] EXCEPT !.dirty = FALSE]
                                   ELSE meta[g]]
    BY DEF MarkClean
  <2> QED
    BY <2>2, <2>3
<1>5. TypeOK'
  BY <1>1, <1>3, <1>4 DEF IInv, TypeOK
<1>6. ResidentFrames' = ResidentFrames /\ ResidentFrames \subseteq frameID
  BY <1>1 DEF ResidentFrames
<1>7. FrameStates'
  <2>1. {g \in ResidentFrames : meta'[g].pinCount = 0}
          = {g \in ResidentFrames : meta[g].pinCount = 0}
    BY <1>2, <1>6, Zenon
  <2>2. FrameStates
    BY DEF IInv
  <2>3. IsInjective(freeList') /\ Range(freeList') = frameID \ ResidentFrames
    BY <1>1, <2>2 DEF FrameStates
  <2>4. Range(replacer') = {g \in ResidentFrames : meta'[g].pinCount = 0}
    BY <2>1, <2>2 DEF FrameStates
  <2> QED
    BY <1>6, <2>3, <2>4 DEF FrameStates
<1>8. TableMatchesMeta'
  <2>1. SUFFICES ASSUME NEW q \in pageKey, pageTable[q] # NoFrame
                 PROVE  meta'[pageTable[q]].key = q /\ Exists(q)'
    BY <1>1 DEF TableMatchesMeta, Resident
  <2>2. pageTable[q] \in frameID /\ meta[pageTable[q]].key = q /\ Exists(q)
    BY <2>1 DEF IInv, TypeOK, TableMatchesMeta, Resident
  <2>3. Exists(q)'
    BY <1>1, <2>2 DEF Exists
  <2> QED
    BY <1>2, <2>2, <2>3, Zenon
<1>9. \A g : HoldersOf(g)' = HoldersOf(g)
  BY <1>1 DEF HoldersOf
<1>10. PointersValid'
  BY <1>1, <1>2, <1>6, <1>9, Zenon DEF IInv, PointersValid, Idle
<1>11. NoLostUpdate'
  <2>1. SUFFICES ASSUME NEW q \in pageKey, pageTable[q] # NoFrame,
                        frames[pageTable[q]] # disk'[q]
                 PROVE  meta'[pageTable[q]].dirty \/ Racing(pageTable[q])'
    BY <1>1 DEF NoLostUpdate, Resident
  <2>2. pageTable[q] \in frameID /\ pageTable[q] \in ResidentFrames
    BY <2>1 DEF IInv, TypeOK, ResidentFrames
  <2>3. Racing(pageTable[q])' <=> Racing(pageTable[q])
    BY <1>1 DEF Racing, HoldersOf
  <2>4. CASE pageTable[q] \notin S
    BY <1>2, <1>3, <2>1, <2>2, <2>3, <2>4, Zenon DEF IInv, NoLostUpdate, Resident
  <2>5. CASE pageTable[q] \in S
    <3>1. pageTable[q] \in torn
      BY <1>3, <2>1, <2>5
    <3> QED
      BY <1>2, <2>2, <2>3, <2>5, <3>1, Zenon
  <2> QED
    BY <2>4, <2>5
<1> QED
  BY <1>5, <1>7, <1>8, <1>10, <1>11 DEF IInv

\* NewBufferPool starts with every frame free and nothing resident, on files
\* with any contents.
LEMMA StartedIInv ==
  ASSUME Started, disk \in [pageKey -> Image]
  PROVE  IInv
<1> USE DEF Started, NewBufferPool, NewLRUReplacer
<1> USE NoFrameFacts, PoolSizeAssumption, BoundsAssumption
<1>1. DOMAIN freeList = 1..PoolSize /\ \A i \in 1..PoolSize : freeList[i] = i - 1
  OBVIOUS
<1>2. freeList \in Seq(frameID)
  <2>1. PoolSize \in Nat /\ freeList \in [1..PoolSize -> frameID]
    BY DEF frameID
  <2> QED
    BY <2>1
<1>3. TypeOK
  <2>1. <<0, 0>> \in pageKey
    BY DEF pageKey, FileID, PageID
  <2>2. meta \in [frameID -> frameMeta]
    BY <2>1 DEF frameMeta
  <2>3. files \in 0..MaxFiles /\ numPages \in [FileID -> 0..MaxPages]
    OBVIOUS
  <2> QED
    BY <1>2, <2>2, <2>3 DEF TypeOK, Image
<1>4. ResidentFrames = {}
  BY DEF ResidentFrames
<1>5. Range(freeList) = frameID
  <2>1. \A f \in frameID : f + 1 \in 1..PoolSize /\ freeList[f+1] = f
    BY <1>1 DEF frameID
  <2>2. \A i \in 1..PoolSize : freeList[i] \in frameID
    BY <1>1 DEF frameID
  <2> HIDE DEF Started, NewBufferPool
  <2> QED
    BY <1>1, <2>1, <2>2 DEF Range
<1>6. IsInjective(freeList)
  BY <1>1 DEF IsInjective
<1>7. IsInjective(replacer) /\ Range(replacer) = {}
  BY DEF IsInjective, Range
<1>8. FrameStates
  BY <1>4, <1>5, <1>6, <1>7 DEF FrameStates
<1>9. TableMatchesMeta /\ NoLostUpdate
  BY DEF TableMatchesMeta, NoLostUpdate, Resident
<1>10. PointersValid
  BY <1>4 DEF PointersValid, Idle
<1> QED
  BY <1>3, <1>8, <1>9, <1>10 DEF IInv

\* The initial state of the pool, over blank files.
LEMMA InitIInv == Init => IInv
<1>1. Init => disk \in [pageKey -> Image]
  BY DEF Init, Image
<1> QED
  BY <1>1, StartedIInv DEF Init

\* Register adds a file and touches no frame.
LEMMA RegisterIInv == IInv /\ Register => IInv'
<1> SUFFICES ASSUME IInv, Register PROVE IInv'
  OBVIOUS
<1> USE BoundsAssumption
<1>1. PICK n \in 0..MaxPages : numPages' = [numPages EXCEPT ![files] = n]
  BY Zenon DEF Register
<1>2. /\ UNCHANGED <<disk, frames, meta, pageTable, freeList, replacer, ptr, held, wrote>>
      /\ files' = files + 1 /\ files < MaxFiles
  BY DEF Register, poolVars, callVars
<1>3. TypeOK'
  <2>1. files' \in 0..MaxFiles
    BY <1>2 DEF IInv, TypeOK
  <2>2. numPages' \in [FileID -> 0..MaxPages]
    BY <1>1, Zenon DEF IInv, TypeOK
  <2> QED
    BY <1>2, <2>1, <2>2 DEF IInv, TypeOK
<1>4. FrameStates' /\ PointersValid' /\ NoLostUpdate'
  <2>1. FrameStates'
    BY <1>2 DEF IInv, FrameStates, ResidentFrames
  <2>2. PointersValid'
    BY <1>2 DEF IInv, PointersValid, ResidentFrames, Idle, HoldersOf
  <2>3. \A f : Racing(f)' = Racing(f)
    BY <1>2 DEF Racing, HoldersOf, Idle
  <2>4. NoLostUpdate'
    BY <1>2, <2>3 DEF IInv, NoLostUpdate, Resident
  <2> QED
    BY <2>1, <2>2, <2>4
<1>5. ASSUME NEW k \in pageKey, Exists(k) PROVE Exists(k)'
  <2>1. k[1] \in FileID /\ k[1] < files /\ k[2] < numPages[k[1]]
    BY <1>5 DEF Exists, pageKey
  <2>2. k[1] \in Int /\ files \in Int
    BY <2>1 DEF FileID, IInv, TypeOK
  <2>3. numPages'[k[1]] = numPages[k[1]] /\ k[1] < files'
    BY <1>1, <1>2, <2>1, <2>2 DEF IInv, TypeOK
  <2> QED
    BY <2>1, <2>3 DEF Exists
<1>6. TableMatchesMeta'
  BY <1>2, <1>5 DEF IInv, TableMatchesMeta, Resident
<1> QED
  BY <1>3, <1>4, <1>6 DEF IInv

\* fetch, on a resident page: one more pin, and no longer a candidate.
LEMMA FetchHitIInv ==
  ASSUME HoldersCounted, IInv, NEW h \in Holder, NEW k \in pageKey, Idle(h), FetchHit(h, k)
  PROVE  IInv'
<1> DEFINE f == pageTable[k]
<1> USE NoFrameFacts
<1>1. f \in frameID /\ f \in ResidentFrames
  BY DEF FetchHit, Resident, IInv, TypeOK, ResidentFrames
<1>2. /\ UNCHANGED <<files, numPages, disk, frames, pageTable, freeList, wrote>>
      /\ meta' = [meta EXCEPT ![f].pinCount = @ + 1]
      /\ replacer' = Pin(replacer, f)
      /\ ptr' = [ptr EXCEPT ![h] = f]
      /\ held' = [held EXCEPT ![h] = k]
  BY DEF FetchHit, Return, diskVars
<1>3. /\ replacer' \in Seq(frameID) /\ IsInjective(replacer')
      /\ Range(replacer') = Range(replacer) \ {f}
  BY <1>2, PinRemoves DEF IInv, TypeOK, FrameStates
<1>4. \A g \in frameID : /\ meta'[g].key = meta[g].key
                         /\ meta'[g].dirty = meta[g].dirty
                         /\ meta'[g].pinCount = IF g = f THEN meta[f].pinCount + 1
                                                ELSE meta[g].pinCount
  BY <1>1, <1>2 DEF IInv, TypeOK, frameMeta
<1>5. meta' \in [frameID -> frameMeta] /\ \A g \in frameID : meta[g].pinCount \in Nat
  <2>1. meta \in [frameID -> frameMeta] /\ \A g \in frameID : meta[g].pinCount \in Nat
    BY DEF IInv, TypeOK, frameMeta
  <2>2. meta[f].pinCount + 1 \in Nat
    BY <1>1, <2>1
  <2>3. [meta[f] EXCEPT !.pinCount = @ + 1] \in frameMeta
    BY <1>1, <2>1, <2>2 DEF frameMeta
  <2> QED
    BY <1>1, <1>2, <2>1, <2>3
<1>6. TypeOK'
  BY <1>1, <1>2, <1>3, <1>5 DEF IInv, TypeOK
<1>7. ResidentFrames' = ResidentFrames /\ ResidentFrames \subseteq frameID
  BY <1>2 DEF ResidentFrames
<1>8. FrameStates'
  <2>1. meta[f].pinCount + 1 # 0
    BY <1>1, <1>5
  <2>2. {g \in ResidentFrames : meta'[g].pinCount = 0}
          = {g \in ResidentFrames : meta[g].pinCount = 0} \ {f}
    BY <1>4, <1>7, <2>1
  <2> QED
    BY <1>2, <1>3, <1>7, <2>2 DEF IInv, FrameStates
<1>9. TableMatchesMeta'
  <2>1. SUFFICES ASSUME NEW q \in pageKey, pageTable[q] # NoFrame
                 PROVE  meta'[pageTable[q]].key = q /\ Exists(q)'
    BY <1>2 DEF TableMatchesMeta, Resident
  <2>2. pageTable[q] \in frameID /\ meta[pageTable[q]].key = q /\ Exists(q)
    BY <2>1 DEF IInv, TypeOK, TableMatchesMeta, Resident
  <2>3. Exists(q)'
    BY <1>2, <2>2 DEF Exists
  <2> QED
    BY <1>4, <2>2, <2>3
<1>10. /\ h \notin HoldersOf(f)
       /\ \A g \in frameID :
            HoldersOf(g)' = IF g = f THEN HoldersOf(g) \cup {h} ELSE HoldersOf(g)
  BY <1>1, <1>2 DEF HoldersOf, Idle, IInv, TypeOK
<1>11. PointersValid'
  <2>1. \A x \in Holder : IF ptr'[x] = NoFrame THEN held'[x] = NoKey
                          ELSE held'[x] \in pageKey /\ pageTable'[held'[x]] = ptr'[x]
    BY <1>1, <1>2 DEF IInv, TypeOK, PointersValid, Idle
  <2>2. ASSUME NEW g \in ResidentFrames'
        PROVE  meta'[g].pinCount = Cardinality(HoldersOf(g)')
    <3>1. g \in ResidentFrames /\ g \in frameID
      BY <1>7
    <3>2. CASE g = f
      <4>1. Cardinality(HoldersOf(g) \cup {h}) = Cardinality(HoldersOf(g)) + 1
        BY <1>10, <3>2, HolderSets DEF HoldersCounted, Card
      <4>2. meta[g].pinCount = Cardinality(HoldersOf(g))
        BY <3>1 DEF IInv, PointersValid
      <4> QED
        BY <1>4, <1>10, <3>1, <3>2, <4>1, <4>2, Zenon
    <3>3. CASE g # f
      <4>1. HoldersOf(g)' = HoldersOf(g) /\ meta'[g].pinCount = meta[g].pinCount
        BY <1>4, <1>10, <3>1, <3>3
      <4>2. meta[g].pinCount = Cardinality(HoldersOf(g))
        BY <3>1 DEF IInv, PointersValid
      <4> QED
        BY <4>1, <4>2
    <3> QED
      BY <3>2, <3>3
  <2> QED
    BY <2>1, <2>2 DEF PointersValid, Idle
<1>12. NoLostUpdate'
  <2>1. SUFFICES ASSUME NEW q \in pageKey, pageTable[q] # NoFrame,
                        frames[pageTable[q]] # disk[q]
                 PROVE  meta'[pageTable[q]].dirty \/ Racing(pageTable[q])'
    BY <1>2 DEF NoLostUpdate, Resident
  <2>2. pageTable[q] \in frameID
    BY <2>1 DEF IInv, TypeOK
  <2>3. meta[pageTable[q]].dirty \/ \E x \in HoldersOf(pageTable[q]) : wrote[x]
    BY <2>1 DEF IInv, NoLostUpdate, Resident, Racing
  <2>4. HoldersOf(pageTable[q]) \subseteq HoldersOf(pageTable[q])'
    BY <1>2, <2>2 DEF HoldersOf, Idle, IInv, TypeOK
  <2> QED
    BY <1>2, <1>4, <2>2, <2>3, <2>4 DEF Racing
<1> QED
  BY <1>6, <1>8, <1>9, <1>11, <1>12 DEF IInv
=============================================================================
