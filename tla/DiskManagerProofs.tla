-------------------------- MODULE DiskManagerProofs --------------------------
(***************************************************************************)
(* The disk manager's invariants, for any number of goroutines, any        *)
(* contents and any limit on the page count.                               *)
(*                                                                         *)
(* The inductive invariant is Control, about the mutex, the page count and *)
(* the length of the file, and three statements about contents that rest   *)
(* on it: Written, Reading and Durable.                                    *)
(***************************************************************************)
EXTENDS DiskManager, SequenceTheorems, TLAPS

\* Both chunks of page p of f are v.
Filled(f, p, v) == p * 2 + 2 <= Len(f) /\ f[p * 2 + 1] = v /\ f[p * 2 + 2] = v

\* The mutex is held exactly by the thread that extends the file, at its end.
Locked ==
  /\ mu # NoThread => th[mu].pc = "extendAt"
  /\ \A t \in Thread : th[t].pc = "extendAt" =>
       /\ mu = t /\ th[t].id = numPages /\ numPages < MaxUint32
       /\ numPages * 2 + th[t].done <= Len(file)

\* The calls in progress: none without a manager, I/O only on pages in range.
Calls ==
  \A t \in Thread :
    /\ th[t].pc # "idle" => status \in {"open", "closed"}
    /\ th[t].pc \in {"idle", "readCheck", "writeCheck", "lock"} => th[t].done = 0
    /\ th[t].pc \in {"readAt", "writeAt", "got"} => th[t].id < numPages
    /\ th[t].pc \in {"readAt", "writeAt"} => th[t].done < 2

\* The file backs the page count and, without a fault, nothing else.
Sized ==
  /\ numPages * 2 <= Len(file) /\ Len(file) <= MaxUint32 * 2
  /\ Len(durable) <= Len(file)
  /\ ~faulty => /\ status # "rejected"
                /\ Len(file) = numPages * 2 + IF mu = NoThread THEN 0 ELSE th[mu].done

\* The histories are about the pages that there are.
Known ==
  /\ DOMAIN image \subseteq Nat /\ \A p \in DOMAIN image : image[p] \in Chunk \cup {Torn}
  /\ DOMAIN synced \subseteq Nat
  /\ status \in {"open", "closed"} =>
       DOMAIN image = 0 .. numPages - 1 /\ DOMAIN synced \subseteq 0 .. numPages - 1

Control == TypeOK /\ Locked /\ Calls /\ Sized /\ Known

\* A page at rest is whole, and so is the part that a lone writer has written.
Written ==
  /\ \A p \in DOMAIN image : Writers(p) = {} /\ image[p] # Torn => Filled(file, p, image[p])
  /\ \A t \in Thread : th[t].pc = "writeAt" /\ th[t].done = 1 /\ th[t].alone =>
       file[th[t].id * 2 + 1] = th[t].src
  /\ \A t \in Thread : th[t].pc = "extendAt" =>
       \A i \in 1 .. th[t].done : file[numPages * 2 + i] = Zero

\* A lone reader has, so far, the page's image.
Reading ==
  \A t \in Thread :
    /\ th[t].pc \in {"readCheck", "readAt", "got"} => Len(th[t].got) = th[t].done
    /\ th[t].pc \in {"readAt", "got"} /\ th[t].alone /\ image[th[t].id] # Torn =>
         \A i \in 1 .. th[t].done : th[t].got[i] = image[th[t].id]
    /\ th[t].pc = "got" => th[t].done = 2

\* What a Sync has promised is in the file and on the device.
Durable ==
  \A p \in DOMAIN synced : Filled(file, p, synced[p]) /\ Filled(durable, p, synced[p])

DInv == Control /\ Written /\ Reading /\ Durable

-----------------------------------------------------------------------------
(* The operators that the model is built from.                             *)

\* The conversion to uint32 changes nothing below the limit.
LEMMA ModSmall == \A m \in Nat : \A n \in 0 .. m : n % (m + 1) = n
OBVIOUS

\* A page as a sequence of chunks, and chunk by chunk.
LEMMA PageChunks ==
  ASSUME NEW f \in Seq(Chunk), NEW p \in Nat, p * 2 + 2 <= Len(f), NEW v
  PROVE  SubSeq(f, p * PageSize + 1, (p + 1) * PageSize) = Whole(v) <=> Filled(f, p, v)
<1> DEFINE c == SubSeq(f, p * 2 + 1, p * 2 + 2)
<1>1. SubSeq(f, p * PageSize + 1, (p + 1) * PageSize) = c
  BY DEF PageSize
<1>2. p * 2 + 1 \in 1 .. Len(f) + 1 /\ p * 2 + 2 \in (p * 2 + 1) - 1 .. Len(f)
  BY LenProperties
<1>3. c \in Seq(Chunk) /\ Len(c) = 2 /\ c[1] = f[p * 2 + 1] /\ c[2] = f[p * 2 + 2]
  BY <1>2, SubSeqProperties
<1> HIDE DEF c
<1>4. c = Whole(v) <=> c[1] = v /\ c[2] = v
  <2>1. DOMAIN c = 1 .. 2 /\ c = [i \in 1 .. 2 |-> c[i]]
    BY <1>3
  <2> QED
    BY <2>1 DEF Whole, PageSize
<1> QED
  BY <1>1, <1>3, <1>4 DEF Filled

\* Content names the value that a page is filled with.
LEMMA ContentFacts ==
  ASSUME NEW f \in Seq(Chunk), NEW p \in Nat, p * 2 + 2 <= Len(f)
  PROVE  /\ Content(f, p) \in Chunk \cup {Torn}
         /\ Content(f, p) # Torn => Filled(f, p, Content(f, p))
<1> DEFINE c == SubSeq(f, p * PageSize + 1, (p + 1) * PageSize)
<1>1. c[1] \in Chunk
  BY LenProperties, SubSeqProperties DEF PageSize
<1>2. c = Whole(c[1]) => Filled(f, p, c[1])
  BY PageChunks
<1> HIDE DEF c
<1>3. Content(f, p) = IF c = Whole(c[1]) THEN c[1] ELSE Torn
  BY DEF Content, c
<1> QED
  BY <1>1, <1>2, <1>3

\* Put changes one chunk, or adds one at the end.
LEMMA PutFacts ==
  ASSUME file \in Seq(Chunk), NEW i \in 1 .. Len(file) + 1, NEW c \in Chunk
  PROVE  /\ Put(i, c) \in Seq(Chunk)
         /\ Len(Put(i, c)) = IF i > Len(file) THEN Len(file) + 1 ELSE Len(file)
         /\ \A j \in 1 .. Len(Put(i, c)) : Put(i, c)[j] = IF j = i THEN c ELSE file[j]
<1>1. CASE i > Len(file)
  <2>1. i = Len(file) + 1 /\ Put(i, c) = Append(file, c)
    BY <1>1, LenProperties DEF Put
  <2> QED
    BY <1>1, <2>1, AppendProperties
<1>2. CASE ~(i > Len(file))
  <2>1. i \in 1 .. Len(file) /\ Put(i, c) = [file EXCEPT ![i] = c]
    BY <1>2, LenProperties DEF Put
  <2> QED
    BY <1>2, <2>1, ExceptSeq
<1> QED
  BY <1>1, <1>2

-----------------------------------------------------------------------------
(* Steps of one thread that touch neither the file nor the mutex.          *)

ThreadState == [pc : {"idle", "readCheck", "writeCheck", "lock", "readAt", "writeAt", "extendAt", "got"},
                id : PageID, src : Chunk, got : Seq(Chunk), done : 0 .. PageSize, alone : BOOLEAN]

\* Thread t goes on as r, which has written no chunk and extends no file.
Quiet(t, r) ==
  /\ r \in ThreadState
  /\ r.pc # "extendAt" /\ (r.pc = "writeAt" => r.done = 0)
  /\ th' = [th EXCEPT ![t] = r]
  /\ UNCHANGED <<status, numPages, mu, ioVars, history>>

\* What DInv says about a call in progress, of r.
Sound(r) ==
  /\ r.pc # "idle" => status \in {"open", "closed"}
  /\ r.pc \in {"idle", "readCheck", "writeCheck", "lock"} => r.done = 0
  /\ r.pc \in {"readAt", "writeAt", "got"} => r.id < numPages
  /\ r.pc \in {"readAt", "writeAt"} => r.done < 2
  /\ r.pc \in {"readCheck", "readAt", "got"} => Len(r.got) = r.done
  /\ r.pc \in {"readAt", "got"} /\ r.alone /\ image[r.id] # Torn =>
       \A i \in 1 .. r.done : r.got[i] = image[r.id]
  /\ r.pc = "got" => r.done = 2

\* Such a step keeps the invariant.
LEMMA QuietStep ==
  ASSUME DInv, NEW t \in Thread, NEW r, Quiet(t, r), Sound(r),
         th[t].pc # "extendAt", th[t].pc = "writeAt" => th[t].done = 0
  PROVE  DInv'
<1> USE DEF DInv, Control, Quiet
<1>1. UNCHANGED <<status, numPages, mu, file, durable, faulty, image, synced>>
  BY DEF ioVars, history
<1>2. th \in [Thread -> ThreadState]
  BY DEF TypeOK, ThreadState
<1>3. th'[t] = r /\ \A u \in Thread : u # t => th'[u] = th[u]
  BY <1>2
<1>4. TypeOK'
  <2>1. th' \in [Thread -> ThreadState]
    BY <1>2
  <2> QED
    BY <1>1, <2>1 DEF TypeOK, ThreadState
<1>5. mu # t /\ (mu # NoThread => mu \in Thread)
  BY NoThreadAssumption DEF Locked, TypeOK
<1>6. Locked'
  BY <1>1, <1>3, <1>5 DEF Locked
<1>7. Calls' /\ Reading'
  <2>1. Calls'
    BY <1>1, <1>3 DEF Calls, Sound
  <2>2. Reading'
    BY <1>1, <1>3 DEF Reading, Sound
  <2> QED
    BY <2>1, <2>2
<1>8. Sized'
  BY <1>1, <1>3, <1>5 DEF Sized
<1>9. Known' /\ Durable'
  BY <1>1 DEF Known, Durable, Filled
<1>10. \A p : Writers(p)' = Writers(p)
  BY <1>3 DEF Writers, Started, Writing
<1>11. Written'
  <2>1. \A p \in DOMAIN image' : Writers(p)' = {} /\ image'[p] # Torn => Filled(file', p, image'[p])
    BY <1>1, <1>10 DEF Written, Filled
  <2> QED
    BY <1>1, <1>3, <2>1 DEF Written
<1> QED
  BY <1>4, <1>6, <1>7, <1>8, <1>9, <1>11
\* The types, one by one.
LEMMA Typed ==
  ASSUME DInv
  PROVE  /\ th \in [Thread -> ThreadState] /\ file \in Seq(Chunk) /\ durable \in Seq(Chunk)
         /\ Len(file) \in Nat /\ Len(durable) \in Nat /\ numPages \in Nat /\ MaxUint32 \in Nat
         /\ \A t \in Thread : /\ th[t] \in ThreadState /\ th[t].id \in Nat /\ th[t].id \in PageID
                              /\ th[t].done \in {0, 1, 2} /\ th[t].src \in Chunk
                              /\ th[t].got \in Seq(Chunk) /\ th[t].alone \in BOOLEAN
<1>1. th \in [Thread -> ThreadState] /\ file \in Seq(Chunk) /\ durable \in Seq(Chunk)
  BY DEF DInv, Control, TypeOK, ThreadState
<1>2. MaxUint32 \in Nat /\ numPages \in Nat
  BY MaxUint32Assumption DEF DInv, Control, TypeOK, PageID
<1>3. Len(file) \in Nat /\ Len(durable) \in Nat
  BY <1>1, LenProperties
<1>4. \A t \in Thread : /\ th[t] \in ThreadState /\ th[t].id \in PageID
                        /\ th[t].done \in 0 .. 2 /\ th[t].src \in Chunk
                        /\ th[t].got \in Seq(Chunk) /\ th[t].alone \in BOOLEAN
  BY <1>1 DEF ThreadState, PageSize
<1> QED
  BY <1>1, <1>2, <1>3, <1>4 DEF PageID

\* A finished call is sound whatever else is going on.
LEMMA IdleSound == Idle \in ThreadState /\ Sound(Idle) /\ Idle.pc = "idle" /\ Idle.done = 0
BY MaxUint32Assumption, EmptySeq DEF Idle, ThreadState, Sound, PageID, PageSize, Chunk

\* A thread calls ReadPage, WritePage or AllocatePage.
LEMMA CallPageDInv ==
  ASSUME DInv, NEW t \in Thread, NEW pc \in {"readCheck", "writeCheck", "lock"},
         NEW id \in PageID, NEW v \in Chunk, CallPage(t, pc, id, v)
  PROVE  DInv'
<1> DEFINE r == Call(pc, id, v)
<1>1. r \in ThreadState /\ r.pc = pc /\ r.done = 0 /\ r.got = << >>
  BY IdleSound DEF Call, Idle, ThreadState
<1>2. Sound(r) /\ th[t] = Idle
  BY <1>1, EmptySeq DEF CallPage, Sound
<1>3. Quiet(t, r)
  BY <1>1 DEF CallPage, Quiet
<1> HIDE DEF r
<1> QED
  BY <1>2, <1>3, IdleSound, QuietStep

\* The page-count check of ReadPage and WritePage, which may refuse the id.
LEMMA CheckDInv == ASSUME DInv, NEW t \in Thread, Check(t) PROVE DInv'
<1> DEFINE c == th[t]
<1>1. /\ c \in ThreadState /\ c.pc \in {"readCheck", "writeCheck"} /\ c.done = 0
      /\ status \in {"open", "closed"} /\ (c.pc = "readCheck" => Len(c.got) = 0)
  BY DEF Check, DInv, Control, TypeOK, ThreadState, Calls, Reading
<1>2. /\ th' = [th EXCEPT ![t] = IF InRange(c.id) THEN Passed(c) ELSE Idle]
      /\ UNCHANGED <<status, numPages, mu, ioVars, history>>
  BY DEF Check
<1>3. CASE ~InRange(c.id)
  <2>1. Quiet(t, Idle)
    BY <1>2, <1>3, IdleSound DEF Quiet
  <2> QED
    BY <1>1, <2>1, IdleSound, QuietStep
<1>4. CASE InRange(c.id)
  <2> DEFINE r == Passed(c)
  <2>1. /\ r \in ThreadState /\ r.pc \in {"readAt", "writeAt"} /\ r.done = 0 /\ r.id = c.id
        /\ r.pc = "readAt" => Len(r.got) = 0
    BY <1>1 DEF ThreadState, Passed
  <2>2. Sound(r)
    BY <1>1, <1>4, <2>1 DEF Sound, InRange
  <2>3. Quiet(t, r)
    BY <1>2, <1>4, <2>1 DEF Quiet
  <2> HIDE DEF r
  <2> QED
    BY <1>1, <2>2, <2>3, QuietStep
<1> QED
  BY <1>3, <1>4

\* ReadAt moves a chunk that is the page's image, if nobody writes the page.
LEMMA ReadAtDInv == ASSUME DInv, NEW t \in Thread, ReadAt(t) PROVE DInv'
<1> DEFINE c == th[t]
           k == c.id * 2 + c.done + 1
           r == [c EXCEPT !.got = Append(c.got, file[k]), !.done = c.done + 1,
                          !.alone = c.alone /\ Writers(c.id) = {},
                          !.pc = IF c.done + 1 = 2 THEN "got" ELSE "readAt"]
<1>0. c.pc = "readAt" /\ c.done < 2 /\ k <= Len(file)
  <2>1. c.pc = "readAt" /\ CanMove(t) /\ Offset(t) <= Len(file)
    BY Zenon DEF ReadAt
  <2> QED
    BY <2>1 DEF CanMove, Offset, PageSize
<1>1. /\ c \in ThreadState /\ c.pc = "readAt" /\ c.done \in {0, 1} /\ c.id \in Nat
      /\ c.id < numPages /\ Len(c.got) = c.done /\ status \in {"open", "closed"}
      /\ c.id \in DOMAIN image /\ c.got \in Seq(Chunk) /\ c.alone \in BOOLEAN
  <2>1. c.id < numPages /\ status \in {"open", "closed"} /\ Len(c.got) = c.done
    BY <1>0 DEF DInv, Control, Calls, Reading
  <2> QED
    BY <1>0, <2>1, Typed DEF DInv, Control, Known
<1>2. k \in 1 .. Len(file) /\ file[k] \in Chunk
  <2>1. file \in Seq(Chunk) /\ Len(file) \in Nat
    BY Typed, Zenon
  <2>2. k \in 1 .. Len(file)
    <3>1. c.id \in Nat /\ c.done \in {0, 1} /\ k <= Len(file)
      BY <1>0, <1>1, Zenon
    <3> HIDE DEF c
    <3> QED
      BY <2>1, <3>1
  <2> HIDE DEF k
  <2> QED
    BY <2>1, <2>2, ElementOfSeq
<1>3. /\ th' = [th EXCEPT ![t] = r]
      /\ UNCHANGED <<status, numPages, mu, ioVars, history>>
  <2>1. UNCHANGED <<status, numPages, mu, ioVars, history>>
    BY Zenon DEF ReadAt
  <2>2. Offset(t) = k
    BY DEF Offset, PageSize
  <2>3. th' = [th EXCEPT ![t].got = Append(@, file[Offset(t)]),
                         ![t].done = @ + 1,
                         ![t].alone = @ /\ Writers(th[t].id) = {},
                         ![t].pc = IF th[t].done + 1 = PageSize THEN "got" ELSE @]
    BY Zenon DEF ReadAt
  <2> HIDE DEF k
  <2> QED
    BY <1>1, <2>1, <2>2, <2>3, Typed, Zenon DEF PageSize, ThreadState
<1>4. /\ Append(c.got, file[k]) \in Seq(Chunk) /\ Len(Append(c.got, file[k])) = c.done + 1
      /\ \A i \in 1 .. c.done : Append(c.got, file[k])[i] = c.got[i]
      /\ Append(c.got, file[k])[c.done + 1] = file[k]
  <2>1. c.got \in Seq(Chunk) /\ Len(c.got) = c.done /\ file[k] \in Chunk
    BY <1>1, <1>2
  <2> HIDE DEF c, k
  <2> QED
    BY <2>1, AppendProperties
<1> DEFINE g == Append(c.got, file[k])
<1>5. /\ r \in ThreadState /\ r.got = g /\ r.done = c.done + 1 /\ r.id = c.id
      /\ r.alone <=> c.alone /\ Writers(c.id) = {}
      /\ r.pc = IF c.done + 1 = 2 THEN "got" ELSE "readAt"
  <2> DEFINE a == c.alone /\ Writers(c.id) = {}
  <2>1. g \in Seq(Chunk) /\ c.done + 1 \in 0 .. 2 /\ a \in BOOLEAN
    BY <1>1, <1>4
  <2>2. r = [c EXCEPT !.got = g, !.done = c.done + 1, !.alone = a,
                      !.pc = IF c.done + 1 = 2 THEN "got" ELSE "readAt"]
    OBVIOUS
  <2> HIDE DEF k, c, a, g, r
  <2>3. /\ r \in ThreadState /\ r.got = g /\ r.done = c.done + 1 /\ r.id = c.id /\ r.alone = a
        /\ r.pc = IF c.done + 1 = 2 THEN "got" ELSE "readAt"
    BY <1>1, <2>1, <2>2 DEF ThreadState, PageSize
  <2> QED
    BY <2>3 DEF a
<1> HIDE DEF g, r
<1>6. r.alone /\ image[r.id] # Torn => \A i \in 1 .. r.done : r.got[i] = image[r.id]
  <2> SUFFICES ASSUME r.alone, image[r.id] # Torn PROVE \A i \in 1 .. r.done : r.got[i] = image[r.id]
    OBVIOUS
  <2>1. c.alone /\ Writers(c.id) = {} /\ image[c.id] # Torn
    BY <1>1, <1>5 DEF ThreadState
  <2>2. Filled(file, c.id, image[c.id])
    BY <1>1, <2>1 DEF DInv, Written
  <2>3. file[k] = image[c.id]
    BY <1>1, <2>2 DEF Filled
  <2>4. \A i \in 1 .. c.done : c.got[i] = image[c.id]
    BY <1>1, <2>1 DEF DInv, Reading
  <2> HIDE DEF k
  <2> QED
    BY <1>1, <1>4, <1>5, <2>3, <2>4 DEF g
<1>7. Sound(r)
  <2>1. r.pc \in {"readAt", "got"} /\ r.id < numPages /\ Len(r.got) = r.done
    BY <1>1, <1>4, <1>5 DEF g
  <2>2. (r.pc = "readAt" => r.done < 2) /\ (r.pc = "got" => r.done = 2)
    BY <1>1, <1>5
  <2> QED
    BY <1>1, <1>6, <2>1, <2>2, Zenon DEF Sound
<1>8. Quiet(t, r)
  BY <1>3, <1>5 DEF Quiet
<1> QED
  BY <1>1, <1>7, <1>8, QuietStep

\* ReadPage returns; AllocatePage refuses at the limit; an I/O that has moved
\* nothing into the file fails.
LEMMA ReturnDInv ==
  ASSUME DInv, NEW t \in Thread,
         \/ ReturnPage(t)
         \/ AllocatePage(t) /\ AtLimit
         \/ IOFails(t) /\ (th[t].pc = "readAt" \/ (th[t].pc = "writeAt" /\ th[t].done = 0))
  PROVE  DInv'
<1>1. mu = t => th[t].pc = "extendAt"
  BY NoThreadAssumption DEF DInv, Control, Locked
<1>2. th[t].pc # "extendAt" /\ (th[t].pc = "writeAt" => th[t].done = 0)
  BY DEF ReturnPage, AllocatePage
<1>3. Quiet(t, Idle)
  <2>1. CASE ReturnPage(t) \/ (AllocatePage(t) /\ AtLimit)
    BY <2>1, IdleSound DEF ReturnPage, AllocatePage, Quiet
  <2>2. CASE IOFails(t) /\ (th[t].pc = "readAt" \/ (th[t].pc = "writeAt" /\ th[t].done = 0))
    BY <1>1, <1>2, <2>2, IdleSound DEF IOFails, Unlock, Quiet, ioVars, history, DInv, Control, TypeOK
  <2> QED
    BY <2>1, <2>2
<1> QED
  BY <1>2, <1>3, IdleSound, QuietStep

-----------------------------------------------------------------------------
(* Steps that write to the file.                                           *)

\* The chunks of distinct pages are distinct.
LEMMA PagesApart ==
  ASSUME NEW i \in Nat, NEW q \in Nat, i # q, NEW d \in {0, 1}
  PROVE  i * 2 + d + 1 # q * 2 + 1 /\ i * 2 + d + 1 # q * 2 + 2
OBVIOUS

\* The chunks of a page before the n-th are before the n-th page's.
LEMMA PageBefore ==
  ASSUME NEW n \in Nat, NEW i \in Nat, i < n, NEW d \in {0, 1}
  PROVE  i * 2 + d + 1 \in 1 .. n * 2 /\ i * 2 + 1 \in 1 .. n * 2
OBVIOUS

\* Chunk c has gone to index k of the file, in page p; no other page changes.
Landed(k, c, p) ==
  /\ file' \in Seq(Chunk) /\ Len(file') \in Nat
  /\ Len(file') = IF k > Len(file) THEN k ELSE Len(file)
  /\ file'[k] = c
  /\ \A j \in 1 .. Len(file) : j # k => file'[j] = file[j]
  /\ \A q \in Nat : \A v : q # p /\ Filled(file, q, v) => Filled(file', q, v)

\* This is so when t writes a chunk.
LEMMA ChunkFacts ==
  ASSUME DInv, NEW t \in Thread, NEW k, k = th[t].id * 2 + th[t].done + 1,
         k <= Len(file) + 1, th[t].done < 2, NEW c \in Chunk, file' = Put(k, c)
  PROVE  Landed(k, c, th[t].id)
<1>1. th[t].id \in Nat /\ th[t].done \in {0, 1} /\ Len(file) \in Nat
  BY Typed
<1>2. k \in 1 .. Len(file) + 1
  BY <1>1
<1>3. /\ file' \in Seq(Chunk)
      /\ Len(file') = IF k > Len(file) THEN Len(file) + 1 ELSE Len(file)
      /\ \A j \in 1 .. Len(file') : file'[j] = IF j = k THEN c ELSE file[j]
  <2> DEFINE f == Put(k, c)
  <2>1. file \in Seq(Chunk)
    BY Typed
  <2>2. /\ f \in Seq(Chunk)
        /\ Len(f) = IF k > Len(file) THEN Len(file) + 1 ELSE Len(file)
        /\ \A j \in 1 .. Len(f) : f[j] = IF j = k THEN c ELSE file[j]
    BY <1>2, <2>1, PutFacts
  <2>3. file' = f
    OBVIOUS
  <2> HIDE DEF f
  <2> QED
    BY <2>2, <2>3
<1>4. \A q \in Nat : \A v : q # th[t].id /\ Filled(file, q, v) => Filled(file', q, v)
  <2> SUFFICES ASSUME NEW q \in Nat, NEW v, q # th[t].id, Filled(file, q, v)
               PROVE  Filled(file', q, v)
    OBVIOUS
  <2>1. q * 2 + 2 <= Len(file) /\ k # q * 2 + 1 /\ k # q * 2 + 2
    BY <1>1, PagesApart DEF Filled
  <2>2. q * 2 + 1 \in 1 .. Len(file') /\ q * 2 + 2 \in 1 .. Len(file')
    BY <1>1, <1>2, <1>3, <2>1
  <2> QED
    BY <1>3, <2>1, <2>2 DEF Filled
<1>5. Len(file') \in Nat /\ Len(file') = IF k > Len(file) THEN k ELSE Len(file)
  BY <1>1, <1>2, <1>3
<1>6. file'[k] = c /\ \A j \in 1 .. Len(file) : j # k => file'[j] = file[j]
  <2>1. k \in 1 .. Len(file') /\ \A j \in 1 .. Len(file) : j \in 1 .. Len(file')
    BY <1>1, <1>2, <1>5
  <2> QED
    BY <1>3, <2>1
<1> QED
  BY <1>3, <1>4, <1>5, <1>6 DEF Landed

\* A thread's record with another "alone".
LEMMA AloneFacts ==
  ASSUME NEW x \in ThreadState, NEW b \in BOOLEAN
  PROVE  LET y == [x EXCEPT !.alone = b] IN
         /\ y \in ThreadState /\ y.pc = x.pc /\ y.id = x.id /\ y.src = x.src
         /\ y.got = x.got /\ y.done = x.done /\ y.alone = b
BY DEF ThreadState

\* The threads once t has moved a chunk: the others go on, no longer alone if
\* they are on that page.
Moved(w, t, next) ==
  /\ w \in [Thread -> ThreadState]
  /\ \A u \in Thread : u # t =>
       /\ w[u].pc = th[u].pc /\ w[u].id = th[u].id /\ w[u].src = th[u].src
       /\ w[u].got = th[u].got /\ w[u].done = th[u].done
       /\ w[u].alone => th[u].alone /\ ~Started(u, th[t].id)
  /\ w[t].pc = next /\ w[t].id = th[t].id /\ w[t].src = th[t].src
  /\ w[t].done = th[t].done + 1
  /\ w[t].alone => th[t].alone /\ Writers(th[t].id) \subseteq {t}

\* Wrote gives them that.
LEMMA OthersFacts ==
  ASSUME DInv, NEW t \in Thread, NEW next \in {"writeAt", "extendAt"}, th[t].done < 2
  PROVE  Moved(Wrote(t, th[t].id, next), t, next)
<1> DEFINE p == th[t].id
           a(u) == IF u = t THEN th[t].alone /\ Writers(p) \subseteq {t}
                   ELSE th[u].alone /\ ~Started(u, p)
           w == Wrote(t, p, next)
<1>1. \A u \in Thread : th[u] \in ThreadState /\ a(u) \in BOOLEAN
  BY Typed
<1>2. \A u \in Thread : w[u] = IF u = t THEN [th[t] EXCEPT !.done = th[t].done + 1, !.pc = next, !.alone = a(t)]
                               ELSE [th[u] EXCEPT !.alone = a(u)]
  BY DEF Wrote
<1>3. w = [u \in Thread |-> w[u]]
  BY DEF Wrote
<1> HIDE DEF a, w, p
<1>4. \A u \in Thread : u # t =>
        /\ w[u] \in ThreadState
        /\ w[u].pc = th[u].pc /\ w[u].id = th[u].id /\ w[u].src = th[u].src
        /\ w[u].got = th[u].got /\ w[u].done = th[u].done /\ w[u].alone = a(u)
  <2> SUFFICES ASSUME NEW u \in Thread, u # t
               PROVE  /\ w[u] \in ThreadState
                      /\ w[u].pc = th[u].pc /\ w[u].id = th[u].id /\ w[u].src = th[u].src
                      /\ w[u].got = th[u].got /\ w[u].done = th[u].done /\ w[u].alone = a(u)
    OBVIOUS
  <2>1. w[u] = [th[u] EXCEPT !.alone = a(u)]
    BY <1>2
  <2> QED
    BY <1>1, <2>1, AloneFacts
<1>5. /\ w[t] \in ThreadState
      /\ w[t].pc = next /\ w[t].id = th[t].id /\ w[t].src = th[t].src
      /\ w[t].done = th[t].done + 1 /\ w[t].alone = a(t)
  <2> DEFINE x == th[t]
             y == w[t]
             n == th[t].done + 1
             b == a(t)
  <2>1. y = [x EXCEPT !.done = n, !.pc = next, !.alone = b]
    BY <1>2, Zenon
  <2>2. x \in ThreadState /\ b \in BOOLEAN
    BY <1>1, Zenon
  <2>3. n \in 0 .. PageSize
    BY Typed DEF PageSize
  <2> HIDE DEF x, y, n, b
  <2>4. /\ y \in ThreadState /\ y.pc = next /\ y.id = x.id /\ y.src = x.src
        /\ y.done = n /\ y.alone = b
    BY <2>1, <2>2, <2>3 DEF ThreadState
  <2> QED
    BY <2>4 DEF x, y, n, b
<1>6. w \in [Thread -> ThreadState]
  BY <1>3, <1>4, <1>5
<1> QED
  <2>1. Moved(w, t, next)
    BY <1>4, <1>5, <1>6 DEF a, p, Moved
  <2> QED
    BY <2>1 DEF w, p

\* WritePage writes a chunk, and returns with the last one.
LEMMA WriteAtDInv == ASSUME DInv, NEW t \in Thread, WriteAt(t) PROVE DInv'
<1> DEFINE c == th[t]
           p == th[t].id
           k == p * 2 + c.done + 1
           w == Wrote(t, p, "writeAt")
           last == c.done + 1 = 2
<1>1. /\ c.pc = "writeAt" /\ file' = Put(k, c.src)
      /\ th' = IF last THEN [w EXCEPT ![t] = Idle] ELSE w
      /\ image' = IF last THEN [image EXCEPT ![p] = IF w[t].alone THEN c.src ELSE Torn] ELSE image
      /\ synced' = [q \in DOMAIN synced \ {p} |-> synced[q]]
      /\ UNCHANGED <<status, numPages, mu, durable, faulty>>
  BY DEF WriteAt, Offset, PageSize
<1>2. /\ p < numPages /\ c.done \in {0, 1} /\ p \in Nat /\ numPages \in Nat /\ Len(file) \in Nat
      /\ status \in {"open", "closed"} /\ c.src \in Chunk /\ p \in DOMAIN image
  <2>1. p < numPages /\ c.done < 2 /\ status \in {"open", "closed"}
    BY <1>1 DEF DInv, Control, Calls
  <2> QED
    BY <2>1, Typed DEF DInv, Control, Known
<1>3. k <= Len(file) /\ numPages * 2 <= Len(file) /\ k \in 1 .. Len(file)
  BY <1>2 DEF DInv, Control, Sized
<1>4. /\ file' \in Seq(Chunk) /\ Len(file') = Len(file) /\ file'[k] = c.src
      /\ \A j \in 1 .. Len(file) : j # k => file'[j] = file[j]
      /\ \A q \in Nat : \A v : q # p /\ Filled(file, q, v) => Filled(file', q, v)
  <2>1. k <= Len(file) + 1 /\ c.done < 2 /\ ~(k > Len(file))
    BY <1>2, <1>3
  <2> QED
    <3>1. Landed(k, c.src, p)
      BY <1>1, <1>2, <2>1, ChunkFacts
    <3> HIDE DEF k
    <3> QED
      BY <2>1, <3>1 DEF Landed
<1>5. /\ w \in [Thread -> ThreadState]
      /\ \A u \in Thread : u # t =>
           /\ w[u].pc = th[u].pc /\ w[u].id = th[u].id /\ w[u].src = th[u].src
           /\ w[u].got = th[u].got /\ w[u].done = th[u].done
           /\ w[u].alone => th[u].alone /\ ~Started(u, p)
      /\ w[t].pc = "writeAt" /\ w[t].id = p /\ w[t].src = c.src /\ w[t].done = c.done + 1
      /\ w[t].alone => c.alone /\ Writers(p) \subseteq {t}
  <2>1. c.done < 2
    BY <1>2
  <2>2. Moved(w, t, "writeAt")
    BY <2>1, OthersFacts
  <2> HIDE DEF w
  <2> QED
    BY <2>2 DEF Moved
<1> HIDE DEF w
<1>6. /\ th' \in [Thread -> ThreadState]
      /\ th'[t] = IF last THEN Idle ELSE w[t]
      /\ \A u \in Thread : u # t => th'[u] = w[u]
  BY <1>1, <1>5, IdleSound
<1>7. TypeOK'
  BY <1>1, <1>4, <1>6 DEF DInv, Control, TypeOK, ThreadState
<1>8. Idle.pc = "idle" /\ Idle.done = 0
  BY IdleSound
<1>9. mu # t /\ (mu # NoThread => mu \in Thread)
  BY <1>1, NoThreadAssumption DEF DInv, Control, Locked, TypeOK
<1>10. \A u \in Thread : u # t => th'[u].pc = th[u].pc /\ th'[u].id = th[u].id /\ th'[u].done = th[u].done
  BY <1>5, <1>6
<1>11. th'[t].pc \in {"idle", "writeAt"} /\ th'[t].done < 2 /\ (th'[t].pc = "idle" => th'[t].done = 0)
       /\ (th'[t].pc = "writeAt" => th'[t].id = p /\ th'[t].done = 1 /\ ~last)
  BY <1>2, <1>5, <1>6, <1>8
<1>12. Locked'
  <2>1. mu # NoThread => th'[mu].pc = "extendAt"
    BY <1>9, <1>10 DEF DInv, Control, Locked
  <2>2. ASSUME NEW u \in Thread, th'[u].pc = "extendAt"
        PROVE  mu = u /\ th'[u].id = numPages /\ numPages < MaxUint32
               /\ numPages * 2 + th'[u].done <= Len(file)
    <3>1. u # t
      BY <1>11, <2>2
    <3> QED
      BY <1>10, <2>2, <3>1 DEF DInv, Control, Locked
  <2> QED
    BY <1>1, <1>4, <2>1, <2>2 DEF Locked
<1>13. Calls'
  BY <1>1, <1>2, <1>10, <1>11 DEF DInv, Control, Calls
<1>14. Sized'
  BY <1>1, <1>4, <1>9, <1>10 DEF DInv, Control, Sized
<1>15. /\ DOMAIN image' = DOMAIN image /\ \A q \in DOMAIN image : q # p => image'[q] = image[q]
       /\ image'[p] \in Chunk \cup {Torn}
       /\ DOMAIN synced' = DOMAIN synced \ {p} /\ \A q \in DOMAIN synced' : synced'[q] = synced[q]
  BY <1>1, <1>2 DEF DInv, Control, Known
<1>16. Known'
  BY <1>1, <1>15 DEF DInv, Control, Known
<1>17. \A q : q # p => Writers(q)' = Writers(q)
  BY <1>1, <1>10, <1>11 DEF Writers, Started
<1>18. Written'
  <2>1. ASSUME NEW q \in DOMAIN image', Writers(q)' = {}, image'[q] # Torn
        PROVE  Filled(file', q, image'[q])
    <3>1. CASE q # p
      <4>1. q \in Nat /\ q \in DOMAIN image /\ image'[q] = image[q] /\ Writers(q) = {}
        BY <1>15, <1>17, <2>1, <3>1 DEF DInv, Control, Known
      <4>2. Filled(file, q, image[q])
        BY <2>1, <4>1 DEF DInv, Written
      <4> QED
        BY <1>4, <3>1, <4>1, <4>2
    <3>2. CASE q = p /\ ~last
      <4>1. th'[t].pc = "writeAt" /\ th'[t].id = p /\ th'[t].done > 0
        BY <1>2, <1>5, <1>6, <3>2
      <4>2. t \in Writers(q)'
        BY <3>2, <4>1 DEF Writers, Started, Writing
      <4> QED
        BY <2>1, <4>2
    <3>3. CASE q = p /\ last
      <4>1. w[t].alone /\ image'[p] = c.src
        BY <1>1, <1>2, <2>1, <3>3
      <4>2. file[p * 2 + 1] = c.src
        <5>1. c.done = 1
          BY <1>2, <3>3
        <5>2. c.pc = "writeAt" /\ c.alone
          BY <1>1, <1>5, <4>1, Zenon
        <5> QED
          BY <5>1, <5>2 DEF DInv, Written
      <4>3. k = p * 2 + 2 /\ p * 2 + 1 \in 1 .. Len(file) /\ p * 2 + 1 # k
        <5>1. c.done = 1 /\ p \in Nat /\ p * 2 + c.done + 1 \in 1 .. Len(file)
          BY <1>2, <1>3, <3>3
        <5>2. c.done = 1 /\ k = p * 2 + c.done + 1
          BY <5>1
        <5> HIDE DEF k, c, p, last
        <5> QED
          BY <1>2, <5>1, <5>2
      <4> QED
        BY <1>3, <1>4, <3>3, <4>1, <4>2, <4>3 DEF Filled
    <3> QED
      BY <3>1, <3>2, <3>3
  <2>2. ASSUME NEW u \in Thread, th'[u].pc = "writeAt", th'[u].done = 1, th'[u].alone
        PROVE  file'[th'[u].id * 2 + 1] = th'[u].src
    <3>1. CASE u = t
      <4>1. ~last /\ c.done = 0 /\ k = p * 2 + 1
        BY <1>2, <1>11, <2>2, <3>1
      <4> QED
        BY <1>4, <1>5, <1>6, <3>1, <4>1
    <3>2. CASE u # t
      <4>1. /\ th[u].pc = "writeAt" /\ th[u].done = 1 /\ th[u].alone /\ th'[u].id = th[u].id
            /\ th'[u].src = th[u].src /\ ~Started(u, p)
        BY <1>5, <1>6, <2>2, <3>2
      <4>2. th[u].id # p /\ th[u].id \in Nat /\ th[u].id < numPages
        BY <4>1, Typed DEF Started, DInv, Control, Calls
      <4>3. th[u].id * 2 + 1 \in 1 .. Len(file) /\ th[u].id * 2 + 1 # k
        <5>1. th[u].id * 2 + 1 \in 1 .. numPages * 2
          BY <1>2, <4>2, PageBefore
        <5>2. th[u].id * 2 + 1 # k
          BY <1>2, <4>2, PagesApart
        <5> HIDE DEF k
        <5> QED
          BY <1>2, <1>3, <5>1, <5>2
      <4>4. file[th[u].id * 2 + 1] = th[u].src
        BY <4>1 DEF DInv, Written
      <4> QED
        BY <1>4, <4>1, <4>3, <4>4
    <3> QED
      BY <3>1, <3>2
  <2>3. ASSUME NEW u \in Thread, th'[u].pc = "extendAt", NEW i \in 1 .. th'[u].done
        PROVE  file'[numPages' * 2 + i] = Zero
    <3>1. u # t /\ th[u].pc = "extendAt" /\ i \in 1 .. th[u].done
      BY <1>10, <1>11, <2>3
    <3>2. file[numPages * 2 + i] = Zero /\ numPages * 2 + th[u].done <= Len(file)
      BY <3>1 DEF DInv, Control, Written, Locked
    <3>3. numPages * 2 + i \in 1 .. Len(file)
      <4>1. th[u].done \in Nat /\ i \in Nat /\ i >= 1 /\ i <= th[u].done
        BY <3>1, Typed
      <4> QED
        BY <1>2, <3>2, <4>1
    <3>4. numPages * 2 + i # k
      <4>1. k \in 1 .. numPages * 2
        BY <1>2, PageBefore
      <4> HIDE DEF k
      <4> QED
        BY <1>2, <4>1
    <3> QED
      BY <1>1, <1>4, <3>2, <3>3, <3>4
  <2> QED
    BY <2>1, <2>2, <2>3 DEF Written
<1>19. Reading'
  <2> SUFFICES ASSUME NEW u \in Thread
               PROVE  /\ th'[u].pc \in {"readCheck", "readAt", "got"} => Len(th'[u].got) = th'[u].done
                      /\ th'[u].pc \in {"readAt", "got"} /\ th'[u].alone /\ image'[th'[u].id] # Torn =>
                           \A i \in 1 .. th'[u].done : th'[u].got[i] = image'[th'[u].id]
                      /\ th'[u].pc = "got" => th'[u].done = 2
    BY DEF Reading
  <2>1. CASE u = t
    BY <1>11, <2>1
  <2>2. CASE u # t
    <3>1. /\ th'[u].pc = th[u].pc /\ th'[u].id = th[u].id /\ th'[u].done = th[u].done
          /\ th'[u].got = th[u].got /\ (th'[u].alone => th[u].alone /\ ~Started(u, p))
      BY <1>5, <1>6, <2>2
    <3>2. ASSUME th[u].pc \in {"readAt", "got"}, th'[u].alone, image'[th[u].id] # Torn
          PROVE  \A i \in 1 .. th[u].done : th[u].got[i] = image'[th[u].id]
      <4>1. th[u].id \in DOMAIN image /\ th[u].done \in {0, 1, 2}
        BY <1>2, <3>2, Typed DEF DInv, Control, Calls, Known
      <4>2. CASE th[u].id = p
        BY <3>1, <3>2, <4>1, <4>2 DEF Started
      <4>3. CASE th[u].id # p
        BY <1>15, <3>1, <3>2, <4>1, <4>3 DEF DInv, Reading
      <4> QED
        BY <4>2, <4>3
    <3> QED
      BY <3>1, <3>2 DEF DInv, Reading
  <2> QED
    BY <2>1, <2>2
<1>20. Durable'
  BY <1>1, <1>4, <1>15 DEF DInv, Durable, Control, Known
<1> QED
  BY <1>7, <1>12, <1>13, <1>14, <1>16, <1>18, <1>19, <1>20 DEF DInv, Control

\* AllocatePage takes the mutex and begins to extend the file.
LEMMA AllocatePageDInv == ASSUME DInv, NEW t \in Thread, AllocatePage(t), ~AtLimit PROVE DInv'
<1> DEFINE c == th[t]
           r == [c EXCEPT !.pc = "extendAt", !.id = numPages]
<1>1. /\ c.pc = "lock" /\ mu = NoThread /\ mu' = t /\ numPages # MaxUint32
      /\ th' = [th EXCEPT ![t].pc = "extendAt", ![t].id = numPages]
      /\ UNCHANGED <<status, numPages, file, durable, faulty, image, synced>>
  BY DEF AllocatePage, AtLimit, ioVars, history
<1>2. /\ c \in ThreadState /\ c.done = 0 /\ status \in {"open", "closed"}
      /\ numPages \in PageID /\ numPages < MaxUint32 /\ numPages \in Nat
  BY <1>1, Typed DEF DInv, Control, Calls, TypeOK, PageID
<1>3. r \in ThreadState /\ r.pc = "extendAt" /\ r.id = numPages /\ r.done = 0
  BY <1>2 DEF ThreadState
<1>4. /\ th' \in [Thread -> ThreadState] /\ th'[t] = r
      /\ \A u \in Thread : u # t => th'[u] = th[u] /\ th[u].pc # "extendAt"
  <2>1. th' = [th EXCEPT ![t] = r]
    BY <1>1, <1>2, Typed DEF ThreadState
  <2>2. \A u \in Thread : th[u].pc # "extendAt"
    BY <1>1, NoThreadAssumption DEF DInv, Control, Locked
  <2> HIDE DEF r
  <2> QED
    BY <1>3, <2>1, <2>2, Typed
<1> HIDE DEF r
<1>5. TypeOK'
  BY <1>1, <1>4 DEF DInv, Control, TypeOK, ThreadState
<1>6. Locked'
  BY <1>1, <1>2, <1>3, <1>4 DEF DInv, Control, Locked, Sized
<1>7. Calls' /\ Reading'
  <2>1. Calls'
    BY <1>1, <1>2, <1>3, <1>4 DEF DInv, Control, Calls
  <2>2. Reading'
    BY <1>1, <1>3, <1>4 DEF DInv, Reading
  <2> QED
    BY <2>1, <2>2
<1>8. Sized'
  BY <1>1, <1>2, <1>3, <1>4, NoThreadAssumption DEF DInv, Control, Sized
<1>9. Known' /\ Durable'
  BY <1>1 DEF DInv, Control, Known, Durable, Filled
<1>10. \A p : Writers(p)' = Writers(p)
  <2>1. \A u \in Thread : /\ th'[u].done = th[u].done
                          /\ th[u].done > 0 => th'[u] = th[u]
    BY <1>2, <1>3, <1>4
  <2> QED
    BY <2>1 DEF Writers, Started
<1>11. Written'
  <2>1. \A p \in DOMAIN image' : Writers(p)' = {} /\ image'[p] # Torn => Filled(file', p, image'[p])
    BY <1>1, <1>10 DEF DInv, Written, Filled
  <2>2. \A u \in Thread : th'[u].pc = "writeAt" /\ th'[u].done = 1 /\ th'[u].alone =>
          file'[th'[u].id * 2 + 1] = th'[u].src
    BY <1>1, <1>3, <1>4 DEF DInv, Written
  <2>3. \A u \in Thread : th'[u].pc = "extendAt" => th'[u].done = 0
    BY <1>3, <1>4
  <2> QED
    BY <2>1, <2>2, <2>3 DEF Written
<1> QED
  BY <1>5, <1>6, <1>7, <1>8, <1>9, <1>11 DEF DInv, Control

\* AllocatePage writes a chunk of zeroes past the last page.
LEMMA ExtendAtDInv == ASSUME DInv, NEW t \in Thread, ExtendAt(t) PROVE DInv'
<1> DEFINE c == th[t]
           k == c.id * 2 + c.done + 1
           w == Wrote(t, c.id, "extendAt")
<1>1. /\ c.pc = "extendAt" /\ c.done < 2 /\ file' = Put(k, Zero) /\ th' = w
      /\ UNCHANGED <<status, numPages, mu, durable, faulty, image, synced>>
  BY DEF ExtendAt, CanMove, Offset, PageSize, history
<1>2. /\ mu = t /\ c.id = numPages /\ numPages < MaxUint32 /\ c.done \in {0, 1}
      /\ numPages * 2 + c.done <= Len(file) /\ status \in {"open", "closed"}
      /\ numPages \in Nat /\ Len(file) \in Nat /\ MaxUint32 \in Nat
  BY <1>1, Typed DEF DInv, Control, Locked, Calls
<1>3. k \in Nat /\ k <= Len(file) + 1 /\ k = numPages * 2 + c.done + 1 /\ k <= MaxUint32 * 2
  BY <1>2
<1>4. /\ file' \in Seq(Chunk) /\ Len(file') \in Nat /\ file'[k] = Zero
      /\ Len(file') = IF k > Len(file) THEN k ELSE Len(file)
      /\ \A j \in 1 .. Len(file) : j # k => file'[j] = file[j]
      /\ \A q \in Nat : \A v : q # c.id /\ Filled(file, q, v) => Filled(file', q, v)
  <2>1. Zero \in Chunk
    BY DEF Chunk
  <2> QED
    <3>1. Landed(k, Zero, c.id)
      BY <1>1, <1>3, <2>1, ChunkFacts
    <3> HIDE DEF k
    <3> QED
      BY <3>1 DEF Landed
<1>5. /\ th' \in [Thread -> ThreadState]
      /\ \A u \in Thread : u # t =>
           /\ th'[u].pc = th[u].pc /\ th'[u].id = th[u].id /\ th'[u].src = th[u].src
           /\ th'[u].got = th[u].got /\ th'[u].done = th[u].done
           /\ th'[u].alone => th[u].alone
      /\ th'[t].pc = "extendAt" /\ th'[t].id = numPages /\ th'[t].done = c.done + 1
  <2>1. Moved(w, t, "extendAt")
    BY <1>1, OthersFacts
  <2>2. th' = w
    BY <1>1
  <2> HIDE DEF w
  <2> QED
    BY <1>2, <2>1, <2>2 DEF Moved
<1> HIDE DEF k, w
<1>6. TypeOK'
  BY <1>1, <1>4, <1>5 DEF DInv, Control, TypeOK, ThreadState
<1>7. \A u \in Thread : u # t => th[u].pc # "extendAt"
  BY <1>2 DEF DInv, Control, Locked
<1>8. Locked'
  <2>1. numPages * 2 + th'[t].done <= Len(file')
    BY <1>2, <1>3, <1>4, <1>5
  <2> QED
    BY <1>1, <1>2, <1>5, <1>7, <2>1 DEF Locked
<1>9. Calls'
  BY <1>1, <1>2, <1>5 DEF DInv, Control, Calls
<1>10. Sized'
  <2>1. /\ numPages * 2 <= Len(file') /\ Len(file') <= MaxUint32 * 2
        /\ Len(durable) <= Len(file')
    BY <1>2, <1>3, <1>4, Typed DEF DInv, Control, Sized
  <2>2. ~faulty => Len(file') = numPages * 2 + th'[t].done /\ status # "rejected"
    BY <1>2, <1>3, <1>4, <1>5, NoThreadAssumption DEF DInv, Control, Sized
  <2> QED
    BY <1>1, <1>2, <2>1, <2>2, NoThreadAssumption DEF Sized
<1>11. Known'
  BY <1>1 DEF DInv, Control, Known
<1>12. \A q : q # numPages => Writers(q)' = Writers(q)
  BY <1>1, <1>2, <1>5 DEF Writers, Started
<1>13. \A q \in DOMAIN image : q \in Nat /\ q # numPages
  BY <1>2 DEF DInv, Control, Known
<1>14. Written'
  <2>1. ASSUME NEW q \in DOMAIN image', Writers(q)' = {}, image'[q] # Torn
        PROVE  Filled(file', q, image'[q])
    <3>1. q \in DOMAIN image /\ q \in Nat /\ q # c.id /\ Writers(q) = {} /\ image'[q] = image[q]
      BY <1>1, <1>2, <1>12, <1>13, <2>1
    <3>2. Filled(file, q, image[q])
      BY <2>1, <3>1 DEF DInv, Written
    <3> QED
      BY <1>4, <3>1, <3>2
  <2>2. ASSUME NEW u \in Thread, th'[u].pc = "writeAt", th'[u].done = 1, th'[u].alone
        PROVE  file'[th'[u].id * 2 + 1] = th'[u].src
    <3>1. /\ u # t /\ th[u].pc = "writeAt" /\ th[u].done = 1 /\ th[u].alone
          /\ th'[u].id = th[u].id /\ th'[u].src = th[u].src
      BY <1>5, <2>2
    <3>2. th[u].id \in Nat /\ th[u].id < numPages /\ file[th[u].id * 2 + 1] = th[u].src
      BY <3>1, Typed DEF DInv, Control, Calls, Written
    <3>3. th[u].id * 2 + 1 \in 1 .. numPages * 2
      BY <1>2, <3>2, PageBefore
    <3>4. th[u].id * 2 + 1 \in 1 .. Len(file) /\ th[u].id * 2 + 1 # k
      BY <1>2, <1>3, <3>3
    <3> QED
      BY <1>4, <3>1, <3>2, <3>4
  <2>3. ASSUME NEW u \in Thread, th'[u].pc = "extendAt", NEW i \in 1 .. th'[u].done
        PROVE  file'[numPages' * 2 + i] = Zero
    <3>1. u = t /\ i \in 1 .. c.done + 1
      BY <1>5, <1>7, <2>3
    <3>2. CASE i = c.done + 1
      <4>1. numPages * 2 + i = k
        BY <1>2, <1>3, <3>2
      <4> QED
        BY <1>1, <1>4, <4>1
    <3>3. CASE i # c.done + 1
      <4>1. i \in 1 .. c.done
        BY <1>2, <3>1, <3>3
      <4>2. file[numPages * 2 + i] = Zero
        BY <1>1, <4>1 DEF DInv, Written
      <4>3. numPages * 2 + i \in 1 .. Len(file) /\ numPages * 2 + i # k
        BY <1>2, <1>3, <4>1
      <4> QED
        BY <1>1, <1>4, <4>2, <4>3
    <3> QED
      BY <3>2, <3>3
  <2> QED
    BY <2>1, <2>2, <2>3 DEF Written
<1>15. Reading'
  <2>1. ASSUME NEW u \in Thread, th'[u].pc \in {"readCheck", "readAt", "got"}
        PROVE  /\ Len(th'[u].got) = th'[u].done
               /\ th'[u].pc \in {"readAt", "got"} /\ th'[u].alone /\ image[th'[u].id] # Torn =>
                    \A i \in 1 .. th'[u].done : th'[u].got[i] = image[th'[u].id]
               /\ th'[u].pc = "got" => th'[u].done = 2
    <3>1. u # t
      BY <1>5, <2>1
    <3>2. /\ th'[u].pc = th[u].pc /\ th'[u].id = th[u].id /\ th'[u].got = th[u].got
          /\ th'[u].done = th[u].done /\ (th'[u].alone => th[u].alone)
      BY <1>5, <3>1
    <3> QED
      BY <2>1, <3>2 DEF DInv, Reading
  <2> QED
    BY <1>1, <2>1 DEF Reading
<1>16. Durable'
  <2>1. \A q \in DOMAIN synced : q \in Nat /\ q # c.id
    BY <1>2 DEF DInv, Control, Known
  <2> QED
    BY <1>1, <1>4, <2>1 DEF DInv, Durable
<1> QED
  BY <1>6, <1>8, <1>9, <1>10, <1>11, <1>14, <1>15, <1>16 DEF DInv, Control


-----------------------------------------------------------------------------
(* The ends of calls that have written.                                    *)

\* t's call returns.
LEMMA ReturnFacts ==
  ASSUME DInv, NEW t \in Thread, th' = [th EXCEPT ![t] = Idle]
  PROVE  /\ th' \in [Thread -> ThreadState]
         /\ th'[t].pc = "idle" /\ th'[t].done = 0
         /\ \A u \in Thread : u # t => th'[u] = th[u]
         /\ \A q : q # th[t].id => Writers(q)' = Writers(q)
<1>1. /\ th' \in [Thread -> ThreadState] /\ th'[t] = Idle
      /\ \A u \in Thread : u # t => th'[u] = th[u]
  BY Typed, IdleSound
<1>2. Idle.pc = "idle" /\ Idle.done = 0
  BY IdleSound
<1> QED
  BY <1>1, <1>2 DEF Writers, Started

\* AllocatePage counts the page that it has written.
LEMMA BumpDInv == ASSUME DInv, NEW t \in Thread, Bump(t) PROVE DInv'
<1>1. /\ th[t].pc = "extendAt" /\ th[t].done = 2 /\ mu = t /\ th[t].id = numPages
      /\ numPages < MaxUint32 /\ numPages * 2 + 2 <= Len(file) /\ status \in {"open", "closed"}
      /\ numPages \in Nat /\ MaxUint32 \in Nat /\ Len(file) \in Nat
  BY Typed DEF Bump, ReadyToBump, PageSize, DInv, Control, Locked, Calls
<1>2. numPages' = numPages + 1
  <2>1. numPages + 1 \in 0 .. MaxUint32
    BY <1>1
  <2> QED
    BY <1>1, <2>1, ModSmall DEF Bump
<1>3. /\ mu' = NoThread /\ th' = [th EXCEPT ![t] = Idle]
      /\ image' = [p \in DOMAIN image \cup {numPages} |-> IF p = numPages THEN Zero ELSE image[p]]
      /\ UNCHANGED <<status, file, durable, faulty, synced>>
  BY <1>1 DEF Bump, Unlock, ioVars
<1>4. /\ th' \in [Thread -> ThreadState]
      /\ th'[t].pc = "idle" /\ th'[t].done = 0
      /\ \A u \in Thread : u # t => th'[u] = th[u]
      /\ \A q : q # numPages => Writers(q)' = Writers(q)
  BY <1>1, <1>3, ReturnFacts
<1>5. TypeOK'
  BY <1>1, <1>2, <1>3, <1>4 DEF DInv, Control, TypeOK, ThreadState, PageID
<1>6. \A u \in Thread : th'[u].pc # "extendAt"
  BY <1>1, <1>4 DEF DInv, Control, Locked
<1>7. Locked'
  BY <1>3, <1>6 DEF Locked
<1>8. Calls'
  <2>1. \A u \in Thread : th[u].id < numPages => th[u].id < numPages'
    BY <1>1, <1>2, Typed
  <2> QED
    BY <1>3, <1>4, <2>1 DEF DInv, Control, Calls
<1>9. Sized'
  BY <1>1, <1>2, <1>3, NoThreadAssumption DEF DInv, Control, Sized
<1>10. /\ DOMAIN image = 0 .. numPages - 1 /\ DOMAIN image' = 0 .. numPages
       /\ \A q \in DOMAIN image : q \in Nat /\ q # numPages /\ image'[q] = image[q]
       /\ image'[numPages] = Zero /\ Zero \in Chunk
  BY <1>1, <1>3 DEF DInv, Control, Known, Chunk
<1>11. Known'
  <2>1. DOMAIN image' \subseteq Nat /\ \A q \in DOMAIN image' : image'[q] \in Chunk \cup {Torn}
    BY <1>1, <1>10 DEF DInv, Control, Known
  <2>2. DOMAIN synced' \subseteq 0 .. numPages' - 1 /\ DOMAIN image' = 0 .. numPages' - 1
    BY <1>1, <1>2, <1>3, <1>10 DEF DInv, Control, Known
  <2> QED
    BY <1>1, <1>3, <2>1, <2>2 DEF DInv, Control, Known
<1>12. Written'
  <2>1. ASSUME NEW q \in DOMAIN image', Writers(q)' = {}, image'[q] # Torn
        PROVE  Filled(file', q, image'[q])
    <3>1. CASE q = numPages
      <4>1. file[numPages * 2 + 1] = Zero /\ file[numPages * 2 + 2] = Zero
        BY <1>1 DEF DInv, Written
      <4> QED
        BY <1>1, <1>3, <1>10, <3>1, <4>1 DEF Filled
    <3>2. CASE q # numPages
      <4>1. q \in DOMAIN image /\ Writers(q) = {} /\ image'[q] = image[q]
        <5>1. numPages \in Nat /\ DOMAIN image = 0 .. numPages - 1 /\ q \in 0 .. numPages
          BY <1>1, <1>10, <2>1
        <5>2. q \in DOMAIN image
          BY <3>2, <5>1
        <5>3. Writers(q) = {}
          BY <1>4, <2>1, <3>2
        <5> QED
          BY <1>10, <5>2, <5>3
      <4> QED
        BY <1>3, <2>1, <4>1 DEF DInv, Written, Filled
    <3> QED
      BY <3>1, <3>2
  <2>2. ASSUME NEW u \in Thread, th'[u].pc = "writeAt", th'[u].done = 1, th'[u].alone
        PROVE  file'[th'[u].id * 2 + 1] = th'[u].src
    <3>1. u # t
      BY <1>4, <2>2
    <3>2. th'[u] = th[u] /\ file' = file
      BY <1>3, <1>4, <3>1
    <3> QED
      BY <2>2, <3>2 DEF DInv, Written
  <2> QED
    BY <1>6, <2>1, <2>2 DEF Written
<1>13. Reading'
  <2>1. \A u \in Thread : th[u].pc \in {"readAt", "got"} => image'[th[u].id] = image[th[u].id]
    <3>1. \A u \in Thread : th[u].pc \in {"readAt", "got"} => th[u].id \in DOMAIN image
      BY <1>10, Typed DEF DInv, Control, Calls
    <3> QED
      BY <1>10, <3>1
  <2> QED
    BY <1>4, <2>1 DEF DInv, Reading
<1>14. Durable'
  BY <1>3 DEF DInv, Durable, Filled
<1> QED
  BY <1>5, <1>7, <1>8, <1>9, <1>11, <1>12, <1>13, <1>14 DEF DInv, Control

\* WritePage fails with a chunk written: the page is torn.
LEMMA WriteFailsDInv ==
  ASSUME DInv, NEW t \in Thread, IOFails(t), th[t].pc = "writeAt", th[t].done > 0
  PROVE  DInv'
<1> DEFINE p == th[t].id
<1>1. mu # t
  BY NoThreadAssumption DEF DInv, Control, Locked
<1>2. /\ th' = [th EXCEPT ![t] = Idle] /\ image' = [image EXCEPT ![p] = Torn]
      /\ UNCHANGED <<status, numPages, mu, file, durable, faulty, synced>>
  BY <1>1 DEF IOFails, Unlock, DInv, Control, TypeOK
<1>3. /\ th' \in [Thread -> ThreadState]
      /\ th'[t].pc = "idle" /\ th'[t].done = 0
      /\ \A u \in Thread : u # t => th'[u] = th[u]
      /\ \A q : q # p => Writers(q)' = Writers(q)
  BY <1>2, ReturnFacts
<1>4. /\ DOMAIN image' = DOMAIN image /\ \A q \in DOMAIN image : q # p => image'[q] = image[q]
      /\ p \in DOMAIN image /\ image'[p] = Torn
  <2>1. p \in DOMAIN image
    BY Typed DEF DInv, Control, Calls, Known
  <2> QED
    BY <1>2, <2>1
<1>5. TypeOK'
  BY <1>2, <1>3 DEF DInv, Control, TypeOK, ThreadState
<1>6. mu # NoThread => mu \in Thread
  BY DEF DInv, Control, TypeOK
<1>7. Locked' /\ Calls'
  <2>1. Locked'
    BY <1>1, <1>2, <1>3, <1>6 DEF DInv, Control, Locked
  <2>2. Calls'
    BY <1>2, <1>3 DEF DInv, Control, Calls
  <2> QED
    BY <2>1, <2>2
<1>8. Sized'
  BY <1>1, <1>2, <1>3, <1>6 DEF DInv, Control, Sized
<1>9. Known'
  BY <1>2, <1>4 DEF DInv, Control, Known
<1>10. Written'
  <2>1. ASSUME NEW q \in DOMAIN image', Writers(q)' = {}, image'[q] # Torn
        PROVE  Filled(file', q, image'[q])
    <3>1. q \in DOMAIN image /\ Writers(q) = {} /\ image'[q] = image[q]
      BY <1>3, <1>4, <2>1
    <3> QED
      BY <1>2, <2>1, <3>1 DEF DInv, Written, Filled
  <2>2. ASSUME NEW u \in Thread, th'[u].pc = "writeAt", th'[u].done = 1, th'[u].alone
        PROVE  file'[th'[u].id * 2 + 1] = th'[u].src
    <3>1. th'[u] = th[u] /\ file' = file
      BY <1>2, <1>3, <2>2
    <3>2. th[u].pc = "writeAt" /\ th[u].done = 1 /\ th[u].alone
      BY <2>2, <3>1
    <3> QED
      BY <3>1, <3>2 DEF DInv, Written
  <2>3. ASSUME NEW u \in Thread, th'[u].pc = "extendAt", NEW i \in 1 .. th'[u].done
        PROVE  file'[numPages' * 2 + i] = Zero
    BY <1>2, <1>3, <2>3 DEF DInv, Written
  <2> QED
    BY <2>1, <2>2, <2>3 DEF Written
<1>11. Reading'
  <2>1. \A u \in Thread : th[u].pc \in {"readAt", "got"} =>
          image'[th[u].id] = Torn \/ image'[th[u].id] = image[th[u].id]
    <3>1. \A u \in Thread : th[u].pc \in {"readAt", "got"} => th[u].id \in DOMAIN image
      BY Typed DEF DInv, Control, Calls, Known
    <3> QED
      BY <1>4, <3>1
  <2> QED
    BY <1>3, <2>1 DEF DInv, Reading
<1>12. Durable'
  BY <1>2 DEF DInv, Durable, Filled
<1> QED
  BY <1>5, <1>7, <1>8, <1>9, <1>10, <1>11, <1>12 DEF DInv, Control

\* AllocatePage fails: the mutex is free again, the count as it was.
LEMMA ExtendFailsDInv ==
  ASSUME DInv, NEW t \in Thread, IOFails(t), th[t].pc = "extendAt"
  PROVE  DInv'
<1>1. mu = t
  BY DEF DInv, Control, Locked
<1>2. /\ th' = [th EXCEPT ![t] = Idle] /\ mu' = NoThread
      /\ (th[t].done > 0 => faulty') /\ (~faulty' => ~faulty) /\ faulty' \in BOOLEAN
      /\ UNCHANGED <<status, numPages, file, durable, image, synced>>
  BY <1>1 DEF IOFails, Unlock, DInv, Control, TypeOK
<1>3. /\ th' \in [Thread -> ThreadState]
      /\ th'[t].pc = "idle" /\ th'[t].done = 0
      /\ \A u \in Thread : u # t => th'[u] = th[u]
      /\ \A q : q # numPages => Writers(q)' = Writers(q)
  <2>1. th[t].id = numPages
    BY DEF DInv, Control, Locked
  <2> QED
    BY <1>2, <2>1, ReturnFacts
<1>4. TypeOK'
  BY <1>2, <1>3 DEF DInv, Control, TypeOK, ThreadState
<1>5. \A u \in Thread : th'[u].pc # "extendAt"
  BY <1>1, <1>3 DEF DInv, Control, Locked
<1>6. Locked' /\ Calls'
  <2>1. Calls'
    BY <1>2, <1>3 DEF DInv, Control, Calls
  <2> QED
    BY <1>2, <1>5, <2>1 DEF Locked
<1>7. Sized'
  <2>1. th[t].done \in Nat /\ numPages \in Nat
    BY Typed
  <2>2. ~faulty' => status # "rejected" /\ Len(file) = numPages * 2
    BY <1>1, <1>2, <2>1, NoThreadAssumption DEF DInv, Control, Sized
  <2> QED
    BY <1>2, <2>1, <2>2 DEF DInv, Control, Sized
<1>8. Known' /\ Reading' /\ Durable'
  <2>1. Known' /\ Durable'
    BY <1>2 DEF DInv, Control, Known, Durable, Filled
  <2>2. Reading'
    BY <1>2, <1>3 DEF DInv, Reading
  <2> QED
    BY <2>1, <2>2
<1>9. Written'
  <2>1. ASSUME NEW q \in DOMAIN image', Writers(q)' = {}, image'[q] # Torn
        PROVE  Filled(file', q, image'[q])
    <3>1. status \in {"open", "closed"} /\ numPages \in Nat
      BY Typed DEF DInv, Control, Calls
    <3>2. q \in DOMAIN image /\ q # numPages
      BY <1>2, <2>1, <3>1 DEF DInv, Control, Known
    <3> QED
      BY <1>2, <1>3, <2>1, <3>2 DEF DInv, Written, Filled
  <2>2. ASSUME NEW u \in Thread, th'[u].pc = "writeAt", th'[u].done = 1, th'[u].alone
        PROVE  file'[th'[u].id * 2 + 1] = th'[u].src
    BY <1>2, <1>3, <2>2 DEF DInv, Written
  <2> QED
    BY <1>5, <2>1, <2>2 DEF Written
<1> QED
  BY <1>4, <1>6, <1>7, <1>8, <1>9 DEF DInv, Control

-----------------------------------------------------------------------------
(* Open, Close, Sync, the operating system and the machine.                *)

\* Open counts the pages of a file, or rejects it after a fault.
LEMMA OpenDInv == ASSUME DInv, Open PROVE DInv'
<1>1. /\ \A t \in Thread : th[t] = Idle
      /\ UNCHANGED <<mu, file, durable, faulty, th, synced>>
  BY DEF Open, ioVars
<1>2. mu = NoThread
  BY <1>1, IdleSound DEF DInv, Control, Locked, TypeOK
<1>3. \A t \in Thread : th'[t].pc = "idle" /\ th'[t].done = 0 /\ th[t].done = 0
  BY <1>1, IdleSound
<1>4. Locked' /\ Calls' /\ Reading' /\ \A q : Writers(q)' = {} /\ Writers(q) = {}
  BY <1>1, <1>2, <1>3 DEF Locked, Calls, Reading, Writers, Started, Writing
<1>5. Durable'
  BY <1>1 DEF DInv, Durable, Filled
<1>6. CASE Len(file) % 2 # 0
  <2>1. status' = "rejected" /\ UNCHANGED <<numPages, image>>
    BY <1>6 DEF Open, PageSize
  <2>2. faulty
    <3>1. ASSUME ~faulty PROVE FALSE
      <4>1. Len(file) = numPages * 2 /\ numPages \in Nat
        BY <1>2, <3>1, Typed DEF DInv, Control, Sized
      <4> QED
        BY <1>6, <4>1
    <3> QED
      BY <3>1
  <2>3. TypeOK' /\ Known'
    BY <1>1, <2>1 DEF DInv, Control, TypeOK, Known
  <2>4. Sized'
    BY <1>1, <2>1, <2>2 DEF DInv, Control, Sized
  <2>5. Written'
    BY <1>1, <1>3, <1>4, <2>1 DEF DInv, Written, Filled
  <2> QED
    BY <1>4, <1>5, <2>3, <2>4, <2>5 DEF DInv, Control
<1>7. CASE Len(file) % 2 = 0
  <2> DEFINE n == Len(file) \div 2
  <2>1. n \in 0 .. MaxUint32 /\ Len(file) = n * 2 /\ n \in Nat
    BY <1>7, Typed DEF DInv, Control, Sized
  <2>2. status' = "open" /\ numPages' = n
    BY <1>7, <2>1, ModSmall, MaxUint32Assumption DEF Open, PageSize, PageCount
  <2>3. image' = [q \in 0 .. n - 1 |-> IF q \in DOMAIN image THEN image[q] ELSE Content(file, q)]
    BY <1>7, <2>2 DEF Open, PageSize
  <2> HIDE DEF n
  <2>4. \A q \in 0 .. n - 1 : q \in Nat /\ q * 2 + 2 <= Len(file)
    BY <2>1
  <2>5. \A q \in 0 .. n - 1 : /\ image'[q] \in Chunk \cup {Torn}
                              /\ image'[q] # Torn => Filled(file, q, image'[q])
    <3> SUFFICES ASSUME NEW q \in 0 .. n - 1
                 PROVE  /\ image'[q] \in Chunk \cup {Torn}
                        /\ image'[q] # Torn => Filled(file, q, image'[q])
      OBVIOUS
    <3>1. CASE q \in DOMAIN image
      BY <1>4, <2>3, <3>1 DEF DInv, Control, Known, Written
    <3>2. CASE q \notin DOMAIN image
      <4>1. image'[q] = Content(file, q)
        BY <2>3, <3>2
      <4> QED
        BY <2>4, <4>1, ContentFacts, Typed
    <3> QED
      BY <3>1, <3>2
  <2>6. DOMAIN synced \subseteq 0 .. n - 1
    <3> SUFFICES ASSUME NEW q \in DOMAIN synced PROVE q \in 0 .. n - 1
      OBVIOUS
    <3>1. q \in Nat /\ q * 2 + 2 <= Len(file)
      BY DEF DInv, Control, Known, Durable, Filled
    <3> QED
      BY <2>1, <3>1
  <2>7. TypeOK'
    BY <1>1, <2>1, <2>2 DEF DInv, Control, TypeOK, PageID
  <2>8. Known'
    BY <1>1, <2>2, <2>3, <2>4, <2>5, <2>6 DEF Known
  <2>9. Sized'
    BY <1>1, <1>2, <2>1, <2>2 DEF DInv, Control, Sized
  <2>10. Written'
    <3>1. \A q \in DOMAIN image' : image'[q] # Torn => Filled(file', q, image'[q])
      BY <1>1, <2>3, <2>5
    <3> QED
      BY <1>3, <3>1 DEF Written
  <2> QED
    BY <1>4, <1>5, <2>7, <2>8, <2>9, <2>10 DEF DInv, Control
<1> QED
  BY <1>6, <1>7, Typed

\* Close, or nothing at all.
LEMMA CloseDInv == ASSUME DInv, Close \/ UNCHANGED vars PROVE DInv'
<1>1. /\ UNCHANGED <<numPages, mu, file, durable, th, image, synced, faulty>>
      /\ status' = status \/ (status = "open" /\ status' = "closed")
  BY DEF Close, vars, ioVars, history
<1>2. TypeOK' /\ Known' /\ Sized'
  BY <1>1 DEF DInv, Control, TypeOK, Known, Sized
<1>3. Locked' /\ Calls'
  BY <1>1 DEF DInv, Control, Locked, Calls
<1>4. Written'
  <2>1. \A q : Writers(q)' = Writers(q)
    BY <1>1 DEF Writers, Started
  <2> QED
    BY <1>1, <2>1 DEF DInv, Written, Filled
<1>5. Reading' /\ Durable'
  BY <1>1 DEF DInv, Reading, Durable, Filled
<1> QED
  BY <1>2, <1>3, <1>4, <1>5 DEF DInv, Control

\* Sync, and what the operating system does by itself, change the device only.
LEMMA DeviceDInv ==
  ASSUME DInv, OSWriteBack \/ \E t \in Thread : Sync(t)
  PROVE  DInv'
<1>1. UNCHANGED <<status, numPages, mu, file, th, image, faulty>>
  BY DEF Sync, OSWriteBack, history
<1>2. \A q : Writers(q)' = Writers(q)
  BY <1>1 DEF Writers, Started
<1>3. /\ durable' \in Seq(Chunk) /\ Len(durable') <= Len(file) /\ Durable'
      /\ DOMAIN synced' \subseteq DOMAIN image \/ synced' = synced
  <2>1. CASE \E t \in Thread : Sync(t)
    <3>1. /\ durable' = file
          /\ synced' = [p \in {q \in DOMAIN image : Writers(q) = {} /\ image[q] # Torn} |-> image[p]]
      BY <2>1 DEF Sync, fsync
    <3>2. \A q \in DOMAIN synced' : q \in DOMAIN image /\ Filled(file, q, synced'[q])
      BY <3>1 DEF DInv, Written
    <3>3. Durable' /\ DOMAIN synced' \subseteq DOMAIN image
      BY <1>1, <3>1, <3>2 DEF Durable
    <3> QED
      BY <3>1, <3>3, Typed
  <2>2. CASE \E c \in DOMAIN durable : durable' = [durable EXCEPT ![c] = file[c]] /\ UNCHANGED synced
    <3>1. PICK c \in DOMAIN durable : durable' = [durable EXCEPT ![c] = file[c]] /\ UNCHANGED synced
      BY <2>2
    <3>2. c \in 1 .. Len(durable) /\ c \in 1 .. Len(file) /\ file[c] \in Chunk
      <4>1. /\ file \in Seq(Chunk) /\ durable \in Seq(Chunk) /\ Len(file) \in Nat
            /\ Len(durable) \in Nat /\ Len(durable) <= Len(file)
        BY Typed DEF DInv, Control, Sized
      <4>2. c \in 1 .. Len(durable)
        BY <4>1, LenProperties
      <4>3. c \in 1 .. Len(file)
        BY <4>1, <4>2
      <4> QED
        BY <4>1, <4>2, <4>3, ElementOfSeq
    <3>3. /\ durable' \in Seq(Chunk) /\ Len(durable') = Len(durable)
          /\ \A i \in 1 .. Len(durable) : durable'[i] = IF i = c THEN file[c] ELSE durable[i]
      BY <3>1, <3>2, Typed, ExceptSeq
    <3>4. Durable'
      <4> SUFFICES ASSUME NEW q \in DOMAIN synced
                   PROVE  Filled(file, q, synced[q]) /\ Filled(durable', q, synced[q])
        BY <1>1, <3>1 DEF Durable
      <4>1. Filled(file, q, synced[q]) /\ Filled(durable, q, synced[q]) /\ q \in Nat
        BY DEF DInv, Durable, Control, Known
      <4>2. q * 2 + 1 \in 1 .. Len(durable) /\ q * 2 + 2 \in 1 .. Len(durable)
        BY <4>1, Typed DEF Filled
      <4> QED
        BY <3>3, <4>1, <4>2 DEF Filled
    <3> QED
      BY <3>1, <3>3, <3>4 DEF DInv, Control, Sized
  <2>3. CASE /\ Len(durable) < Len(file) /\ UNCHANGED synced
             /\ \E b \in {Zero, file[Len(durable) + 1]} : durable' = Append(durable, b)
    <3>1. PICK b \in {Zero, file[Len(durable) + 1]} : durable' = Append(durable, b)
      BY <2>3
    <3>2. b \in Chunk
      <4>1. Len(durable) + 1 \in 1 .. Len(file)
        BY <2>3, Typed
      <4> QED
        BY <3>1, <4>1, Typed, ElementOfSeq DEF Chunk
    <3>3. /\ durable' \in Seq(Chunk) /\ Len(durable') = Len(durable) + 1
          /\ \A i \in 1 .. Len(durable) : durable'[i] = durable[i]
      BY <3>1, <3>2, Typed, AppendProperties
    <3>4. Durable'
      <4> SUFFICES ASSUME NEW q \in DOMAIN synced
                   PROVE  Filled(file, q, synced[q]) /\ Filled(durable', q, synced[q])
        BY <1>1, <2>3 DEF Durable
      <4>1. Filled(file, q, synced[q]) /\ Filled(durable, q, synced[q]) /\ q \in Nat
        BY DEF DInv, Durable, Control, Known
      <4>2. /\ q * 2 + 1 \in 1 .. Len(durable) /\ q * 2 + 2 \in 1 .. Len(durable)
            /\ q * 2 + 2 <= Len(durable')
        BY <3>3, <4>1, Typed DEF Filled
      <4> QED
        BY <3>3, <4>1, <4>2 DEF Filled
    <3> QED
      BY <2>3, <3>3, <3>4, Typed
  <2> QED
    BY <2>1, <2>2, <2>3 DEF OSWriteBack, history
<1>4. TypeOK' /\ Sized'
  BY <1>1, <1>3 DEF DInv, Control, TypeOK, Sized
<1>5. Known'
  BY <1>1, <1>3 DEF DInv, Control, Known
<1>6. Locked' /\ Calls' /\ Reading'
  BY <1>1 DEF DInv, Control, Locked, Calls, Reading
<1>7. Written'
  BY <1>1, <1>2 DEF DInv, Written, Filled
<1> QED
  BY <1>3, <1>4, <1>5, <1>6, <1>7 DEF DInv, Control

\* The machine stops: the file is what the device had.
LEMMA CrashDInv == ASSUME DInv, Crash PROVE DInv'
<1> DEFINE n == Len(durable) \div 2
<1>1. /\ status' = "none" /\ numPages' = 0 /\ mu' = NoThread /\ file' = durable /\ faulty' = TRUE
      /\ th' = [t \in Thread |-> Idle] /\ UNCHANGED <<durable, synced>>
      /\ image' = [p \in 0 .. n - 1 |-> Content(durable, p)]
  BY DEF Crash, PageSize
<1>2. \A t \in Thread : th'[t].pc = "idle" /\ th'[t].done = 0
  BY <1>1, IdleSound
<1>3. Locked' /\ Calls' /\ Reading'
  BY <1>1, <1>2 DEF Locked, Calls, Reading
<1>4. th' \in [Thread -> ThreadState]
  BY <1>1, IdleSound
<1>5. TypeOK'
  <2>1. file' \in Seq(Chunk) /\ durable' \in Seq(Chunk)
    BY <1>1, Typed
  <2>2. numPages' \in PageID
    BY <1>1, Typed DEF PageID
  <2> QED
    BY <1>1, <1>4, <2>1, <2>2 DEF TypeOK, ThreadState
<1>6. Sized'
  BY <1>1, Typed DEF DInv, Control, Sized
<1>7. \A p \in 0 .. n - 1 : p \in Nat /\ p * 2 + 2 <= Len(durable)
  BY Typed
<1>8. \A p \in DOMAIN image' : /\ p \in Nat /\ image'[p] \in Chunk \cup {Torn}
                               /\ image'[p] # Torn => Filled(file', p, image'[p])
  <2> SUFFICES ASSUME NEW p \in DOMAIN image'
               PROVE  /\ p \in Nat /\ image'[p] \in Chunk \cup {Torn}
                      /\ image'[p] # Torn => Filled(durable, p, image'[p])
    BY <1>1
  <2>1. p \in 0 .. n - 1 /\ image'[p] = Content(durable, p)
    BY <1>1
  <2> HIDE DEF n
  <2> QED
    BY <1>7, <2>1, ContentFacts, Typed
<1>9. Known'
  BY <1>1, <1>8 DEF DInv, Control, Known
<1>10. Written'
  BY <1>2, <1>8 DEF Written
<1>11. Durable'
  BY <1>1 DEF DInv, Durable, Filled
<1> QED
  BY <1>3, <1>5, <1>6, <1>9, <1>10, <1>11 DEF DInv, Control

-----------------------------------------------------------------------------
(* The theorems.                                                           *)

\* Before the first Open there is an empty file and no call.
LEMMA InitDInv == Init => DInv
<1> SUFFICES ASSUME Init PROVE DInv
  OBVIOUS
<1>1. \A t \in Thread : th[t].pc = "idle" /\ th[t].done = 0 /\ th[t] \in ThreadState
  BY IdleSound DEF Init
<1>2. th \in [Thread -> ThreadState]
  BY <1>1 DEF Init
<1>3. TypeOK
  <2>1. file \in Seq(Chunk) /\ durable \in Seq(Chunk)
    BY EmptySeq DEF Init
  <2>2. numPages \in PageID
    BY MaxUint32Assumption DEF Init, PageID
  <2> QED
    BY <1>2, <2>1, <2>2 DEF Init, TypeOK, ThreadState
<1>4. Locked /\ Calls /\ Reading
  BY <1>1 DEF Init, Locked, Calls, Reading
<1>5. Sized
  BY MaxUint32Assumption, EmptySeq DEF Init, Sized
<1>6. DOMAIN image = {} /\ DOMAIN synced = {}
  BY DEF Init
<1>7. Known /\ Durable
  BY <1>6 DEF Init, Known, Durable
<1>8. Written
  BY <1>1, <1>6 DEF Written
<1> QED
  BY <1>3, <1>4, <1>5, <1>7, <1>8 DEF DInv, Control

\* Every step keeps the invariant.
LEMMA NextDInv == DInv /\ [Next]_vars => DInv'
<1> SUFFICES ASSUME DInv, [Next]_vars PROVE DInv'
  OBVIOUS
<1>1. ASSUME NEW t \in Thread, Caller(t) PROVE DInv'
  <2>1. Zero \in Chunk /\ Value \subseteq Chunk /\ 0 \in PageID
    BY MaxUint32Assumption DEF Chunk, PageID
  <2>2. CASE ReadPage(t)
    BY <2>1, <2>2, CallPageDInv DEF ReadPage
  <2>3. CASE WritePage(t)
    BY <2>1, <2>3, CallPageDInv DEF WritePage
  <2>4. CASE CallAllocate(t)
    BY <2>1, <2>4, CallPageDInv DEF CallAllocate
  <2>5. CASE Sync(t)
    BY <2>5, DeviceDInv
  <2> QED
    BY <1>1, <2>2, <2>3, <2>4, <2>5 DEF Caller
<1>2. ASSUME NEW t \in Thread, TakeLock(t) PROVE DInv'
  BY <1>2, CheckDInv, AllocatePageDInv, ReturnDInv DEF TakeLock
<1>3. ASSUME NEW t \in Thread, IOFails(t) PROVE DInv'
  <2>1. th[t].pc \in {"readAt", "writeAt", "extendAt"} /\ (th[t].done > 0 \/ th[t].done = 0)
    BY <1>3, Typed DEF IOFails, Writing
  <2> QED
    BY <1>3, <2>1, ReturnDInv, WriteFailsDInv, ExtendFailsDInv
<1>4. ASSUME NEW t \in Thread, Step(t) PROVE DInv'
  BY <1>3, <1>4, ReadAtDInv, ReturnDInv, WriteAtDInv, ExtendAtDInv, BumpDInv DEF Step
<1> QED
  BY <1>1, <1>2, <1>4, OpenDInv, CloseDInv, DeviceDInv, CrashDInv DEF Next

\* DInv holds in every reachable state of the manager, its file and its callers.
THEOREM DiskInductive == Spec => []DInv
BY InitDInv, NextDInv, PTL DEF Spec

\* Every reachable state has the types of the manager, the file and the calls.
THEOREM TypeCorrect == Spec => []TypeOK
<1>1. DInv => TypeOK
  BY DEF DInv, Control
<1> QED
  BY <1>1, DiskInductive, PTL

\* A page that numPages counts is in the file, for any number of goroutines.
THEOREM CountIsBacked == Spec => []Advertised
<1>1. DInv => Advertised
  BY DEF DInv, Control, Sized, Advertised, PageSize
<1> QED
  BY <1>1, DiskInductive, PTL

\* A call that passed the check against numPages is in range when its I/O runs,
\* although the lock was released in between.
THEOREM ChecksStayGood == Spec => []CheckedIOInRange
<1>1. ASSUME DInv PROVE CheckedIOInRange
  <2>1. numPages * 2 <= Len(file)
    BY <1>1 DEF DInv, Control, Sized
  <2>2. ASSUME NEW t \in Thread, th[t].pc \in {"readAt", "writeAt"}
        PROVE  (th[t].id + 1) * 2 <= Len(file)
    BY <1>1, <2>1, <2>2, Typed DEF DInv, Control, Calls
  <2> QED
    BY <2>2 DEF CheckedIOInRange, PageSize
<1>2. DInv => CheckedIOInRange
  BY <1>1
<1> QED
  BY <1>2, DiskInductive, PTL

\* AllocatePage never hands out an id twice and its counter never wraps,
\* whatever the limit and however many goroutines allocate.
THEOREM IdsAreUnique == Spec => []OneIdPerPage
<1>1. DInv => OneIdPerPage
  BY DEF DInv, Control, Known, OneIdPerPage
<1> QED
  BY <1>1, DiskInductive, PTL

\* Lock-free I/O on distinct pages never disturbs a page at rest.
THEOREM PagesAreIndependent == Spec => []PagesIndependent
<1>1. ASSUME DInv PROVE PagesIndependent
  <2>1. SUFFICES ASSUME NEW p \in DOMAIN image, Writers(p) = {}, image[p] # Torn
                 PROVE  (p + 1) * PageSize <= Len(file) /\ Chunks(p) = Whole(image[p])
    BY DEF PagesIndependent
  <2>2. p \in Nat /\ Filled(file, p, image[p]) /\ file \in Seq(Chunk)
    BY <1>1, <2>1, Typed DEF DInv, Control, Known, Written
  <2>3. p * 2 + 2 <= Len(file)
    BY <2>2 DEF Filled
  <2>4. Chunks(p) = Whole(image[p])
    BY <2>2, <2>3, PageChunks DEF Chunks
  <2> QED
    BY <2>2, <2>3, <2>4 DEF PageSize
<1>2. DInv => PagesIndependent
  BY <1>1
<1> QED
  BY <1>2, DiskInductive, PTL

\* A ReadPage that no write of its page overlaps returns the last one, whole.
THEOREM ReadsAreWhole == Spec => []ReadsLastWrite
<1>1. ASSUME DInv PROVE ReadsLastWrite
  <2>1. SUFFICES ASSUME NEW t \in Thread, th[t].pc = "got", th[t].alone, image[th[t].id] # Torn
                 PROVE  th[t].got = Whole(image[th[t].id])
    BY DEF ReadsLastWrite
  <2> DEFINE g == th[t].got
             v == image[th[t].id]
  <2>2. g \in Seq(Chunk) /\ Len(g) = 2 /\ \A i \in 1 .. 2 : g[i] = v
    BY <1>1, <2>1, Typed DEF DInv, Reading
  <2>3. DOMAIN g = 1 .. 2 /\ g = [i \in 1 .. 2 |-> g[i]]
    BY <2>2, LenProperties
  <2> HIDE DEF g, v
  <2>4. g = Whole(v)
    BY <2>2, <2>3 DEF Whole, PageSize
  <2> QED
    BY <2>4 DEF g, v
<1>2. DInv => ReadsLastWrite
  BY <1>1
<1> QED
  BY <1>2, DiskInductive, PTL

\* What a Sync has promised is in the file after any failure of the machine and
\* any number of reopens, under the same id.
THEOREM SyncIsDurable == Spec => []SyncedSurvives
<1>1. ASSUME DInv PROVE SyncedSurvives
  <2>1. SUFFICES ASSUME NEW p \in DOMAIN synced
                 PROVE  /\ (p + 1) * PageSize <= Len(file) /\ Chunks(p) = Whole(synced[p])
                        /\ status = "open" => p < numPages
    BY DEF SyncedSurvives
  <2>2. p \in Nat /\ Filled(file, p, synced[p]) /\ file \in Seq(Chunk)
    BY <1>1, Typed DEF DInv, Control, Known, Durable
  <2>3. p * 2 + 2 <= Len(file)
    BY <2>2 DEF Filled
  <2>4. Chunks(p) = Whole(synced[p])
    BY <2>2, <2>3, PageChunks DEF Chunks
  <2>5. status = "open" => p < numPages
    <3>1. status = "open" => p \in 0 .. numPages - 1
      BY <1>1 DEF DInv, Control, Known
    <3> QED
      BY <2>2, <3>1, <1>1, Typed
  <2> QED
    BY <2>2, <2>3, <2>4, <2>5 DEF PageSize
<1>2. DInv => SyncedSurvives
  BY <1>1
<1> QED
  BY <1>2, DiskInductive, PTL

\* Open rejects a file only after a crash or a half-way failed extension.
THEOREM ReopensClean == Spec => []CleanReopen
<1>1. DInv => CleanReopen
  BY DEF DInv, Control, Sized, CleanReopen
<1> QED
  BY <1>1, DiskInductive, PTL

=============================================================================
