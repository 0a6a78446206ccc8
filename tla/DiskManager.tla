----------------------------- MODULE DiskManager -----------------------------
(***************************************************************************)
(* One data file and the DiskManager that goroutines share                 *)
(* (internal/storage/disk/disk.go).                                        *)
(*                                                                         *)
(* The mutex guards the cached page count only: ReadPage and WritePage     *)
(* take it to compare the id with the count and do their I/O after         *)
(* releasing it; AllocatePage holds it across its write.  I/O is not       *)
(* atomic: a page is PageSize chunks, read and written one by one, and a   *)
(* call may fail after any of them.  "durable" is what a crash leaves of   *)
(* the file.                                                               *)
(*                                                                         *)
(* Two history variables say what the callers were promised: image[p] is   *)
(* the page that p's last write left, synced[p] the one a Sync made        *)
(* durable.                                                                *)
(***************************************************************************)
EXTENDS Integers, Sequences

CONSTANTS Thread,     \* the goroutines
          NoThread,   \* holds the mutex when it is free
          Value,      \* contents a caller may write
          Zero,       \* the contents of a fresh page
          Torn,       \* unknown contents: interrupted or overlapping writes
          MaxUint32   \* the largest page count (2^32 - 1 in the code)

ASSUME MaxUint32Assumption == MaxUint32 \in Nat \ {0}
ASSUME NoThreadAssumption == NoThread \notin Thread
ASSUME ContentsAssumption == Torn \notin Value \cup {Zero}

\* Chunks per page.  Two are enough to tear a page.
PageSize == 2
PageID == 0 .. MaxUint32
Chunk == Value \cup {Zero}

VARIABLES
  status,     \* "none" (no manager), "open", "closed", or "rejected" by Open
  numPages,   \* DiskManager.numPages
  mu,         \* the thread that holds the mutex
  file,       \* the chunks of the file, as the OS shows them
  durable,    \* the chunks that survive a crash
  th,         \* per thread: the call it is executing
  image, synced, faulty

ioVars == <<file, durable, faulty>>
history == <<image, synced>>
vars == <<status, numPages, mu, file, durable, th, image, synced, faulty>>

-----------------------------------------------------------------------------
(* A thread's call: its program counter, page id, buffer, and the number   *)
(* of chunks its I/O has moved.  "alone" records that no write of the page *)
(* overlapped the I/O.                                                     *)

Idle == [pc |-> "idle", id |-> 0, src |-> Zero, got |-> <<>>, done |-> 0,
         alone |-> TRUE]
Call(pc, id, v) == [Idle EXCEPT !.pc = pc, !.id = id, !.src = v]

Writing == {"writeAt", "extendAt"}
\* u's I/O on p has moved a chunk, and its call has not returned.
Started(u, p) == th[u].done > 0 /\ th[u].id = p
Writers(p) == {u \in Thread : th[u].pc \in Writing /\ Started(u, p)}

\* Mutant: the stride between pages is a chunk too short.
OffsetShort(t) == th[t].id * (PageSize - 1) + th[t].done + 1
\* The index of the next chunk that t's I/O moves.
Offset(t) == th[t].id * PageSize + th[t].done + 1
Chunks(p) == SubSeq(file, p * PageSize + 1, (p + 1) * PageSize)
Whole(v) == [i \in 1 .. PageSize |-> v]
\* Content of p as an image: the value it is filled with, if there is one.
Content(f, p) ==
  LET c == SubSeq(f, p * PageSize + 1, (p + 1) * PageSize)
  IN  IF c = Whole(c[1]) THEN c[1] ELSE Torn

Init ==
  /\ status = "none" /\ numPages = 0 /\ mu = NoThread
  /\ file = <<>> /\ durable = <<>> /\ faulty = FALSE
  /\ th = [t \in Thread |-> Idle]
  /\ image = <<>> /\ synced = <<>>

-----------------------------------------------------------------------------
(* Open and Close.                                                         *)

\* Open's page count: PageID(size / PageSize), a conversion to uint32.
PageCount(size) == (size \div PageSize) % (MaxUint32 + 1)

\* Open on a file that no manager holds.  A size that is no whole number of
\* pages is an error, and the file stays unusable.
Open ==
  /\ status # "open" /\ \A t \in Thread : th[t] = Idle
  /\ IF Len(file) % PageSize # 0
     THEN status' = "rejected" /\ UNCHANGED <<numPages, image>>
     ELSE /\ status' = "open"
          /\ numPages' = PageCount(Len(file))
          /\ image' = [p \in 0 .. numPages' - 1 |->
                         IF p \in DOMAIN image THEN image[p] ELSE Content(file, p)]
  /\ UNCHANGED <<mu, ioVars, th, synced>>

\* Close: calls that have not begun their I/O will fail.
Close ==
  /\ status = "open"
  /\ status' = "closed"
  /\ UNCHANGED <<numPages, mu, ioVars, th, history>>

-----------------------------------------------------------------------------
(* ReadPage and WritePage, up to the page-count check.                     *)

CallPage(t, pc, id, v) ==
  /\ status \in {"open", "closed"} /\ th[t] = Idle
  /\ th' = [th EXCEPT ![t] = Call(pc, id, v)]
  /\ UNCHANGED <<status, numPages, mu, ioVars, history>>

ReadPage(t) == \E id \in PageID : CallPage(t, "readCheck", id, Zero)
WritePage(t) == \E id \in PageID, v \in Value : CallPage(t, "writeCheck", id, v)

\* Mutant: the check is off by one.
InRangeOffByOne(id) == id <= numPages
InRange(id) == id < numPages

\* A call that passed the check begins its I/O.
Passed(c) == [c EXCEPT !.pc = IF c.pc = "readCheck" THEN "readAt" ELSE "writeAt"]

\* n := d.numPages under the lock; an id out of range is refused.
Check(t) ==
  /\ th[t].pc \in {"readCheck", "writeCheck"} /\ mu = NoThread
  /\ th' = [th EXCEPT ![t] = IF InRange(th[t].id) THEN Passed(th[t]) ELSE Idle]
  /\ UNCHANGED <<status, numPages, mu, ioVars, history>>

-----------------------------------------------------------------------------
(* AllocatePage, up to its WriteAt.                                        *)

CallAllocate(t) == CallPage(t, "lock", 0, Zero)

\* Mutant: no limit check; the counter wraps to 0.
AtLimitUnchecked == FALSE
AtLimit == numPages = MaxUint32

\* Lock, refuse at the limit (the deferred unlock runs), else start to extend.
AllocatePage(t) ==
  /\ th[t].pc = "lock" /\ mu = NoThread
  /\ IF AtLimit
     THEN th' = [th EXCEPT ![t] = Idle] /\ UNCHANGED mu
     ELSE /\ th' = [th EXCEPT ![t].pc = "extendAt", ![t].id = numPages]
          /\ mu' = t
  /\ UNCHANGED <<status, numPages, ioVars, history>>

\* Mutant: an early return keeps the mutex.
UnlockForgotten(t) == mu
\* The deferred Unlock of the caller, if it holds the mutex.
Unlock(t) == IF mu = t THEN NoThread ELSE mu

-----------------------------------------------------------------------------
(* The I/O.  A call on a closed file fails before it moves a chunk.        *)

\* The buffer is exactly one page.
CanMove(t) == th[t].done < PageSize /\ (th[t].done = 0 => status = "open")

\* One chunk of ReadAt; the call returns once the buffer is full.
ReadAt(t) ==
  /\ th[t].pc = "readAt" /\ CanMove(t) /\ Offset(t) <= Len(file)
  /\ th' = [th EXCEPT ![t].got = Append(@, file[Offset(t)]),
                      ![t].done = @ + 1,
                      ![t].alone = @ /\ Writers(th[t].id) = {},
                      ![t].pc = IF th[t].done + 1 = PageSize THEN "got" ELSE @]
  /\ UNCHANGED <<status, numPages, mu, ioVars, history>>

ReturnPage(t) ==
  /\ th[t].pc = "got"
  /\ th' = [th EXCEPT ![t] = Idle]
  /\ UNCHANGED <<status, numPages, mu, ioVars, history>>

\* The threads after t has written one chunk of page p.
Wrote(t, p, next) ==
  [u \in Thread |->
     IF u = t THEN [th[t] EXCEPT !.done = @ + 1, !.pc = next,
                                 !.alone = @ /\ Writers(p) \subseteq {t}]
     ELSE [th[u] EXCEPT !.alone = @ /\ ~Started(u, p)]]

\* The file with chunk c at index i, which may be the one after its last.
Put(i, c) == IF i > Len(file) THEN Append(file, c) ELSE [file EXCEPT ![i] = c]

\* One chunk of WritePage's WriteAt; with the last one the call returns.
WriteAt(t) ==
  LET p == th[t].id
      last == th[t].done + 1 = PageSize
      after == Wrote(t, p, "writeAt")
  IN  /\ th[t].pc = "writeAt" /\ CanMove(t)
      /\ file' = Put(Offset(t), th[t].src)
      /\ th' = IF last THEN [after EXCEPT ![t] = Idle] ELSE after
      /\ image' = IF last
                  THEN [image EXCEPT ![p] = IF after[t].alone THEN th[t].src ELSE Torn]
                  ELSE image
      /\ synced' = [q \in DOMAIN synced \ {p} |-> synced[q]]
      /\ UNCHANGED <<status, numPages, mu, durable, faulty>>

\* One chunk of AllocatePage's WriteAt: zeroes.
ExtendAt(t) ==
  /\ th[t].pc = "extendAt" /\ CanMove(t)
  /\ file' = Put(Offset(t), Zero)
  /\ th' = Wrote(t, th[t].id, "extendAt")
  /\ UNCHANGED <<status, numPages, mu, durable, faulty, history>>

\* Mutant: the count advances before the page is written.
ReadyAtOnce(t) == TRUE
ReadyToBump(t) == th[t].done = PageSize

\* numPages++, a uint32, and the deferred unlock: the id is handed out.
Bump(t) ==
  /\ th[t].pc = "extendAt" /\ ReadyToBump(t)
  /\ numPages' = (numPages + 1) % (MaxUint32 + 1)
  /\ mu' = Unlock(t)
  /\ th' = [th EXCEPT ![t] = Idle]
  /\ image' = [p \in DOMAIN image \cup {th[t].id} |->
                 IF p = th[t].id THEN Zero ELSE image[p]]
  /\ UNCHANGED <<status, ioVars, synced>>

\* Any ReadAt or WriteAt may fail after some chunks, or because the file is
\* closed; the deferred unlock runs.  A page half overwritten is torn, a file
\* half extended is no whole number of pages.
IOFails(t) ==
  LET p == th[t].id
  IN  /\ th[t].pc \in Writing \cup {"readAt"} /\ th[t].done < PageSize
      /\ th' = [th EXCEPT ![t] = Idle]
      /\ mu' = Unlock(t)
      /\ image' = IF th[t].pc = "writeAt" /\ th[t].done > 0
                  THEN [image EXCEPT ![p] = Torn] ELSE image
      /\ faulty' = (faulty \/ (th[t].pc = "extendAt" /\ th[t].done > 0))
      /\ UNCHANGED <<status, numPages, file, durable, synced>>

-----------------------------------------------------------------------------
(* Durability.                                                             *)

\* Mutant: Sync returns without asking the OS for anything.
fsyncSkipped == durable
\* fsync: what the file shows is what the device holds.
fsync == file

\* Sync, without the lock.  From here on the pages that nobody is writing are
\* promised to survive, until they are written again.
Sync(t) ==
  /\ status = "open" /\ th[t] = Idle
  /\ durable' = fsync
  /\ synced' = [p \in {q \in DOMAIN image : Writers(q) = {} /\ image[q] # Torn}
                 |-> image[p]]
  /\ UNCHANGED <<status, numPages, mu, file, th, image, faulty>>

\* The OS writes back one chunk of its cache whenever it likes; the file may
\* grow by a chunk of zeroes before its contents arrive.
OSWriteBack ==
  /\ \/ \E c \in DOMAIN durable : durable' = [durable EXCEPT ![c] = file[c]]
     \/ /\ Len(durable) < Len(file)
        /\ \E b \in {Zero, file[Len(durable) + 1]} : durable' = Append(durable, b)
  /\ UNCHANGED <<status, numPages, mu, file, th, history, faulty>>

\* The machine stops; every thread with it.  A manager must be opened again.
Crash ==
  /\ status' = "none" /\ numPages' = 0 /\ mu' = NoThread
  /\ file' = durable /\ faulty' = TRUE
  /\ th' = [t \in Thread |-> Idle]
  /\ image' = [p \in 0 .. (Len(durable) \div PageSize) - 1 |-> Content(durable, p)]
  /\ UNCHANGED <<durable, synced>>

-----------------------------------------------------------------------------
Step(t) == ReadAt(t) \/ ReturnPage(t) \/ WriteAt(t) \/ ExtendAt(t) \/ Bump(t)
           \/ IOFails(t)
TakeLock(t) == Check(t) \/ AllocatePage(t)
Caller(t) == ReadPage(t) \/ WritePage(t) \/ CallAllocate(t) \/ Sync(t)

Next ==
  \/ Open \/ Close \/ OSWriteBack \/ Crash
  \/ \E t \in Thread : Caller(t) \/ TakeLock(t) \/ Step(t)

Spec == Init /\ [][Next]_vars

\* A goroutine in I/O is eventually scheduled, and sync.Mutex starves no
\* waiter (its starvation mode).
Fairness == \A t \in Thread : WF_vars(Step(t)) /\ SF_vars(TakeLock(t))
FairSpec == Spec /\ Fairness

-----------------------------------------------------------------------------
(* Properties.                                                             *)

\* The type of the manager, the file and the calls in progress.
TypeOK ==
  /\ status \in {"none", "open", "closed", "rejected"}
  /\ numPages \in PageID /\ mu \in Thread \cup {NoThread}
  /\ file \in Seq(Chunk) /\ durable \in Seq(Chunk) /\ faulty \in BOOLEAN
  /\ th \in [Thread -> [pc : {"idle", "readCheck", "writeCheck", "lock", "readAt",
                              "writeAt", "extendAt", "got"},
                        id : PageID, src : Chunk, got : Seq(Chunk),
                        done : 0 .. PageSize, alone : BOOLEAN]]

\* "id < numPages implies the page exists and is readable": AllocatePage's
\* write precedes its increment, and no failed, closed or crashed extension
\* leaves a count that the file does not back.
Advertised == numPages * PageSize <= Len(file)

\* A call that passed the page-count check is still in range when its I/O runs,
\* after the lock was released: it can meet no short read, and a write never
\* grows the file.
CheckedIOInRange ==
  \A t \in Thread :
    th[t].pc \in {"readAt", "writeAt"} => (th[t].id + 1) * PageSize <= Len(file)

\* No id is handed out twice, none is skipped, and the counter never wraps:
\* the pages that exist are the ones that Open found or AllocatePage returned.
OneIdPerPage == status \in {"open", "closed"} => DOMAIN image = 0 .. numPages - 1

\* Lock-free I/O on distinct pages is safe: whatever other pages are read,
\* written or added meanwhile, a page that nobody is writing holds what its
\* last write left there.
PagesIndependent ==
  \A p \in DOMAIN image :
    Writers(p) = {} /\ image[p] # Torn
      => (p + 1) * PageSize <= Len(file) /\ Chunks(p) = Whole(image[p])

\* A ReadPage that overlaps no write of its page returns the page's last write,
\* never a mix of two.
ReadsLastWrite ==
  \A t \in Thread :
    th[t].pc = "got" /\ th[t].alone /\ image[th[t].id] # Torn
      => th[t].got = Whole(image[th[t].id])

\* A page whose writes had returned before a Sync is there after a crash and a
\* reopen, in range and unchanged, until it is written again: neither lost
\* pages, nor a re-issued id, nor torn later writes of other pages touch it.
SyncedSurvives ==
  \A p \in DOMAIN synced :
    /\ (p + 1) * PageSize <= Len(file) /\ Chunks(p) = Whole(synced[p])
    /\ status = "open" => p < numPages

\* Open finds a whole number of pages unless the machine crashed or an
\* extension failed half-way: closing the manager under running calls never
\* makes a file that Open rejects.
CleanReopen == status = "rejected" => faulty

\* Every call returns: the mutex is released on every path, errors included.
CallsReturn == \A t \in Thread : th[t].pc # "idle" ~> th[t].pc = "idle"

=============================================================================
