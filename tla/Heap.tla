-------------------------------- MODULE Heap ---------------------------------
(***************************************************************************)
(* The heap access method (internal/access/heap) on slotted pages.         *)
(*                                                                         *)
(* Heap has no lock and is not for concurrent Inserts: one goroutine calls *)
(* it, but the callback of a Scan may itself Insert.  The pool is external *)
(* and modelled as PageStore promises: "pages" are the contents callers    *)
(* see; "disk" what the file has, brought up to date for a page that was   *)
(* unpinned dirty when the pool likes.  A FetchPage that fails before      *)
(* anything was pinned leaves no trace and is left out.                    *)
(***************************************************************************)
EXTENDS SlottedPage, FiniteSets

CONSTANTS Tuple,   \* the byte strings that are inserted
          MaxPages \* bound: pages of the file

ASSUME HeapAssumption == MaxPages \in Nat /\ \A data \in Tuple : data \in Seq(0 .. Word - 1)

VARIABLES
  pages,   \* the pages as callers of the pool see them, by id from 0
  disk,    \* the pages in the file
  dirty,   \* ids of the pages the pool knows to be changed
  pins,    \* pins held on each page
  ins,     \* the Insert in progress
  scan,    \* the Scan in progress
  stored,  \* the tuples whose Insert has returned, by tuple id
  flushed  \* the ids among them whose page was written since

vars == <<pages, disk, dirty, pins, ins, scan, stored, flushed>>

NumPages == Cardinality(DOMAIN pages)
TID(pid, slot) == <<pid, slot>>

Put(f, k, v) == [x \in DOMAIN f \cup {k} |-> IF x = k THEN v ELSE f[x]]

NoInsert == [pc |-> "idle"]
NoScan == [pc |-> "idle"]

Init ==
  /\ pages = <<>> /\ disk = <<>> /\ dirty = {}
  /\ pins = [pid \in 0 .. MaxPages - 1 |-> 0]
  /\ ins = NoInsert /\ scan = NoScan
  /\ stored = <<>> /\ flushed = {}

Pin(pid) == pins' = [pins EXCEPT ![pid] = @ + 1]
Unpin(pid) == pins' = [pins EXCEPT ![pid] = @ - 1]

-----------------------------------------------------------------------------
(* Insert.                                                                 *)

\* A caller may insert between its own calls and from within a scan's callback.
CallerRuns == ins = NoInsert /\ scan.pc \in {"idle", "callback"}

\* Insert begins: the last page is fetched if there is one.
Insert(data) ==
  /\ CallerRuns
  /\ IF NumPages > 0
     THEN ins' = [pc |-> "last", data |-> data, pid |-> NumPages - 1] /\ Pin(NumPages - 1)
     ELSE ins' = [pc |-> "grow", data |-> data, pid |-> 0] /\ UNCHANGED pins
  /\ UNCHANGED <<pages, disk, dirty, scan, stored, flushed>>

\* The page becomes p and is reported dirty by the unpin.
Changed(pid, p) == pages' = Put(pages, pid, p) /\ dirty' = dirty \cup {pid}

\* The tuple is in slot SlotCount(p), p the page before; Insert returns its id.
Stored(pid, p) ==
  /\ stored' = Put(stored, TID(pid, SlotCount(p)), ins.data)
  /\ flushed' = flushed \ {TID(pid, SlotCount(p))}

\* The tuple fits the last page.
InsertLast ==
  LET p == pages[ins.pid]
  IN  /\ ins.pc = "last" /\ Fits(p, ins.data)
      /\ Changed(ins.pid, InsertTuple(p, ins.data))
      /\ Stored(ins.pid, p)
      /\ Unpin(ins.pid) /\ ins' = NoInsert
      /\ UNCHANGED <<disk, scan>>

\* Mutant: the full page stays pinned.
ReleaseFullForgotten == UNCHANGED pins
ReleaseFull == Unpin(ins.pid)

\* ErrNoSpace: fall through to a new page.
LastPageFull ==
  /\ ins.pc = "last" /\ ~Fits(pages[ins.pid], ins.data)
  /\ ReleaseFull /\ ins' = [ins EXCEPT !.pc = "grow"]
  /\ UNCHANGED <<pages, disk, dirty, scan, stored, flushed>>

\* NewPage: AllocatePage has extended the file by zeros, and the frame is zero.
NewPage ==
  /\ ins.pc = "grow" /\ NumPages < MaxPages
  /\ pages' = Put(pages, NumPages, ZeroPage) /\ disk' = Put(disk, NumPages, ZeroPage)
  /\ Pin(NumPages) /\ ins' = [ins EXCEPT !.pc = "format", !.pid = NumPages]
  /\ UNCHANGED <<dirty, scan, stored, flushed>>

NewPageFails ==
  /\ ins.pc = "grow" /\ ins' = NoInsert
  /\ UNCHANGED <<pages, disk, dirty, pins, scan, stored, flushed>>

\* Mutant: unpinned clean, since no tuple went in.
ReleaseEmptyClean(pid) == pages' = Put(pages, pid, Formatted) /\ UNCHANGED dirty
ReleaseEmpty(pid) == Changed(pid, Formatted)

\* The new page is formatted, and takes the tuple or, if that is too long for
\* any page, stays empty; it is unpinned dirty in both cases.
InsertFresh ==
  /\ ins.pc = "format"
  /\ IF Fits(Formatted, ins.data)
     THEN Changed(ins.pid, InsertTuple(Formatted, ins.data)) /\ Stored(ins.pid, Formatted)
     ELSE ReleaseEmpty(ins.pid) /\ UNCHANGED <<stored, flushed>>
  /\ Unpin(ins.pid) /\ ins' = NoInsert
  /\ UNCHANGED <<disk, scan>>

-----------------------------------------------------------------------------
(* Get and Scan.                                                           *)

\* Whether Get finds the tuple: else it returns an error, or panics on a slice.
Found(tid) ==
  /\ tid[1] < NumPages
  /\ tid[2] < SlotCount(pages[tid[1]]) /\ Readable(pages[tid[1]], tid[2])
Get(tid) == LocateTuple(pages[tid[1]], tid[2])

unchangedByScan == <<pages, disk, dirty, ins, stored, flushed>>

Scan ==
  /\ scan = NoScan /\ ins = NoInsert
  /\ scan' = [pc |-> "fetch", pid |-> 0, slot |-> 0, n |-> 0, seen |-> <<>>,
              start |-> DOMAIN stored]
  /\ UNCHANGED <<pins, unchangedByScan>>

\* The next page, if NumPages says there is one now; Slots reads its count once.
ScanFetch ==
  /\ scan.pc = "fetch" /\ scan.pid < NumPages
  /\ scan' = [scan EXCEPT !.pc = "slot", !.slot = 0, !.n = SlotCount(pages[scan.pid])]
  /\ Pin(scan.pid) /\ UNCHANGED unchangedByScan

ScanFetchFails ==
  /\ scan.pc = "fetch" /\ scan.pid < NumPages
  /\ scan' = NoScan /\ UNCHANGED <<pins, unchangedByScan>>

\* fn is called with a slot's tuple.
ScanSlot ==
  LET p == pages[scan.pid]
  IN  /\ scan.pc = "slot" /\ scan.slot < scan.n /\ Readable(p, scan.slot)
      /\ scan' = [scan EXCEPT !.pc = "callback",
                    !.seen = Append(@, <<TID(scan.pid, scan.slot), LocateTuple(p, scan.slot)>>)]
      /\ UNCHANGED <<pins, unchangedByScan>>

\* fn returns nil, or an error that ends the scan.
CallbackReturns ==
  /\ scan.pc = "callback" /\ ins = NoInsert
  /\ scan' = [scan EXCEPT !.pc = "slot", !.slot = @ + 1]
  /\ UNCHANGED <<pins, unchangedByScan>>

CallbackFails ==
  /\ scan.pc = "callback" /\ ins = NoInsert
  /\ scan' = NoScan /\ Unpin(scan.pid)
  /\ UNCHANGED unchangedByScan

\* Mutant: the page after is skipped.
nextPageSkips(pid) == pid + 2
nextPage(pid) == pid + 1

PageDone ==
  /\ scan.pc = "slot" /\ scan.slot >= scan.n
  /\ scan' = [scan EXCEPT !.pc = "fetch", !.pid = nextPage(@)]
  /\ Unpin(scan.pid) /\ UNCHANGED unchangedByScan

ScanDone ==
  /\ scan.pc = "fetch" /\ scan.pid >= NumPages
  /\ scan' = NoScan /\ UNCHANGED <<pins, unchangedByScan>>

-----------------------------------------------------------------------------
(* The pool and the process.                                               *)

\* The pool writes a dirty page: an eviction, a flush, a checkpoint.
WriteBack(pid) ==
  /\ pid \in dirty
  /\ disk' = [disk EXCEPT ![pid] = pages[pid]] /\ dirty' = dirty \ {pid}
  /\ flushed' = flushed \cup {t \in DOMAIN stored : t[1] = pid}
  /\ UNCHANGED <<pages, pins, ins, scan, stored>>

\* The process ends, and another one opens the file.
Restart ==
  /\ pages' = disk /\ dirty' = {} /\ pins' = [pid \in DOMAIN pins |-> 0]
  /\ ins' = NoInsert /\ scan' = NoScan
  /\ stored' = [t \in flushed |-> stored[t]]
  /\ UNCHANGED <<disk, flushed>>

Exit == pages # <<>> /\ Restart

\* A slice out of range in Slots or LocateTupleByEntry.
ScanPanics ==
  /\ scan.pc = "slot" /\ scan.slot < scan.n /\ ~Readable(pages[scan.pid], scan.slot)
  /\ Restart

Next ==
  \/ \E data \in Tuple : Insert(data)
  \/ InsertLast \/ LastPageFull \/ NewPage \/ NewPageFails \/ InsertFresh
  \/ Scan \/ ScanFetch \/ ScanFetchFails \/ ScanSlot \/ CallbackReturns
  \/ CallbackFails \/ PageDone \/ ScanDone
  \/ \E pid \in DOMAIN pages : WriteBack(pid)
  \/ Exit \/ ScanPanics

Spec == Init /\ [][Next]_vars

-----------------------------------------------------------------------------
(* Properties.                                                             *)

IsFormatted(p) == PdUpper(p) # 0
SlotsOf(p) == 0 .. SlotCount(p) - 1

\* The parts of a formatted page never run into each other: header, directory,
\* free space and tuples follow one another, and no two tuples share a byte.
LayoutSound ==
  \A pid \in DOMAIN pages : LET p == pages[pid] IN IsFormatted(p) =>
    /\ HeaderSize <= PdUpper(p) /\ PdUpper(p) <= PdLower(p) /\ PdLower(p) <= PageSize
    /\ \A i \in SlotsOf(p) :
         /\ PdLower(p) <= Offset(p, i) /\ Offset(p, i) + Length(p, i) <= PageSize
         /\ \A j \in SlotsOf(p) : i < j => Offset(p, j) + Length(p, j) <= Offset(p, i)

\* Get answers every returned tuple id with the bytes that were inserted, across
\* later inserts, and across restarts if its page was written since; and a
\* formatted page holds no others: a failed Insert leaves no slot behind, and
\* none appears after a restart.
PagesHoldStored ==
  /\ \A tid \in DOMAIN stored : Found(tid) /\ Get(tid) = stored[tid]
  /\ \A pid \in DOMAIN pages : IsFormatted(pages[pid]) =>
       \A i \in SlotsOf(pages[pid]) : TID(pid, i) \in DOMAIN stored

\* Every difference between a page and the file is known to the pool, the format
\* of a new page included when its tuple did not fit (heap.go's "both paths").
ChangesReported == \A pid \in DOMAIN pages : pages[pid] # disk[pid] => pid \in dirty

Holds(b) == IF b THEN 1 ELSE 0

\* Each page is pinned once by the Insert and once by the Scan that is on it, and
\* otherwise not at all, whichever way they returned before.
PinsBalanced ==
  \A pid \in DOMAIN pins :
    pins[pid] = Holds(ins.pc \in {"last", "format"} /\ ins.pid = pid)
              + Holds(scan.pc \in {"slot", "callback"} /\ scan.pid = pid)

Before(s, t) == s[1] < t[1] \/ (s[1] = t[1] /\ s[2] < t[2])

\* A Scan shows tuples in physical order, each once, with the bytes stored, and
\* one that reaches the end has shown every tuple there was when it began, even
\* if its callback inserted.
ScanExact ==
  scan # NoScan =>
    /\ \A i, j \in DOMAIN scan.seen : i < j => Before(scan.seen[i][1], scan.seen[j][1])
    /\ \A i \in DOMAIN scan.seen : LET tid == scan.seen[i][1] IN
         IsFormatted(pages[tid[1]]) => tid \in DOMAIN stored /\ stored[tid] = scan.seen[i][2]
    /\ scan.pc = "fetch" /\ scan.pid >= NumPages =>
         scan.start \subseteq {scan.seen[i][1] : i \in DOMAIN scan.seen}

\* heap.go on Insert: no zero page is left behind that Scan would later read as
\* an underflowing slot count.
ScanMeetsNoZeroPage ==
  scan.pc = "slot" => IsFormatted(pages[scan.pid])
=============================================================================
