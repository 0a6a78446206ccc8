---------------------------- MODULE NBTreeProofs ----------------------------
(***************************************************************************)
(* The steps of Scan keep the control invariant of the B+Tree, and what    *)
(* the invariant says of every reachable state, for every capacity of the  *)
(* nodes, every set of entries and ranges and any number of failures.      *)
(***************************************************************************)
EXTENDS NBTreeSteps

\* The Scan reads a leaf: it starts at the position of its lower bound.
LEMMA ScanFetched ==
  ASSUME scan \in ScanState, NEW n \in Nat, NEW j \in Nat,
         scan' = [scan EXCEPT !.pc = "entry", !.first = FALSE, !.next = n, !.i = j]
  PROVE  /\ scan' \in ScanState
         /\ scan'.pc = "entry" /\ scan'.lo = scan.lo /\ scan'.hi = scan.hi
         /\ scan'.pid = scan.pid /\ scan'.first = FALSE /\ scan'.i = j
         /\ scan'.next = n /\ scan'.seen = scan.seen /\ scan'.quiet = scan.quiet
<1>1. /\ scan.pc \in ScanSteps /\ scan.lo \in Int /\ scan.hi \in Int /\ scan.pid \in Nat
      /\ scan.first \in BOOLEAN /\ scan.i \in Nat /\ scan.next \in Nat
      /\ scan.seen \in Seq(Key \X TID) /\ scan.quiet \in BOOLEAN
      /\ scan = scanState(scan.pc, scan.lo, scan.hi, scan.pid, scan.first, scan.i, scan.next,
                          scan.seen, scan.quiet)
  BY ScanParts
<1>2. scan' = scanState("entry", scan.lo, scan.hi, scan.pid, FALSE, j, n, scan.seen, scan.quiet)
  BY <1>1, Zenon DEF scanState
<1> QED
  BY <1>1, <1>2 DEF scanState, ScanState, ScanSteps

\* The callback is given an entry.
LEMMA ScanShown ==
  ASSUME scan \in ScanState, NEW e \in Key \X TID,
         scan' = [scan EXCEPT !.pc = "callback", !.seen = Append(@, e)]
  PROVE  /\ scan' \in ScanState
         /\ scan'.pc = "callback" /\ scan'.lo = scan.lo /\ scan'.hi = scan.hi
         /\ scan'.pid = scan.pid /\ scan'.first = scan.first /\ scan'.i = scan.i
         /\ scan'.next = scan.next /\ scan'.seen = Append(scan.seen, e) /\ scan'.quiet = scan.quiet
<1>1. /\ scan.pc \in ScanSteps /\ scan.lo \in Int /\ scan.hi \in Int /\ scan.pid \in Nat
      /\ scan.first \in BOOLEAN /\ scan.i \in Nat /\ scan.next \in Nat
      /\ scan.seen \in Seq(Key \X TID) /\ scan.quiet \in BOOLEAN
      /\ scan = scanState(scan.pc, scan.lo, scan.hi, scan.pid, scan.first, scan.i, scan.next,
                          scan.seen, scan.quiet)
  BY ScanParts
<1>2. scan' = scanState("callback", scan.lo, scan.hi, scan.pid, scan.first, scan.i, scan.next, Append(scan.seen, e), scan.quiet)
  BY <1>1, Zenon DEF scanState
<1>3. Append(scan.seen, e) \in Seq(Key \X TID)
  BY <1>1, AppendProperties
<1> QED
  BY <1>1, <1>2, <1>3 DEF scanState, ScanState, ScanSteps

\* The Scan is over.
LEMMA ScanEnded ==
  ASSUME scan \in ScanState, scan' = [scan EXCEPT !.pc = "done"]
  PROVE  /\ scan' \in ScanState
         /\ scan'.pc = "done" /\ scan'.lo = scan.lo /\ scan'.hi = scan.hi
         /\ scan'.pid = scan.pid /\ scan'.first = scan.first /\ scan'.i = scan.i
         /\ scan'.next = scan.next /\ scan'.seen = scan.seen /\ scan'.quiet = scan.quiet
<1>1. /\ scan.pc \in ScanSteps /\ scan.lo \in Int /\ scan.hi \in Int /\ scan.pid \in Nat
      /\ scan.first \in BOOLEAN /\ scan.i \in Nat /\ scan.next \in Nat
      /\ scan.seen \in Seq(Key \X TID) /\ scan.quiet \in BOOLEAN
      /\ scan = scanState(scan.pc, scan.lo, scan.hi, scan.pid, scan.first, scan.i, scan.next,
                          scan.seen, scan.quiet)
  BY ScanParts
<1>2. scan' = scanState("done", scan.lo, scan.hi, scan.pid, scan.first, scan.i, scan.next, scan.seen, scan.quiet)
  BY <1>1, Zenon DEF scanState
<1> QED
  BY <1>1, <1>2 DEF scanState, ScanState, ScanSteps

\* The Scan goes on to another page.
LEMMA ScanAdvanced ==
  ASSUME scan \in ScanState, NEW p \in Nat, scan' = [scan EXCEPT !.pc = "leaf", !.pid = p]
  PROVE  /\ scan' \in ScanState
         /\ scan'.pc = "leaf" /\ scan'.lo = scan.lo /\ scan'.hi = scan.hi
         /\ scan'.pid = p /\ scan'.first = scan.first /\ scan'.i = scan.i
         /\ scan'.next = scan.next /\ scan'.seen = scan.seen /\ scan'.quiet = scan.quiet
<1>1. /\ scan.pc \in ScanSteps /\ scan.lo \in Int /\ scan.hi \in Int /\ scan.pid \in Nat
      /\ scan.first \in BOOLEAN /\ scan.i \in Nat /\ scan.next \in Nat
      /\ scan.seen \in Seq(Key \X TID) /\ scan.quiet \in BOOLEAN
      /\ scan = scanState(scan.pc, scan.lo, scan.hi, scan.pid, scan.first, scan.i, scan.next,
                          scan.seen, scan.quiet)
  BY ScanParts
<1>2. scan' = scanState("leaf", scan.lo, scan.hi, p, scan.first, scan.i, scan.next, scan.seen, scan.quiet)
  BY <1>1, Zenon DEF scanState
<1> QED
  BY <1>1, <1>2 DEF scanState, ScanState, ScanSteps

\* The Scan goes on to the next entry.
LEMMA ScanResumed ==
  ASSUME scan \in ScanState, scan' = [scan EXCEPT !.pc = "entry", !.i = @ + 1]
  PROVE  /\ scan' \in ScanState
         /\ scan'.pc = "entry" /\ scan'.lo = scan.lo /\ scan'.hi = scan.hi
         /\ scan'.pid = scan.pid /\ scan'.first = scan.first /\ scan'.i = scan.i + 1
         /\ scan'.next = scan.next /\ scan'.seen = scan.seen /\ scan'.quiet = scan.quiet
<1>1. /\ scan.pc \in ScanSteps /\ scan.lo \in Int /\ scan.hi \in Int /\ scan.pid \in Nat
      /\ scan.first \in BOOLEAN /\ scan.i \in Nat /\ scan.next \in Nat
      /\ scan.seen \in Seq(Key \X TID) /\ scan.quiet \in BOOLEAN
      /\ scan = scanState(scan.pc, scan.lo, scan.hi, scan.pid, scan.first, scan.i, scan.next,
                          scan.seen, scan.quiet)
  BY ScanParts
<1>2. scan' = scanState("entry", scan.lo, scan.hi, scan.pid, scan.first, scan.i + 1, scan.next, scan.seen, scan.quiet)
  BY <1>1, Zenon DEF scanState
<1> QED
  BY <1>1, <1>2 DEF scanState, ScanState, ScanSteps

-----------------------------------------------------------------------------
(* Scan.                                                                   *)

\* Where a scan stands.
LEMMA ScanFacts ==
  ASSUME NEW rank, Ctl(rank), scan.pc \in {"leaf", "entry", "callback"}
  PROVE  /\ scan \in ScanState /\ scan.pid \in DOMAIN nodes /\ scan.pid \in PID
         /\ nodes[scan.pid] \in LeafNode /\ keyCount(nodes[scan.pid]) \in Nat
         /\ scan.i \in Nat /\ scan.next \in Nat /\ opened
         /\ nodes[scan.pid].next \in Nat
         /\ nodes[scan.pid].next # 0 =>
              nodes[scan.pid].next \in DOMAIN nodes /\ rank[nodes[scan.pid].next] = 0
<1>1. scan \in ScanState /\ scan.pid \in DOMAIN nodes /\ rank[scan.pid] = 0 /\ opened
  BY DEF Ctl, Scans
<1>2. scan.pid \in PID /\ nodes[scan.pid] \in LeafNode /\ DOMAIN rank = DOMAIN nodes
  BY <1>1, PageFacts DEF Ctl
<1>3. scan.i \in Nat /\ scan.next \in Nat
  BY <1>1, ScanParts
<1>4. keyCount(nodes[scan.pid]) \in Nat
  BY <1>1, PageKeys DEF Ctl
<1>5. Fits(rank, scan.pid, nodes[scan.pid])
  BY <1>1 DEF Ctl, Tree
<1> QED
  BY <1>1, <1>2, <1>3, <1>4, <1>5, LeafParts DEF Fits

\* A step of a scan leaves the call and its pages alone.
LEMMA ScanKeeps ==
  ASSUME Library, NEW rank, Ctl(rank), call = NoCall, UNCHANGED <<treeVars, call, stack, ghosts>>
  PROVE  /\ Tree(rank)' /\ File' /\ Calls(rank)' /\ changed = {} /\ Splitting' = {}
         /\ \A p \in PID : Held(p) = InScan(scan, p) /\ Held(p)' = InScan(scan', p)
<1>1. stack = <<>> /\ call.pc = "idle"
  BY Quiescent
<1>2. Calls(rank)' /\ Splitting' = {}
  BY <1>1, CallsIdle
<1>3. changed = {}
  BY <1>1 DEF Ctl, Pool, Splitting
<1>4. ASSUME NEW p \in PID PROVE Held(p) = InScan(scan, p) /\ Held(p)' = InScan(scan', p)
  <2>1. /\ OnPath(stack, p) = 0 /\ InLeaf(call, p) = 0 /\ InScan(scan, p) \in Nat
        /\ InScan(scan', p) \in Nat
    BY <1>1, HeldParts DEF InLeaf
  <2>2. Held(p) = OnPath(stack, p) + InLeaf(call, p) + InScan(scan, p)
    BY HeldParts
  <2>3. Held(p)' = OnPath(stack, p) + InLeaf(call, p) + InScan(scan', p)
    BY DEF Held, OnPath, InLeaf, InScan
  <2> QED
    BY <2>1, <2>2, <2>3
<1> QED
  BY <1>2, <1>3, <1>4 DEF Ctl, Tree, File, treeVars

\* The pins of the scanned leaf: taken, given back or kept.
LEMMA ScanPool ==
  ASSUME Library, NEW rank, Ctl(rank), call = NoCall, UNCHANGED <<treeVars, call, stack, ghosts>>,
         changed' = changed, NEW x \in PID,
         \/ pins' = pins /\ \A p \in PID : InScan(scan', p) = InScan(scan, p)
         \/ pins' = Pinned(x) /\ \A p \in PID : InScan(scan', p) = InScan(scan, p) + Once(x, p)
         \/ /\ pins' = [pins EXCEPT ![x] = @ - 1]
            /\ \A p \in PID : InScan(scan, p) = InScan(scan', p) + Once(x, p)
  PROVE  Pool'
<1>1. /\ changed = {} /\ pins \in [PID -> Nat] /\ PinsBalanced
      /\ \A p \in PID : Held(p) = InScan(scan, p) /\ Held(p)' = InScan(scan', p)
      /\ \A p \in PID : InScan(scan', p) \in Nat
  BY ScanKeeps, HeldParts DEF Ctl, Pool
<1>2. CASE pins' = pins /\ \A p \in PID : InScan(scan', p) = InScan(scan, p)
  <2>1. \A p \in PID : Held(p)' = Held(p)
    BY <1>1, <1>2
  <2> QED
    BY <1>1, <1>2, <2>1, PinsKept DEF Pool
<1>3. CASE pins' = Pinned(x) /\ \A p \in PID : InScan(scan', p) = InScan(scan, p) + Once(x, p)
  <2>1. \A p \in PID : Held(p)' = Held(p) + Once(x, p)
    BY <1>1, <1>3
  <2> QED
    BY <1>1, <1>3, <2>1, PinsTaken DEF Pool
<1>4. CASE /\ pins' = [pins EXCEPT ![x] = @ - 1]
           /\ \A p \in PID : InScan(scan, p) = InScan(scan', p) + Once(x, p)
  <2>1. \A p \in PID : Held(p)' \in Nat /\ Held(p) = Held(p)' + Once(x, p)
    BY <1>1, <1>4
  <2> QED
    BY <1>1, <1>4, <2>1, PinsGiven DEF Pool
<1> QED
  BY <1>2, <1>3, <1>4

\* Scan begins at the root.
LEMMA ScanCtl ==
  ASSUME Library, NEW rank, Ctl(rank), NEW r \in Bounds, Scan(r[1], r[2])
  PROVE  Ctl(rank)'
<1>1. /\ opened /\ call = NoCall /\ scan = NoScan
      /\ UNCHANGED <<treeVars, call, stack, pool, ghosts>>
  BY DEF Scan
<1>2. Tree(rank)' /\ File' /\ Calls(rank)'
  BY <1>1, ScanKeeps
<1>3. scan.pc = "off" /\ 0 \in PID
  BY <1>1, BoundsAssumption DEF NoScan, PID
<1>4. CASE Fault /\ UNCHANGED scan
  <2>1. Scans(rank)'
    BY <1>1, <1>4 DEF Ctl, Scans, treeVars
  <2>2. Pool'
    BY <1>1, <1>3, <1>4, ScanPool DEF pool
  <2>3. Ghosts'
    BY <1>1, <1>4, BoundsAssumption DEF Ctl, Ghosts, ghosts, Fault
  <2> QED
    BY <1>2, <2>1, <2>2, <2>3 DEF Ctl
<1>5. CASE /\ scan' = [NoScan EXCEPT !.pc = "leaf", !.lo = r[1], !.hi = r[2],
                                     !.pid = findLeaf(r[1])]
           /\ UNCHANGED faults
  <2> DEFINE leaf == findLeaf(r[1])
  <2>1. leaf \in DOMAIN nodes /\ rank[leaf] = 0 /\ leaf \in Nat
    <3>1. meta \in DOMAIN nodes
      BY <1>1 DEF Ctl, File
    <3>2. leaf \in DOMAIN nodes /\ rank[leaf] = 0
      BY <3>1, DescentLeaf DEF findLeaf, root, Leaves, Ctl
    <3> QED
      BY <3>2, PageFacts DEF Ctl
  <2> HIDE DEF leaf
  <2>2. r[1] \in Int /\ r[2] \in Int
    <3>1. r \in Int \X Int
      BY KeyAssumption, Zenon
    <3> QED
      BY <3>1
  <2>3. scan' = scanState("leaf", r[1], r[2], leaf, NoScan.first, NoScan.i, NoScan.next,
                          NoScan.seen, NoScan.quiet)
    <3>1. scan' = [NoScan EXCEPT !.pc = "leaf", !.lo = r[1], !.hi = r[2], !.pid = leaf]
      BY <1>5, Zenon DEF leaf
    <3>2. \A d, x, y, z : d = [NoScan EXCEPT !.pc = "leaf", !.lo = x, !.hi = y, !.pid = z] =>
            d = scanState("leaf", x, y, z, NoScan.first, NoScan.i, NoScan.next, NoScan.seen,
                          NoScan.quiet)
      BY NoScanParts, Zenon
    <3> QED
      BY <3>1, <3>2, Zenon
  <2>4. /\ NoScan.first \in BOOLEAN /\ NoScan.i \in Nat /\ NoScan.next \in Nat
        /\ NoScan.seen \in Seq(Key \X TID) /\ NoScan.quiet \in BOOLEAN
    BY NoScanParts, ScanParts
  <2>5. scan' \in ScanState /\ scan'.pc = "leaf" /\ scan'.pid = leaf
    BY <2>1, <2>2, <2>3, <2>4 DEF scanState, ScanState, ScanSteps
  <2>6. Scans(rank)'
    BY <1>1, <2>1, <2>5 DEF Scans, treeVars
  <2>7. Pool'
    <3>1. \A p \in PID : InScan(scan', p) = InScan(scan, p)
      BY <1>3, <2>5 DEF InScan
    <3> QED
      BY <1>1, <1>3, <3>1, ScanPool DEF pool
  <2> QED
    BY <1>1, <1>2, <1>5, <2>6, <2>7 DEF Ctl, Ghosts, ghosts
<1> QED
  BY <1>4, <1>5 DEF Scan

\* Scan: a page is fetched, an internal node left for its child.
LEMMA ScanFetchCtl ==
  ASSUME Library, NEW rank, Ctl(rank), ScanFetch
  PROVE  Ctl(rank)'
<1> DEFINE n == nodes[scan.pid]
           j == IF scan.first THEN search(n, scan.lo) ELSE 0
<1>1. /\ scan.pc = "leaf" /\ pins' = Pinned(scan.pid)
      /\ scan' = [scan EXCEPT !.pc = "entry", !.first = FALSE, !.next = n.next, !.i = j]
      /\ UNCHANGED <<treeVars, call, stack, changed, ghosts, faults>>
  BY Zenon DEF ScanFetch
<1>2. call = NoCall
  BY <1>1 DEF Ctl, Scans
<1>3. /\ scan \in ScanState /\ scan.pid \in DOMAIN nodes /\ scan.pid \in PID /\ opened
      /\ n.next \in Nat /\ (n.next # 0 => n.next \in DOMAIN nodes /\ rank[n.next] = 0)
  BY <1>1, ScanFacts
<1>4. j \in Nat
  <2>1. search(n, scan.lo) \in Nat
    BY <1>3, PageKeys, SearchRange DEF Ctl
  <2> QED
    BY <2>1
<1>5. rank[scan.pid] = 0
  BY <1>1 DEF Ctl, Scans
<1> HIDE DEF n, j
<1>6. /\ scan' \in ScanState /\ scan'.pc = "entry" /\ scan'.pid = scan.pid /\ scan'.next = n.next
  BY <1>1, <1>3, <1>4, ScanFetched
<1>7. Scans(rank)'
  BY <1>1, <1>2, <1>3, <1>5, <1>6 DEF Scans, treeVars
<1>8. Pool'
  <2>1. \A p \in PID : InScan(scan', p) = InScan(scan, p) + Once(scan.pid, p)
    BY <1>1, <1>6 DEF InScan, Once
  <2> QED
    BY <1>1, <1>2, <1>3, <2>1, ScanPool
<1> QED
  BY <1>1, <1>2, <1>7, <1>8, ScanKeeps DEF Ctl, Ghosts, ghosts

\* A scan that is over.
LEMMA ScanOver ==
  ASSUME NEW rank, scan' = NoScan
  PROVE  Scans(rank)' /\ \A p : InScan(scan', p) = 0
  BY NoScanParts DEF Scans, InScan

\* Scan: a FetchPage fails.
LEMMA ScanFetchFailsCtl ==
  ASSUME Library, NEW rank, Ctl(rank), ScanFetchFails
  PROVE  Ctl(rank)'
<1>1. /\ scan.pc = "leaf" /\ Fault /\ scan' = NoScan
      /\ UNCHANGED <<treeVars, call, stack, pool, ghosts>>
  BY DEF ScanFetchFails
<1>2. call = NoCall
  BY <1>1 DEF Ctl, Scans
<1>3. Pool'
  <2>1. \A p \in PID : InScan(scan', p) = InScan(scan, p)
    BY <1>1, ScanOver DEF InScan
  <2> QED
    BY <1>1, <1>2, <2>1, ScanFacts, ScanPool DEF pool
<1>4. Ghosts'
  BY <1>1, BoundsAssumption DEF Ctl, Ghosts, ghosts, Fault
<1> QED
  BY <1>1, <1>2, <1>3, <1>4, ScanKeeps, ScanOver DEF Ctl

\* Scan returns.
LEMMA ScanReturnsCtl ==
  ASSUME Library, NEW rank, Ctl(rank), ScanReturns
  PROVE  Ctl(rank)'
<1>1. /\ scan.pc = "done" /\ scan' = NoScan
      /\ UNCHANGED <<treeVars, call, stack, pool, ghosts, faults>>
  BY DEF ScanReturns
<1>2. call = NoCall /\ 0 \in PID
  BY <1>1, BoundsAssumption DEF Ctl, Scans, PID
<1>3. Pool'
  <2>1. \A p \in PID : InScan(scan', p) = InScan(scan, p)
    BY <1>1, ScanOver DEF InScan
  <2> QED
    BY <1>1, <1>2, <2>1, ScanPool DEF pool
<1> QED
  BY <1>1, <1>2, <1>3, ScanKeeps, ScanOver DEF Ctl, Ghosts, ghosts

\* Scan: the callback returns, with or without an error.
LEMMA CallbackReturnsCtl ==
  ASSUME Library, NEW rank, Ctl(rank), CallbackReturns
  PROVE  Ctl(rank)'
<1>1. scan.pc = "callback" /\ call = NoCall /\ UNCHANGED <<treeVars, call, stack, ghosts, faults>>
  BY DEF CallbackReturns
<1>2. scan \in ScanState /\ scan.pid \in PID
  BY <1>1, ScanFacts
<1>3. CASE scan' = [scan EXCEPT !.pc = "entry", !.i = @ + 1] /\ UNCHANGED pool
  <2>1. /\ scan' \in ScanState /\ scan'.pc = "entry" /\ scan'.pid = scan.pid
        /\ scan'.next = scan.next
    BY <1>2, <1>3, ScanResumed
  <2>2. Scans(rank)'
    BY <1>1, <2>1 DEF Ctl, Scans, treeVars
  <2>3. Pool'
    <3>1. \A p \in PID : InScan(scan', p) = InScan(scan, p)
      BY <1>1, <2>1 DEF InScan
    <3> QED
      BY <1>1, <1>2, <1>3, <3>1, ScanPool DEF pool
  <2> QED
    BY <1>1, <2>2, <2>3, ScanKeeps DEF Ctl, Ghosts, ghosts
<1>4. CASE scan' = NoScan /\ Unpin(scan.pid, FALSE, changed)
  <2>1. Pool'
    <3>1. \A p \in PID : InScan(scan, p) = InScan(scan', p) + Once(scan.pid, p)
      BY <1>1, <1>4, ScanOver DEF InScan, Once
    <3>2. pins' = [pins EXCEPT ![scan.pid] = @ - 1] /\ changed' = changed
      BY <1>4 DEF Unpin
    <3> QED
      BY <1>1, <1>2, <3>1, <3>2, ScanPool
  <2> QED
    BY <1>1, <1>4, <2>1, ScanKeeps, ScanOver DEF Ctl, Ghosts, ghosts
<1> QED
  BY <1>3, <1>4 DEF CallbackReturns

\* Scan: the next entry is shown, or the leaf is left.
LEMMA ScanEntryCtl ==
  ASSUME Library, NEW rank, Ctl(rank), ScanEntry
  PROVE  Ctl(rank)'
<1> DEFINE n == nodes[scan.pid]
           more == scan.i < keyCount(n)
           stop == more /\ Beyond(keyAt(n, scan.i))
           e == <<keyAt(n, scan.i), tidAt(n, scan.i)>>
<1>1. scan.pc = "entry" /\ UNCHANGED <<treeVars, call, stack, ghosts, faults>>
  BY DEF ScanEntry
<1>2. call = NoCall /\ Scans(rank)
  BY <1>1 DEF Ctl, Scans
<1>3. /\ scan \in ScanState /\ scan.pid \in PID /\ scan.i \in Nat /\ scan.next \in Nat /\ opened
      /\ n \in LeafNode /\ keyCount(n) \in Nat
  BY <1>1, ScanFacts
<1>4. ASSUME more, ~stop, UNCHANGED pool,
             scan' = [scan EXCEPT !.pc = "callback", !.seen = Append(@, e)]
      PROVE  Scans(rank)' /\ Pool'
  <2>1. e \in Key \X TID
    <3>1. /\ n.keys \in Seq(Key) /\ n.tids \in Seq(TID) /\ Len(n.tids) = keyCount(n)
      BY <1>3, LeafParts DEF keyCount
    <3>2. scan.i + 1 \in 1 .. Len(n.keys) /\ scan.i + 1 \in 1 .. Len(n.tids)
      BY <1>3, <1>4, <3>1 DEF keyCount
    <3>3. n.keys[scan.i + 1] \in Key /\ n.tids[scan.i + 1] \in TID
      BY <3>1, <3>2, ElementOfSeq
    <3> QED
      BY <3>3 DEF keyAt, tidAt
  <2> HIDE DEF e
  <2>2. /\ scan' \in ScanState /\ scan'.pc = "callback" /\ scan'.pid = scan.pid
        /\ scan'.next = scan.next
    BY <1>3, <1>4, <2>1, ScanShown
  <2>3. Scans(rank)'
    BY <1>1, <1>2, <2>2 DEF Scans, treeVars
  <2>4. \A p \in PID : InScan(scan', p) = InScan(scan, p)
    BY <1>1, <2>2 DEF InScan
  <2> QED
    BY <1>1, <1>2, <1>3, <1>4, <2>3, <2>4, ScanPool DEF pool
<1>5. ASSUME Unpin(scan.pid, FALSE, changed),
             scan' = IF stop \/ scan.next = invalidPID THEN [scan EXCEPT !.pc = "done"]
                     ELSE [scan EXCEPT !.pc = "leaf", !.pid = scan.next]
      PROVE  Scans(rank)' /\ Pool'
  <2> HIDE DEF stop, n, more, e
  <2>1. Scans(rank)' /\ scan'.pc \in {"done", "leaf"}
    <3>1. CASE scan' = [scan EXCEPT !.pc = "done"]
      <4>1. scan' \in ScanState /\ scan'.pc = "done"
        BY <1>3, <3>1, ScanEnded
      <4> QED
        BY <1>1, <1>2, <4>1 DEF Scans, treeVars
    <3>2. CASE scan' = [scan EXCEPT !.pc = "leaf", !.pid = scan.next] /\ scan.next # 0
      <4>1. scan' \in ScanState /\ scan'.pc = "leaf" /\ scan'.pid = scan.next
        BY <1>3, <3>2, ScanAdvanced
      <4> QED
        BY <1>1, <1>2, <3>2, <4>1 DEF Scans, treeVars
    <3> QED
      BY <1>5, <3>1, <3>2 DEF invalidPID
  <2>2. \A p \in PID : InScan(scan, p) = InScan(scan', p) + Once(scan.pid, p)
    BY <1>1, <2>1 DEF InScan, Once
  <2>3. pins' = [pins EXCEPT ![scan.pid] = @ - 1] /\ changed' = changed
    BY <1>5 DEF Unpin
  <2> QED
    BY <1>1, <1>2, <1>3, <2>1, <2>2, <2>3, ScanPool
<1>6. Scans(rank)' /\ Pool'
  <2>1. IF more /\ ~stop
        THEN /\ scan' = [scan EXCEPT !.pc = "callback", !.seen = Append(@, e)]
             /\ UNCHANGED pool
        ELSE /\ Unpin(scan.pid, FALSE, changed)
             /\ scan' = IF stop \/ scan.next = invalidPID THEN [scan EXCEPT !.pc = "done"]
                        ELSE [scan EXCEPT !.pc = "leaf", !.pid = scan.next]
    BY Zenon DEF ScanEntry
  <2> HIDE DEF more, stop, e, n
  <2> QED
    BY <1>4, <1>5, <2>1, Zenon
<1> QED
  BY <1>1, <1>2, <1>6, ScanKeeps DEF Ctl, Ghosts, ghosts

-----------------------------------------------------------------------------
(* The control invariant holds in every state.                             *)

\* NewBTree on an empty file: no page, no call.
LEMMA InitControl ==
  ASSUME Library
  PROVE  Init => Control
<1> SUFFICES ASSUME Init PROVE Control
  OBVIOUS
<1> DEFINE R == [p \in {} |-> 0]
<1>1. /\ meta = Absent /\ nodes = <<>> /\ opened = FALSE /\ call = NoCall /\ stack = <<>>
      /\ scan = NoScan /\ pins = [p \in PID |-> 0] /\ changed = {} /\ acked = <<>>
      /\ damaged = FALSE /\ faults = 0
  BY DEF Init
<1>2. nodes \in Seq(LeafNode \cup InternalNode) /\ Len(nodes) = 0 /\ DOMAIN nodes = {}
  BY <1>1, EmptySeq
<1>3. Tree(R) /\ File
  <2>1. R \in [DOMAIN nodes -> 0 .. Len(nodes)]
    BY <1>2
  <2> HIDE DEF R
  <2>2. Tree(R)
    BY <1>2, <2>1, BoundsAssumption DEF Tree
  <2>3. File
    BY <1>1 DEF File
  <2> QED
    BY <2>2, <2>3
<1> HIDE DEF R
<1>4. NoCall \in CallState /\ call.pc = "idle" /\ <<>> \in Seq(Ancestor)
  BY <1>1, CallParts
<1>5. Path(R)
  BY <1>1 DEF Path
<1>6. Calls(R)
  BY <1>1, <1>4, <1>5 DEF Calls, Pending
<1>7. Scans(R) /\ scan.pc = "off"
  BY <1>1, NoScanParts DEF Scans
<1>8. Pool
  <2>1. ASSUME NEW p \in PID PROVE Held(p) = 0
    <3>1. OnPath(stack, p) = 0 /\ InLeaf(call, p) = 0 /\ InScan(scan, p) = 0
      BY <1>1, <1>4, <1>7, HeldParts DEF InLeaf, InScan
    <3> QED
      BY <3>1, HeldParts
  <2> QED
    BY <1>1, <2>1 DEF Pool, PinsBalanced
<1>9. Ghosts
  <2>1. DOMAIN acked = {}
    BY <1>1, <1>2
  <2>2. damaged \in BOOLEAN
    BY Zenon DEF Init
  <2>3. faults = 0
    BY DEF Init
  <2>4. faults \in 0 .. MaxFaults
    BY <2>3, BoundsAssumption
  <2> QED
    BY <2>1, <2>2, <2>4 DEF Ghosts
<1>10. Ctl(R)
  BY <1>3, <1>6, <1>7, <1>8, <1>9 DEF Ctl
<1> QED
  BY <1>10 DEF Control

\* Every step keeps it.
LEMMA NextControl ==
  ASSUME Library
  PROVE  Control /\ [Next]_vars => Control'
<1> SUFFICES ASSUME NEW rank, Ctl(rank), [Next]_vars PROVE \E R : Ctl(R)'
  BY DEF Control
<1>1. CASE UNCHANGED vars
  <2>1. Tree(rank)' /\ File' /\ Ghosts'
    BY <1>1 DEF vars, Ctl, Tree, File, Ghosts
  <2>2. Path(rank)' = Path(rank) /\ Pending' = Pending /\ Top' = Top
    BY <1>1 DEF vars, Path, Pending, Top, root, keyCount
  <2>3. Calls(rank)'
    BY <1>1, <2>2 DEF vars, Ctl, Calls, Parent, Node, root, keyCount
  <2>4. Scans(rank)'
    BY <1>1 DEF vars, Ctl, Scans
  <2>5. Pool'
    BY <1>1, <2>2 DEF vars, Ctl, Pool, PinsBalanced, Held, Splitting
  <2>6. Ctl(rank)'
    BY <2>1, <2>3, <2>4, <2>5 DEF Ctl
  <2> QED
    BY <2>6
<1>2. CASE Bootstrap
  BY <1>2, BootstrapCtl
<1>3. CASE OpenExisting \/ Close
  BY <1>3, OpenExistingCtl, CloseCtl
<1>4. CASE \E e \in Entry : Insert(e[1], e[2])
  BY <1>4, InsertCtl
<1>5. CASE InsertInto
  BY <1>5, FetchFailsCtl, VisitInternalCtl, LeafDuplicateCtl, LeafInsertCtl, splitLeafNodeCtl,
     splitLeafFailsCtl DEF InsertInto
<1>6. CASE Unwind
  BY <1>6, PassUpCtl, AbsorbCtl, splitInternalNodeCtl, splitInternalFailsCtl DEF Unwind
<1>7. CASE AtRoot
  BY <1>7, InsertErrorsCtl, InsertDoneCtl, NewRootCtl, SetRootCtl, RootFailsCtl DEF AtRoot
<1>8. CASE Overrun
  BY <1>8, OverrunCtl
<1>9. CASE Halted
  BY <1>1, <1>9 DEF Halted
<1>10. CASE \E r \in Bounds : Scan(r[1], r[2])
  BY <1>10, ScanCtl
<1>11. CASE Scanning
  BY <1>11, ScanFetchCtl, ScanFetchFailsCtl, ScanEntryCtl, CallbackReturnsCtl, ScanReturnsCtl
     DEF Scanning
<1> QED
  BY <1>1, <1>2, <1>3, <1>4, <1>5, <1>6, <1>7, <1>8, <1>9, <1>10, <1>11 DEF Next

-----------------------------------------------------------------------------
(* What it says.                                                           *)

\* Every page, call, scan and pin count has its type.
LEMMA ControlTypeOK ==
  ASSUME Library
  PROVE  Control => TypeOK
<1> SUFFICES ASSUME NEW rank, Ctl(rank) PROVE TypeOK
  BY DEF Control
<1>1. /\ Len(nodes) \in Nat /\ DOMAIN nodes = 1 .. Len(nodes) /\ DOMAIN rank = DOMAIN nodes
      /\ DOMAIN nodes \subseteq PID \ {0} /\ Len(nodes) <= MaxPID
  BY PageFacts DEF Ctl, Tree
<1>2. meta \in {Absent, BadMagic} \cup (PID \ {0}) /\ opened \in BOOLEAN
  BY <1>1 DEF Ctl, File
<1>3. ASSUME NEW p \in DOMAIN nodes
      PROVE  LET n == nodes[p] IN
             /\ n.keys \in Seq(Key) /\ n.next \in PID
             /\ IF n.leaf THEN n.tids \in Seq(TID) /\ Len(n.tids) = keyCount(n)
                          ELSE n.kids \in Seq(DOMAIN nodes) /\ Len(n.kids) = keyCount(n) + 1
  <2> DEFINE n == nodes[p]
  <2>1. Fits(rank, p, n) /\ 0 \in PID
    BY BoundsAssumption DEF Ctl, Tree, PID
  <2>2. CASE n.leaf
    <3>1. n \in LeafNode
      BY <2>2, PageFacts DEF Ctl
    <3>2. /\ n.keys \in Seq(Key) /\ n.tids \in Seq(TID) /\ Len(n.tids) = keyCount(n)
      BY <3>1, LeafParts DEF keyCount
    <3>3. n.next \in PID
      BY <1>1, <2>1, <3>1 DEF Fits
    <3> QED
      BY <2>2, <3>2, <3>3
  <2>3. CASE ~n.leaf
    <3>1. n \in InternalNode
      BY <2>3, PageFacts DEF Ctl
    <3>2. /\ n.keys \in Seq(Key) /\ n.kids \in Seq(Nat) /\ n.next = 0
          /\ Len(n.kids) = keyCount(n) + 1
      BY <3>1, InternalParts DEF keyCount
    <3>3. \A i \in 1 .. Len(n.kids) : n.kids[i] \in DOMAIN nodes
      BY <1>1, <2>1, <3>1, <3>2, LenProperties DEF Fits
    <3> HIDE DEF n
    <3>4. n.kids \in Seq(DOMAIN nodes)
      <4> DEFINE s == n.kids
                 D == DOMAIN nodes
      <4>1. s \in [1 .. Len(s) -> Nat] /\ Len(s) \in Nat
        BY <3>2, LenProperties
      <4>2. \A i \in 1 .. Len(s) : s[i] \in D
        BY <3>3
      <4> HIDE DEF s, D
      <4>3. s = [i \in 1 .. Len(s) |-> s[i]]
        BY <4>1
      <4>4. s \in Seq(D)
        BY <4>1, <4>2, <4>3
      <4> QED
        BY <4>4 DEF s, D
    <3> QED
      BY <2>1, <2>3, <3>2, <3>4 DEF n
  <2> QED
    BY <2>2, <2>3
<1>4. call.pc \in Steps /\ scan.pc \in ScanSteps
  BY CallParts, ScanParts DEF Ctl, Calls, Scans
<1>5. pins \in [PID -> Nat] /\ changed \subseteq PID
  <2>1. Splitting \subseteq PID
    <3>1. CASE call.pc = "splitLeaf"
      BY <3>1, NodeFacts DEF Splitting
    <3>2. CASE call.pc = "splitInternal"
      <4>1. stack # <<>>
        BY <3>2 DEF Ctl, Calls
      <4> QED
        BY <1>1, <3>2, <4>1, TopFacts DEF Splitting
    <3> QED
      BY <3>1, <3>2 DEF Splitting
  <2> QED
    BY <2>1 DEF Ctl, Pool
<1>6. Len(nodes) <= MaxPID /\ DOMAIN acked \subseteq Key /\ faults \in 0 .. MaxFaults
  BY <1>1 DEF Ctl, Ghosts
<1> QED
  BY <1>2, <1>3, <1>4, <1>5, <1>6 DEF TypeOK, Steps, ScanSteps

\* A page being changed by a split is on the path, or is the leaf that is held.
LEMMA SplittingHeld ==
  ASSUME Library, NEW rank, Ctl(rank), NEW p \in Splitting
  PROVE  p \in PID /\ Held(p) > 0
<1>1. /\ stack \in Seq(Ancestor) /\ OnPath(stack, p) \in Nat
      /\ InLeaf(call, p) \in Nat /\ InScan(scan, p) \in Nat
      /\ Held(p) = OnPath(stack, p) + InLeaf(call, p) + InScan(scan, p)
  BY HeldParts DEF Ctl, Calls
<1>2. CASE call.pc = "splitLeaf"
  <2>1. p = call.pid /\ call.pid \in PID
    BY <1>2, NodeFacts DEF Splitting
  <2>2. InLeaf(call, p) = 1
    BY <1>2, <2>1 DEF InLeaf
  <2> QED
    BY <1>1, <2>1, <2>2
<1>3. CASE call.pc = "splitInternal"
  <2>1. stack # <<>> /\ p = Top.pid
    BY <1>3 DEF Ctl, Calls, Splitting
  <2>2. p \in PID
    BY <1>3, <2>1, TopFacts, PageFacts DEF Ctl
  <2> DEFINE r == SubSeq(stack, 1, Len(stack) - 1)
  <2>3. r \in Seq(Ancestor) /\ OnPath(stack, p) = OnPath(r, p) + Once(Top.pid, p)
    BY <1>1, <2>1, Popped DEF Top
  <2> HIDE DEF r
  <2>4. OnPath(r, p) \in Nat /\ Once(Top.pid, p) = 1
    BY <2>1, <2>3, HeldParts DEF Once
  <2> QED
    BY <1>1, <2>2, <2>3, <2>4
<1> QED
  BY <1>2, <1>3 DEF Splitting

\* The control invariant contains EveryChangeReported.
LEMMA ControlReported ==
  ASSUME Library
  PROVE  Control => EveryChangeReported
<1> SUFFICES ASSUME NEW rank, Ctl(rank), NEW p \in changed PROVE pins[p] > 0
  BY DEF Control, EveryChangeReported
<1>1. p \in PID /\ Held(p) > 0
  BY SplittingHeld DEF Ctl, Pool
<1> QED
  BY <1>1 DEF Ctl, Pool, PinsBalanced

\* A set of at most n elements.
Small(S, n) == IsFiniteSet(S) /\ Cardinality(S) \in Nat /\ Cardinality(S) <= n

\* One more pinned page.
LEMMA Adds ==
  ASSUME Library, NEW S, NEW n \in Nat, Small(S, n), NEW y
  PROVE  Small(S \cup {y}, n + 1)
<1>1. /\ IsFiniteSet(S) /\ Cardinality(S) \in Nat /\ Cardinality(S) <= n
  BY DEF Small
<1>2. CASE y \in S
  <2>1. S \cup {y} = S
    BY <1>2
  <2> QED
    BY <1>1, <2>1 DEF Small
<1>3. CASE y \notin S
  <2>1. IsFiniteSet(S \cup {y}) /\ Cardinality(S \cup {y}) = Cardinality(S) + 1
    BY <1>1, <1>3, CardAdd
  <2> QED
    BY <1>1, <2>1 DEF Small
<1> QED
  BY <1>2, <1>3

\* At most one frame for each page of the path, and one for each leaf held.
LEMMA PinnedPages ==
  ASSUME Library, NEW rank, Ctl(rank), NEW X, NEW x,
         X = {p \in PID : pins[p] > 0} \cup {x}
  PROVE  /\ Cardinality(X) \in Nat
         /\ Cardinality(X) <= Len(stack) + 1 + (IF call.pc = "splitLeaf" THEN 1 ELSE 0)
                                           + (IF scan.pc \in {"entry", "callback"} THEN 1 ELSE 0)
<1> DEFINE f == [d \in DOMAIN stack |-> stack[d].pid]
           A == {stack[d].pid : d \in DOMAIN stack}
           B == IF call.pc = "splitLeaf" THEN A \cup {call.pid} ELSE A
           C == IF scan.pc \in {"entry", "callback"} THEN B \cup {scan.pid} ELSE B
           D == C \cup {x}
<1>1. /\ stack \in Seq(Ancestor) /\ Len(stack) \in Nat /\ DOMAIN stack = 1 .. Len(stack)
  BY LenProperties DEF Ctl, Calls
<1>2. IsFiniteSet(A) /\ Cardinality(A) \in Nat /\ Cardinality(A) <= Len(stack)
  <2>1. IsFiniteSet(DOMAIN stack) /\ Cardinality(DOMAIN stack) = Len(stack)
    BY <1>1, CardInterval
  <2>2. A = {f[d] : d \in DOMAIN stack}
    OBVIOUS
  <2> HIDE DEF f, A
  <2>3. IsFiniteSet(A) /\ Cardinality(A) <= Len(stack)
    BY <2>1, <2>2, CardImage
  <2> QED
    BY <2>3, CardType
<1>4. ASSUME NEW p \in PID, pins[p] > 0 PROVE p \in C
  <2>1. SUFFICES ASSUME p \notin C PROVE FALSE
    OBVIOUS
  <2>2. OnPath(stack, p) = 0
    <3>1. {d \in DOMAIN stack : stack[d].pid = p} = {}
      BY <2>1
    <3> QED
      BY <3>1, CardEmpty DEF OnPath
  <2>3. InLeaf(call, p) = 0 /\ InScan(scan, p) = 0
    BY <2>1 DEF InLeaf, InScan
  <2>4. pins[p] = OnPath(stack, p) + InLeaf(call, p) + InScan(scan, p)
    BY HeldParts DEF Ctl, Pool, PinsBalanced
  <2> QED
    BY <1>4, <2>2, <2>3, <2>4
<1>5. X \in SUBSET D
  BY <1>4
<1> DEFINE b == Len(stack) + (IF call.pc = "splitLeaf" THEN 1 ELSE 0)
           c == b + (IF scan.pc \in {"entry", "callback"} THEN 1 ELSE 0)
<1> HIDE DEF A
<1>6. b \in Nat /\ Small(B, b)
  <2>1. Small(A, Len(stack))
    BY <1>2 DEF Small
  <2>2. Small(A \cup {call.pid}, Len(stack) + 1)
    BY <1>1, <2>1, Adds
  <2> QED
    BY <1>1, <2>1, <2>2
<1> HIDE DEF B, b
<1>7. c \in Nat /\ Small(C, c)
  <2>1. Small(B \cup {scan.pid}, b + 1)
    BY <1>6, Adds
  <2> QED
    BY <1>6, <2>1
<1> HIDE DEF C, c
<1>8. Small(D, c + 1)
  BY <1>7, Adds
<1> HIDE DEF D
<1>9. Cardinality(X) \in Nat /\ Cardinality(X) <= c + 1
  <2>1. IsFiniteSet(D) /\ Cardinality(D) \in Nat /\ Cardinality(D) <= c + 1
    BY <1>8 DEF Small
  <2>2. IsFiniteSet(X) /\ Cardinality(X) <= Cardinality(D)
    BY <1>5, <2>1, CardSubset
  <2>3. Cardinality(X) \in Nat
    BY <2>2, CardType
  <2> QED
    BY <1>7, <2>1, <2>2, <2>3
<1> DEFINE i == IF call.pc = "splitLeaf" THEN 1 ELSE 0
           j == IF scan.pc \in {"entry", "callback"} THEN 1 ELSE 0
<1>10. i \in Nat /\ j \in Nat /\ c = Len(stack) + i + j
  BY DEF b, c
<1> HIDE DEF i, j
<1>11. Cardinality(X) <= Len(stack) + 1 + i + j
  BY <1>1, <1>9, <1>10
<1> QED
  BY <1>9, <1>11 DEF i, j

\* The control invariant bounds the pinned pages: a path, a leaf, a sibling and
\* the leaf of a Scan.
LEMMA ControlFrames ==
  ASSUME Library
  PROVE  Control => FramesSuffice
<1> SUFFICES ASSUME NEW rank, Ctl(rank), call.pc \in {"into", "splitLeaf", "splitInternal"}
             PROVE  FramesNeeded <= Height + (IF scan.pc = "callback" THEN 2 ELSE 1)
  BY DEF Control, FramesSuffice
<1> DEFINE x == IF call.pc = "into" THEN call.pid ELSE NewPID
           X == {p \in PID : pins[p] > 0} \cup {x}
<1>1. FramesNeeded = Cardinality(X)
  BY DEF FramesNeeded
<1>2. /\ meta \in DOMAIN nodes /\ stack \in Seq(Ancestor) /\ scan.pc \in {"off", "callback"}
  BY Busy
<1>3. Height = rank[meta] + 1 /\ rank[meta] \in Nat /\ Len(stack) \in Nat
  BY <1>2, HeightRank, PageFacts, LenProperties DEF root, Ctl
<1> HIDE DEF X, x
<1>4. /\ Cardinality(X) \in Nat
      /\ Cardinality(X) <= Len(stack) + 1 + (IF call.pc = "splitLeaf" THEN 1 ELSE 0)
                                        + (IF scan.pc \in {"entry", "callback"} THEN 1 ELSE 0)
  BY PinnedPages, Zenon DEF X
<1>5. Len(stack) + (IF call.pc = "splitLeaf" THEN 1 ELSE 0) <= rank[meta] + 1
  <2>1. CASE call.pc \in {"into", "splitLeaf"}
    <3>1. rank[call.pid] + Len(stack) = rank[meta] /\ call.pid \in DOMAIN nodes
      BY <2>1, NodeFacts DEF root
    <3>2. rank[call.pid] \in Nat
      BY <3>1, PageFacts DEF Ctl
    <3>3. Len(stack) <= rank[meta]
      BY <1>3, <3>1, <3>2
    <3> QED
      BY <1>3, <3>3
  <2>2. CASE call.pc = "splitInternal"
    <3>1. stack # <<>>
      BY <2>2 DEF Ctl, Calls
    <3>2. rank[Top.pid] + Len(stack) = rank[meta] + 1 /\ rank[Top.pid] \in Nat
      BY <2>2, <3>1, TopFacts
    <3>3. Len(stack) <= rank[meta] + 1
      BY <1>3, <3>2
    <3> QED
      BY <2>2, <3>3
  <2> QED
    BY <2>1, <2>2
<1> QED
  BY <1>1, <1>2, <1>3, <1>4, <1>5

-----------------------------------------------------------------------------
(* The facts of the libraries.                                             *)

\* The two notions of finite sets spelled out.
LEMMA FinForm ==
  \A S : Fin(S) <=> \E seq \in Seq(S) : \A s \in S : \E n \in 1 .. Len(seq) : seq[n] = s
  BY DEF Fin, IsFiniteSet

Count(S) == LET CS[T \in SUBSET S] == IF T = {} THEN 0 ELSE 1 + CS[T \ {CHOOSE x : x \in T}]
            IN  CS[S]

\* The size of a set, with the recursion of its definition spelled out.
LEMMA CardForm == \A S : Card(S) = Count(S)
  BY DEF Card, Cardinality, Count

LOCAL INSTANCE FiniteSetTheorems

\* Finiteness here and in the library are the same.
LEMMA FinSame == \A S : Fin(S) <=> IsFiniteSet(S)
  BY FinForm DEF IsFiniteSet

\* Sizes here and in the library are the same.
LEMMA CardSame == \A S : Card(S) = Cardinality(S)
  BY CardForm DEF Count, Cardinality

LessNat == {ss \in Nat \X Nat : ss[1] < ss[2]}

\* Every set of naturals that is not empty has a least element.
LEMMA LeastNumber ==
  ASSUME NEW T \in SUBSET Nat, T # {}
  PROVE  \E x \in T : \A y \in T : x <= y
<1>1. IsWellFoundedOn(LessNat, Nat)
  BY NatLessThanWellFounded, Zenon DEF OpToRel, LessNat
<1>2. PICK x \in T : \A y \in T : ~ (<<y, x>> \in LessNat)
  BY <1>1, WFMin, Zenon
<1>3. ASSUME NEW y \in T PROVE x <= y
  <2>1. <<y, x>> \notin LessNat
    BY <1>2
  <2>2. y \in Nat /\ x \in Nat
    OBVIOUS
  <2>3. ~ (y < x)
    BY <2>1, <2>2 DEF LessNat
  <2> QED
    BY <2>2, <2>3
<1> QED
  BY <1>3

\* The library facts the lemmas assume.
LEMMA LibraryHolds == Library
<1>1. \A T \in SUBSET Nat : T # {} => \E x \in T : \A y \in T : x <= y
  BY LeastNumber
<1>2. Fin({}) /\ Card({}) = 0
  BY FinSame, CardSame, FS_EmptySet
<1>3. \A S : Fin(S) => Card(S) \in Nat
  BY FinSame, CardSame, FS_CardinalityType
<1>4. \A S, x : Fin(S) => Fin(S \cup {x}) /\ (x \notin S => Card(S \cup {x}) = Card(S) + 1)
  BY FinSame, CardSame, FS_AddElement
<1>5. \A S, T : Fin(T) /\ S \in SUBSET T => Fin(S) /\ Card(S) <= Card(T)
  BY FinSame, CardSame, FS_Subset
<1>6. \A m \in Nat : Fin(1 .. m) /\ Card(1 .. m) = m
  BY FinSame, CardSame, FS_Interval
<1>7. ASSUME NEW f, NEW S, NEW T, Fin(S), T = {f[x] : x \in S}
      PROVE  Fin(T) /\ Card(T) <= Card(S)
  <2>1. [x \in S |-> f[x]] \in Surjection(S, T)
    BY <1>7 DEF Surjection
  <2>2. IsFiniteSet(T) /\ Cardinality(T) <= Cardinality(S)
    BY <1>7, <2>1, FinSame, FS_Surjection
  <2> QED
    BY <2>2, FinSame, CardSame
<1>8. Images
  BY <1>7, Zenon DEF Images
<1> QED
  BY <1>1, <1>2, <1>3, <1>4, <1>5, <1>6, <1>8 DEF Library

\* The control state of the B+Tree is sound in every reachable state: the
\* pages form a tree, the path of an Insert is a path of it, and every pin is
\* held by a position in the code.
THEOREM ControlHolds == Spec => []Control
<1>1. Init => Control
  BY InitControl, LibraryHolds
<1>2. Control /\ [Next]_vars => Control'
  BY NextControl, LibraryHolds
<1> QED
  BY <1>1, <1>2, PTL DEF Spec

\* The state of the B+Tree has its type in every reachable state.
THEOREM TypesHold == Spec => []TypeOK
  BY ControlHolds, ControlTypeOK, LibraryHolds, PTL

\* NewBTree returns a tree only over a file whose meta page names a root page.
THEOREM OpenMeansRootedHolds == Spec => []OpenMeansRooted
<1>1. Control => OpenMeansRooted
  BY DEF Control, Ctl, File, OpenMeansRooted, root
<1> QED
  BY <1>1, ControlHolds, PTL

\* insertInto, the splits and Scan release each pin exactly once on every path.
THEOREM PinsBalancedHolds == Spec => []PinsBalanced
<1>1. Control => PinsBalanced
  BY DEF Control, Ctl, Pool
<1> QED
  BY <1>1, ControlHolds, PTL

\* One frame more than the tree is tall is enough for every Insert.
THEOREM FramesSufficeHolds == Spec => []FramesSuffice
  BY ControlHolds, ControlFrames, LibraryHolds, PTL

\* A page that a split changed is still pinned until UnpinPage reports it dirty.
THEOREM EveryChangeReportedHolds == Spec => []EveryChangeReported
  BY ControlHolds, ControlReported, LibraryHolds, PTL

=============================================================================
