---------------------------- MODULE NBTreeSteps -----------------------------
(***************************************************************************)
(* The steps of NewBTree and of Insert that change pages, and the returns, *)
(* keep the control invariant of the B+Tree.                               *)
(***************************************************************************)
EXTENDS NBTreeLemmas

scanState(pc, lo, hi, pid, first, i, next, seen, quiet) ==
  [pc |-> pc, lo |-> lo, hi |-> hi, pid |-> pid, first |-> first, i |-> i, next |-> next,
   seen |-> seen, quiet |-> quiet]

\* The state of a Scan is its fields.
LEMMA ScanParts ==
  /\ \A pc \in ScanSteps, lo \in Int, hi \in Int, pid \in Nat, first \in BOOLEAN, i \in Nat,
        next \in Nat, seen \in Seq(Key \X TID), quiet \in BOOLEAN :
       LET c == scanState(pc, lo, hi, pid, first, i, next, seen, quiet)
       IN  /\ c \in ScanState /\ c.pc = pc /\ c.lo = lo /\ c.hi = hi /\ c.pid = pid
           /\ c.first = first /\ c.i = i /\ c.next = next /\ c.seen = seen /\ c.quiet = quiet
  /\ \A c \in ScanState :
       /\ c.pc \in ScanSteps /\ c.lo \in Int /\ c.hi \in Int /\ c.pid \in Nat /\ c.first \in BOOLEAN
       /\ c.i \in Nat /\ c.next \in Nat /\ c.seen \in Seq(Key \X TID) /\ c.quiet \in BOOLEAN
       /\ c = scanState(c.pc, c.lo, c.hi, c.pid, c.first, c.i, c.next, c.seen, c.quiet)
<1>1. ASSUME NEW pc \in ScanSteps, NEW lo \in Int, NEW hi \in Int, NEW pid \in Nat,
             NEW first \in BOOLEAN, NEW i \in Nat, NEW next \in Nat,
             NEW seen \in Seq(Key \X TID), NEW quiet \in BOOLEAN
      PROVE  LET c == scanState(pc, lo, hi, pid, first, i, next, seen, quiet)
             IN  /\ c \in ScanState /\ c.pc = pc /\ c.lo = lo /\ c.hi = hi /\ c.pid = pid
                 /\ c.first = first /\ c.i = i /\ c.next = next /\ c.seen = seen
                 /\ c.quiet = quiet
  BY DEF scanState, ScanState
<1>2. ASSUME NEW c \in ScanState
      PROVE  /\ c.pc \in ScanSteps /\ c.lo \in Int /\ c.hi \in Int /\ c.pid \in Nat
             /\ c.first \in BOOLEAN /\ c.i \in Nat /\ c.next \in Nat
             /\ c.seen \in Seq(Key \X TID) /\ c.quiet \in BOOLEAN
             /\ c = scanState(c.pc, c.lo, c.hi, c.pid, c.first, c.i, c.next, c.seen, c.quiet)
  BY DEF scanState, ScanState
<1> QED
  BY <1>1, <1>2, Zenon

\* No scan is a state of a scan.
LEMMA NoScanParts ==
  /\ NoScan \in ScanState /\ NoScan.pc = "off" /\ NoScan.seen = <<>> /\ NoScan.quiet = TRUE
  /\ NoScan.first = TRUE
  /\ \A d, x, y, z : d = [NoScan EXCEPT !.pc = "leaf", !.lo = x, !.hi = y, !.pid = z] =>
       d = scanState("leaf", x, y, z, NoScan.first, NoScan.i, NoScan.next, NoScan.seen,
                     NoScan.quiet)
<1>1. NoScan \in ScanState
  <2>1. <<>> \in Seq(Key \X TID)
    BY EmptySeq
  <2> QED
    BY <2>1 DEF NoScan, ScanState, ScanSteps
<1>2. ASSUME NEW c \in ScanState, NEW d, NEW x, NEW y, NEW z,
             d = [c EXCEPT !.pc = "leaf", !.lo = x, !.hi = y, !.pid = z]
      PROVE  d = scanState("leaf", x, y, z, c.first, c.i, c.next, c.seen, c.quiet)
  <2>1. c = scanState(c.pc, c.lo, c.hi, c.pid, c.first, c.i, c.next, c.seen, c.quiet)
    BY ScanParts
  <2> QED
    BY <1>2, <2>1, Zenon DEF scanState
<1>3. /\ NoScan.first = TRUE /\ NoScan.i = 0 /\ NoScan.next = 0 /\ NoScan.seen = <<>>
      /\ NoScan.quiet = TRUE /\ NoScan.pc = "off"
  BY DEF NoScan
<1> QED
  BY <1>1, <1>2, <1>3, Zenon

\* The ways a step changes the scan.
LEMMA ScanQuiet ==
  ASSUME scan \in ScanState, NEW q \in BOOLEAN, scan' = [scan EXCEPT !.quiet = q]
  PROVE  /\ scan' \in ScanState
         /\ scan'.pc = scan.pc /\ scan'.lo = scan.lo /\ scan'.hi = scan.hi
         /\ scan'.pid = scan.pid /\ scan'.first = scan.first /\ scan'.i = scan.i
         /\ scan'.next = scan.next /\ scan'.seen = scan.seen /\ scan'.quiet = q
<1>1. /\ scan.pc \in ScanSteps /\ scan.lo \in Int /\ scan.hi \in Int /\ scan.pid \in Nat
      /\ scan.first \in BOOLEAN /\ scan.i \in Nat /\ scan.next \in Nat
      /\ scan.seen \in Seq(Key \X TID) /\ scan.quiet \in BOOLEAN
      /\ scan = scanState(scan.pc, scan.lo, scan.hi, scan.pid, scan.first, scan.i, scan.next,
                          scan.seen, scan.quiet)
  BY ScanParts
<1>2. scan' = scanState(scan.pc, scan.lo, scan.hi, scan.pid, scan.first, scan.i, scan.next, scan.seen, q)
  BY <1>1, Zenon DEF scanState
<1> QED
  BY <1>1, <1>2 DEF scanState, ScanState, ScanSteps

-----------------------------------------------------------------------------
(* Opening the file, and Insert's first and last steps.                    *)

\* An Insert that is over says nothing about the pages.
LEMMA CallsIdle ==
  ASSUME NEW R, call' = NoCall, stack' = <<>>
  PROVE  Calls(R)' /\ Splitting' = {} /\ call'.pc = "idle"
<1>1. NoCall \in CallState /\ NoCall.pc = "idle" /\ <<>> \in Seq(Ancestor)
  BY CallParts
<1>2. Path(R)'
  BY DEF Path
<1> QED
  BY <1>1, <1>2 DEF Calls, Pending, Splitting

\* The pool when no call was or is under way.
LEMMA PoolIdle ==
  ASSUME Pool, UNCHANGED <<pool, stack, scan>>, call.pc \notin {"splitLeaf", "splitInternal"},
         call'.pc \notin {"splitLeaf", "splitInternal"}
  PROVE  Pool'
  BY PoolKept DEF pool, Splitting

\* Insert's last step leaves the file as it is, or moves the root up.
LEMMA InsertEnds ==
  ASSUME NEW rank, Ctl(rank), call.pc \in {"return", "setRoot"}, stack = <<>>,
         meta' = meta \/ (meta' = call.pid /\ call.pc = "setRoot"), call' = NoCall,
         UNCHANGED <<nodes, opened, stack, scan, pool>>
  PROVE  Tree(rank)' /\ File' /\ Calls(rank)' /\ Scans(rank)' /\ Pool'
<1>1. Calls(rank)' /\ call'.pc = "idle"
  BY CallsIdle
<1>2. Scans(rank)'
  BY ScansKept DEF Extends
<1>3. Pool'
  BY <1>1, PoolIdle DEF Ctl
<1>4. Tree(rank)'
  BY DEF Ctl, Tree
<1>5. meta' \in DOMAIN nodes
  BY Busy DEF Ctl, Calls
<1>6. meta' \notin {Absent, BadMagic}
  BY <1>5, PageFacts DEF Ctl, Absent, BadMagic
<1> QED
  BY <1>1, <1>2, <1>3, <1>4, <1>5, <1>6 DEF Ctl, File

\* Insert returns its error.
LEMMA InsertErrorsCtl ==
  ASSUME NEW rank, Ctl(rank), InsertErrors
  PROVE  Ctl(rank)'
<1>1. /\ call.pc = "return" /\ stack = <<>> /\ call' = NoCall
      /\ UNCHANGED <<meta, nodes, opened, stack, scan, pool, acked, damaged, faults>>
  BY DEF InsertErrors, AtTop, treeVars, ghosts
<1> QED
  BY <1>1, InsertEnds DEF Ctl, Ghosts

\* The entry that Insert acknowledges is one that it was given.
LEMMA AckedKeys ==
  ASSUME NEW rank, Ctl(rank), call.pc # "idle", acked' = Acknowledged, UNCHANGED <<damaged, faults>>
  PROVE  Ghosts'
  BY Busy DEF Ctl, Ghosts, Acknowledged

\* Insert returns nil.
LEMMA InsertDoneCtl ==
  ASSUME NEW rank, Ctl(rank), InsertDone
  PROVE  Ctl(rank)'
<1>1. /\ call.pc = "return" /\ stack = <<>> /\ call' = NoCall /\ acked' = Acknowledged
      /\ UNCHANGED <<meta, nodes, opened, stack, scan, pool, damaged, faults>>
  BY DEF InsertDone, AtTop, treeVars
<1> QED
  BY <1>1, InsertEnds, AckedKeys DEF Ctl

\* Insert: the new root is recorded in the meta page.
LEMMA SetRootCtl ==
  ASSUME NEW rank, Ctl(rank), SetRoot
  PROVE  Ctl(rank)'
<1>1. /\ call.pc = "setRoot" /\ call' = NoCall /\ acked' = Acknowledged /\ meta' = call.pid
      /\ UNCHANGED <<nodes, opened, stack, scan, pool, damaged, faults>>
  BY DEF SetRoot
<1>2. stack = <<>>
  BY <1>1 DEF Ctl, Calls
<1> QED
  BY <1>1, <1>2, InsertEnds, AckedKeys DEF Ctl

\* Insert: the new root cannot be allocated or recorded.
LEMMA RootFailsCtl ==
  ASSUME NEW rank, Ctl(rank), RootFails
  PROVE  Ctl(rank)'
<1>1. /\ call.pc \in {"return", "setRoot"} /\ stack = <<>> /\ call' = NoCall
      /\ damaged' = TRUE /\ Fault /\ UNCHANGED <<meta, nodes, opened, stack, scan, pool, acked>>
  BY DEF RootFails, AtTop, treeVars, Ctl, Calls
<1>2. Ghosts'
  BY <1>1, BoundsAssumption DEF Ctl, Ghosts, Fault
<1> QED
  BY <1>1, <1>2, InsertEnds DEF Ctl

\* What is known between calls.
LEMMA Quiescent ==
  ASSUME NEW rank, Ctl(rank), call = NoCall
  PROVE  stack = <<>> /\ call.pc = "idle"
  BY CallParts DEF Ctl, Calls

\* Insert begins at the root.
LEMMA InsertCtl ==
  ASSUME NEW rank, Ctl(rank), NEW e \in Entry, Insert(e[1], e[2])
  PROVE  Ctl(rank)'
<1>1. /\ opened /\ call = NoCall /\ scan.pc \in {"off", "callback"}
      /\ UNCHANGED <<treeVars, stack, pool, ghosts>>
  BY DEF Insert
<1>2. stack = <<>> /\ call.pc = "idle"
  BY <1>1, Quiescent
<1>3. CASE Fault /\ UNCHANGED <<call, scan>>
  <2>1. Calls(rank)' /\ Scans(rank)'
    BY <1>1, <1>3 DEF Ctl, Calls, Scans, Pending, Path, root, keyCount, treeVars, Node, Parent, Top
  <2>2. Pool'
    BY <1>1, <1>2, <1>3, PoolIdle DEF Ctl
  <2>3. Ghosts'
    BY <1>1, <1>3, BoundsAssumption DEF Ctl, Ghosts, ghosts, Fault
  <2> QED
    BY <1>1, <2>1, <2>2, <2>3 DEF Ctl, Tree, File, treeVars
<1>4. CASE /\ call' = [NoCall EXCEPT !.pc = "into", !.key = e[1], !.tid = e[2], !.pid = root]
           /\ scan' = [scan EXCEPT !.quiet = (scan.pc = "off")] /\ UNCHANGED faults
  <2>1. e[1] \in Key /\ e[2] \in TID /\ e[1] \in Int
    BY KeysInt DEF Key, TID
  <2>2. meta \in DOMAIN nodes /\ meta \in Nat /\ rank[meta] \in Nat
    BY <1>1, PageFacts DEF Ctl, File, PID
  <2>3. call' = callState("into", e[1], e[2], meta, NoSplit, "nil")
    BY <1>4, CallStarts, Zenon DEF root
  <2>4. /\ call' \in CallState /\ call'.pc = "into" /\ call'.key = e[1] /\ call'.tid = e[2]
        /\ call'.pid = meta
    <3>1. NoSplit \in Split
      BY CallParts
    <3> QED
      BY <2>1, <2>2, <2>3, <3>1 DEF Steps, callState, CallState
  <2>5. Calls(rank)'
    <3>1. Path(rank)'
      BY <1>1, <1>2 DEF Path
    <3>2. stack' = <<>> /\ stack' \in Seq(Ancestor) /\ Len(stack') = 0
      BY <1>1, <1>2
    <3>3. rank[call'.pid] + Len(stack') = rank[root'] /\ call'.pid \in DOMAIN nodes'
      BY <1>1, <2>2, <2>4, <3>2 DEF root, treeVars
    <3> QED
      BY <1>1, <2>1, <2>4, <3>1, <3>2, <3>3 DEF Calls, Pending, treeVars
  <2>6. Scans(rank)'
    <3> DEFINE q == (scan.pc = "off")
    <3>1. q \in BOOLEAN /\ (q <=> scan.pc = "off")
      OBVIOUS
    <3> HIDE DEF q
    <3>2. scan \in ScanState /\ scan' = [scan EXCEPT !.quiet = q]
      BY <1>4 DEF Ctl, Scans, q
    <3>3. /\ scan' \in ScanState /\ scan'.pc = scan.pc /\ scan'.pid = scan.pid
          /\ scan'.next = scan.next /\ scan'.seen = scan.seen /\ scan'.quiet = q
      BY <3>1, <3>2, ScanQuiet
    <3>4. Scans(rank)
      BY DEF Ctl
    <3>5. ~(scan'.pc # "off" /\ scan'.quiet)
      BY <3>1, <3>3, Zenon
    <3> QED
      BY <1>1, <3>3, <3>4, <3>5 DEF Scans, treeVars
  <2>7. Pool'
    <3>1. ASSUME NEW p \in PID PROVE Held(p)' = Held(p)
      <4>1. scan'.pc = scan.pc /\ scan'.pid = scan.pid
        BY <1>4 DEF Ctl, Scans, ScanState
      <4> QED
        BY <1>1, <1>2, <2>4, <4>1 DEF Held
    <3>2. (pins \in [PID -> Nat])' /\ PinsBalanced'
      BY <1>1, <3>1, PinsKept DEF Ctl, Pool, pool
    <3>3. changed' = {}
      BY <1>1, <1>2 DEF Ctl, Pool, pool, Splitting
    <3> QED
      BY <3>2, <3>3 DEF Pool
  <2> QED
    BY <1>1, <1>4, <2>5, <2>6, <2>7 DEF Ctl, Tree, File, treeVars, Ghosts, ghosts
<1> QED
  BY <1>3, <1>4 DEF Insert

\* A file that is not open: no call and no scan.
LEMMA Closed ==
  ASSUME NEW rank, Ctl(rank), ~opened
  PROVE  call = NoCall /\ stack = <<>> /\ scan.pc = "off" /\ call.pc = "idle"
<1>1. call.pc = "idle"
  BY DEF Ctl, Calls
<1>2. call = NoCall /\ stack = <<>>
  BY <1>1 DEF Ctl, Calls
<1> QED
  BY <1>1, <1>2 DEF Ctl, Scans

\* Opening and closing leave the calls as they are.
LEMMA OpenedKept ==
  ASSUME NEW rank, NEW R, Ctl(rank), call = NoCall, scan.pc = "off",
         UNCHANGED <<call, stack, scan, pool>>
  PROVE  Calls(R)' /\ Scans(R)' /\ Pool'
<1>1. stack = <<>> /\ call.pc = "idle"
  BY Quiescent
<1>2. Calls(R)'
  BY <1>1, CallsIdle
<1>3. Scans(R)'
  BY DEF Ctl, Scans
<1>4. Pool'
  BY <1>1, PoolIdle DEF Ctl
<1> QED
  BY <1>2, <1>3, <1>4

\* NewBTree on an empty file.
LEMMA BootstrapCtl ==
  ASSUME NEW rank, Ctl(rank), Bootstrap
  PROVE  \E R : Ctl(R)'
<1>1. ~opened /\ meta = Absent /\ UNCHANGED <<call, stack, scan, pool, ghosts>>
  BY DEF Bootstrap
<1>2. call = NoCall /\ scan.pc = "off"
  BY <1>1, Closed
<1>3. nodes = <<>>
  BY <1>1 DEF Ctl, File
<1>4. CASE nodes' = <<initLeaf>> /\ meta' = 1 /\ opened' = TRUE /\ UNCHANGED faults
  <2> DEFINE R == [p \in {1} |-> 0]
  <2>1. /\ nodes' \in Seq(LeafNode \cup InternalNode) /\ Len(nodes') = 1 /\ DOMAIN nodes' = {1}
        /\ nodes'[1] = initLeaf
    BY <1>4, BlankNodes
  <2>2. initLeaf.next = 0 /\ initLeaf \in LeafNode /\ initLeaf \notin InternalNode
    BY BlankNodes, LeafParts, InternalParts
  <2>3. Tree(R)'
    <3>1. Fits(R, 1, initLeaf)
      BY <2>2 DEF Fits
    <3> QED
      BY <2>1, <3>1, BoundsAssumption DEF Tree
  <2>4. File'
    BY <1>4, <2>1 DEF File, Absent, BadMagic
  <2>5. Calls(R)' /\ Scans(R)' /\ Pool'
    BY <1>1, <1>2, OpenedKept
  <2>6. Ghosts'
    BY <1>1, <1>4 DEF Ctl, Ghosts, ghosts
  <2> HIDE DEF R
  <2>7. Ctl(R)'
    BY <2>3, <2>4, <2>5, <2>6 DEF Ctl
  <2> QED
    BY <2>7
<1>5. CASE Fault /\ meta' \in {Absent, BadMagic} /\ UNCHANGED <<nodes, opened>>
  <2>1. Tree(rank)' /\ File'
    BY <1>1, <1>3, <1>5 DEF Ctl, Tree, File
  <2>2. Calls(rank)' /\ Scans(rank)' /\ Pool'
    BY <1>1, <1>2, OpenedKept
  <2>3. Ghosts'
    BY <1>1, <1>5, BoundsAssumption DEF Ctl, Ghosts, ghosts, Fault
  <2>4. Ctl(rank)'
    BY <2>1, <2>2, <2>3 DEF Ctl
  <2> QED
    BY <2>4
<1> QED
  BY <1>1, <1>4, <1>5 DEF Bootstrap, RootLeafFails

\* NewBTree on a file with a tree.
LEMMA OpenExistingCtl ==
  ASSUME NEW rank, Ctl(rank), OpenExisting
  PROVE  Ctl(rank)'
<1>1. /\ ~opened /\ meta # Absent /\ opened' = (meta # BadMagic)
      /\ UNCHANGED <<meta, nodes, call, stack, scan, pool, ghosts, faults>>
  BY DEF OpenExisting
<1>2. Calls(rank)' /\ Scans(rank)' /\ Pool'
  BY <1>1, Closed, OpenedKept
<1> QED
  BY <1>1, <1>2 DEF Ctl, Tree, File, Ghosts, ghosts

\* The tree is dropped between calls.
LEMMA CloseCtl ==
  ASSUME NEW rank, Ctl(rank), Close
  PROVE  Ctl(rank)'
<1>1. /\ opened /\ call = NoCall /\ scan = NoScan /\ opened' = FALSE
      /\ UNCHANGED <<meta, nodes, call, stack, scan, pool, ghosts, faults>>
  BY DEF Close
<1>2. scan.pc = "off"
  BY <1>1 DEF NoScan
<1>3. Calls(rank)' /\ Scans(rank)' /\ Pool'
  BY <1>1, <1>2, OpenedKept
<1> QED
  BY <1>1, <1>3 DEF Ctl, Tree, File, Ghosts, ghosts

-----------------------------------------------------------------------------
(* The leaf takes its entry and is split.                                  *)

\* The file while an Insert changes pages or adds one.
LEMMA FileKept ==
  ASSUME NEW rank, NEW R, Ctl(rank), call.pc # "idle", Extends(R, rank), UNCHANGED <<meta, opened>>
  PROVE  File' /\ meta' \in DOMAIN nodes' /\ R[meta'] = rank[meta] /\ rank[meta] \in Nat
<1>1. opened /\ meta \in DOMAIN nodes
  BY Busy
<1>2. meta \notin {Absent, BadMagic} /\ rank[meta] \in Nat
  BY <1>1, PageFacts DEF Ctl, Absent, BadMagic
<1> QED
  BY <1>1, <1>2 DEF File, Extends, Ctl

\* A page on the path is not the leaf below it.
LEMMA PathAboveLeaf ==
  ASSUME NEW rank, Ctl(rank), call.pc \in {"into", "splitLeaf"}, Node.leaf, NEW d \in DOMAIN stack
  PROVE  stack[d].pid \in DOMAIN nodes \ {call.pid}
  BY DEF Ctl, Calls, Path, Node

\* Insert: the entry is stored in a leaf with room.
LEMMA LeafInsertCtl ==
  ASSUME Library, NEW rank, Ctl(rank), LeafInsert
  PROVE  Ctl(rank)'
<1> DEFINE n == insertLeafAt(Node, search(Node, call.key), call.key, call.tid)
<1>1. /\ call.pc = "into" /\ Node.leaf /\ keyCount(Node) < leafCap
      /\ nodes' = [nodes EXCEPT ![call.pid] = n]
      /\ IF full(n)
         THEN /\ call' = [call EXCEPT !.pc = "splitLeaf"]
              /\ pins' = Pinned(call.pid) /\ changed' = changed \cup {call.pid}
         ELSE Return(NoSplit, "nil") /\ UNCHANGED pool
      /\ UNCHANGED <<meta, opened, stack, scan, ghosts, faults>>
  BY DEF LeafInsert
<1>2. /\ call.pid \in DOMAIN nodes /\ call.pid \in PID /\ Node \in LeafNode
      /\ keyCount(Node) \in Nat /\ search(Node, call.key) \in 0 .. keyCount(Node)
      /\ rank[call.pid] + Len(stack) = rank[meta] /\ rank[call.pid] = 0
  BY <1>1, NodeFacts DEF root
<1>3. n \in LeafNode /\ n.next = Node.next /\ keyCount(n) = keyCount(Node) + 1 /\ n.leaf
  BY <1>1, <1>2, Busy, InsertLeafFacts, LeafParts
<1> HIDE DEF n
<1>4. Fits(rank, call.pid, n)
  <2>1. Fits(rank, call.pid, Node) /\ n \notin InternalNode
    BY <1>2, <1>3, InternalParts DEF Ctl, Tree, Node
  <2> QED
    BY <1>2, <1>3, <2>1 DEF Fits
<1>5. Tree(rank)' /\ Replaces(call.pid, n)
  BY <1>1, <1>2, <1>3, <1>4, TreeReplaced DEF Ctl
<1>6. Extends(rank, rank) /\ nodes'[call.pid] = n /\ DOMAIN nodes' = DOMAIN nodes
  BY <1>5 DEF Extends, Replaces
<1>7. File' /\ rank[meta'] = rank[meta]
  BY <1>1, <1>6, FileKept
<1>8. Scans(rank)'
  BY <1>1, <1>6, ScansKept
<1>9. Path(rank)'
  <2>1. Path(rank) /\ meta' = meta /\ meta \in DOMAIN nodes
    BY <1>1, Busy DEF Ctl, Calls
  <2>2. ASSUME NEW d \in DOMAIN stack
        PROVE  nodes'[stack[d].pid] = nodes[stack[d].pid]
    BY <1>1, <1>5, PathAboveLeaf DEF Replaces
  <2> QED
    BY <1>1, <1>6, <2>1, <2>2, PathKept
<1>10. Calls(rank)' /\ Pool'
  <2>1. CASE full(n)
    <3>1. keyCount(n) = leafCap
      BY <1>1, <1>2, <1>3, <2>1, CapAssumption DEF full
    <3>2. /\ call' \in CallState /\ call'.pc = "splitLeaf" /\ call'.pid = call.pid
          /\ call'.key = call.key /\ call'.tid = call.tid
      BY <1>1, <2>1, Busy, Moved DEF Steps
    <3>3. Calls(rank)'
      BY <1>1, <1>2, <1>3, <1>6, <1>9, <3>1, <3>2, Busy DEF Calls, Pending, Node, root, keyCount
    <3>4. ASSUME NEW p \in PID PROVE Held(p)' = Held(p) + Once(call.pid, p)
      <4>1. Held(p) = OnPath(stack, p) + InLeaf(call, p) + InScan(scan, p)
        BY HeldParts
      <4>2. Held(p)' = OnPath(stack, p) + InLeaf(call', p) + InScan(scan, p)
        BY <1>1 DEF Held, OnPath, InLeaf, InScan
      <4>3. InLeaf(call, p) = 0 /\ InLeaf(call', p) = Once(call.pid, p) /\ Once(call.pid, p) \in Nat
        BY <1>1, <3>2 DEF InLeaf, Once
      <4>4. OnPath(stack, p) \in Nat /\ InScan(scan, p) \in Nat
        BY <1>1, Busy, HeldParts
      <4> QED
        BY <4>1, <4>2, <4>3, <4>4
    <3>5. (pins \in [PID -> Nat])' /\ PinsBalanced'
      BY <1>1, <1>2, <2>1, <3>4, PinsTaken DEF Ctl, Pool
    <3>6. changed' \subseteq Splitting'
      BY <1>1, <2>1, <3>2 DEF Ctl, Pool, Splitting
    <3> QED
      BY <3>3, <3>5, <3>6 DEF Pool
  <2>2. CASE ~full(n)
    <3>1. /\ call' \in CallState /\ call'.pc = "return" /\ call'.sp = NoSplit
          /\ call'.key = call.key /\ call'.tid = call.tid
      BY <1>1, <2>2, Busy, Returned, CallParts
    <3>2. Calls(rank)'
      BY <1>1, <1>9, <3>1, Busy DEF Calls, Pending
    <3>3. Pool'
      BY <1>1, <2>2, <3>1, PoolIdle DEF Ctl
    <3> QED
      BY <3>2, <3>3
  <2> QED
    BY <2>1, <2>2
<1> QED
  BY <1>1, <1>5, <1>7, <1>8, <1>10 DEF Ctl, Ghosts, ghosts

\* A step that returns a split to the level above.
LEMMA CallsSplit ==
  ASSUME NEW rank, NEW R, Ctl(rank), call.pc # "idle", opened' = opened,
         NEW k \in Key, NEW q \in DOMAIN nodes', q \in Nat,
         Return([sepKey |-> k, right |-> q], "nil"), stack' \in Seq(Ancestor), Path(R)',
         R[q] + Len(stack') = R[meta']
  PROVE  Calls(R)' /\ call'.pc = "return"
<1> DEFINE sp == [sepKey |-> k, right |-> q]
<1>1. sp \in Split /\ sp.sepKey = k /\ sp.right = q
  BY KeysInt DEF Split
<1> HIDE DEF sp
<1>2. /\ call' \in CallState /\ call'.pc = "return" /\ call'.sp = sp /\ call'.err = "nil"
      /\ call'.key = call.key /\ call'.tid = call.tid
  BY <1>1, Busy, Returned DEF sp
<1> QED
  BY <1>1, <1>2, Busy DEF Calls, Pending, root

\* The ranks after a page was added.
LEMMA RanksFacts ==
  ASSUME NEW rank, Tree(rank), NEW r, NEW R, R = Ranks(rank, r), NEW p, NEW n, NEW m, Grows(p, n, m)
  PROVE  /\ Extends(R, rank) /\ R[NewPID] = r /\ NewPID \in DOMAIN nodes' /\ NewPID \in Nat
         /\ DOMAIN R = 1 .. Len(nodes) + 1 /\ NewPID \in DOMAIN R /\ DOMAIN nodes \subseteq DOMAIN R
<1>1. Len(nodes) \in Nat /\ DOMAIN nodes = 1 .. Len(nodes)
  BY PageFacts
<1> QED
  BY <1>1 DEF Ranks, Extends, Grows, NewPID

\* ... and before the step says so.
LEMMA RanksExtend ==
  ASSUME NEW rank, Tree(rank), NEW r, NEW R, R = Ranks(rank, r)
  PROVE  /\ R[NewPID] = r /\ NewPID \in Nat \ {0} /\ NewPID \in DOMAIN R
         /\ \A p \in DOMAIN nodes : p \in DOMAIN R /\ R[p] = rank[p]
<1>1. Len(nodes) \in Nat /\ DOMAIN nodes = 1 .. Len(nodes)
  BY PageFacts
<1> QED
  BY <1>1 DEF Ranks, NewPID

\* Insert: a leaf is split; its new sibling is a leaf too.
LEMMA splitLeafNodeCtl ==
  ASSUME Library, NEW rank, Ctl(rank), splitLeafNode
  PROVE  \E R : Ctl(R)'
<1> DEFINE s == splitLeaf(Node, initLeaf)
           L == withNext(s.left, NewPID)
           M == withNext(s.right, Node.next)
           k == keyAt(s.right, 0)
<1>1. /\ call.pc = "splitLeaf" /\ Room /\ nodes' = Append([nodes EXCEPT ![call.pid] = L], M)
      /\ Return([sepKey |-> k, right |-> NewPID], "nil")
      /\ Unpin(call.pid, TRUE, changed)
      /\ UNCHANGED <<meta, opened, stack, scan, ghosts, faults>>
  BY DEF splitLeafNode, withNext
<1>2. Node.leaf /\ keyCount(Node) = leafCap
  BY <1>1 DEF Ctl, Calls
<1>3. /\ call.pid \in DOMAIN nodes /\ Node \in LeafNode /\ Len(stack) \in Nat
      /\ rank[call.pid] + Len(stack) = rank[meta] /\ rank[call.pid] = 0
  BY <1>1, <1>2, NodeFacts DEF root
<1>4. keyCount(Node) >= 2 /\ Node.next \in Nat /\ NewPID \in Nat
  <2>1. Len(nodes) \in Nat
    BY PageFacts DEF Ctl
  <2> QED
    BY <1>2, <1>3, <2>1, CapAssumption, LeafParts DEF NewPID
<1>5. /\ L \in LeafNode /\ L.next = NewPID /\ M \in LeafNode /\ M.next = Node.next /\ k \in Key
  <2>1. L \in LeafNode /\ L.next = NewPID /\ k \in Key
    BY <1>3, <1>4, SplitLeafFacts
  <2>2. M \in LeafNode /\ M.next = Node.next
    BY <1>3, <1>4, SplitLeafFacts
  <2> QED
    BY <2>1, <2>2
<1> HIDE DEF s, L, M, k
<1>6. PICK R : R = Ranks(rank, 0)
  OBVIOUS
<1>7. /\ R[NewPID] = 0 /\ NewPID \in DOMAIN R
      /\ \A p \in DOMAIN nodes : p \in DOMAIN R /\ R[p] = rank[p]
  BY <1>6, RanksExtend DEF Ctl
<1>8. Fits(R, call.pid, L) /\ Fits(R, NewPID, M)
  <2>1. Fits(rank, call.pid, Node) /\ L \notin InternalNode /\ M \notin InternalNode
    BY <1>3, <1>5, InternalParts, LeafParts DEF Ctl, Tree, Node
  <2>2. Node.next # 0 => Node.next \in DOMAIN nodes /\ rank[Node.next] = 0
    BY <1>3, <2>1, PageFacts DEF Fits, Ctl
  <2> QED
    BY <1>3, <1>5, <1>7, <2>1, <2>2 DEF Fits
<1>9. Tree(R)' /\ Grows(call.pid, L, M)
  <2>1. 0 \in 0 .. Len(nodes) + 1
    BY PageFacts DEF Ctl
  <2> QED
    BY <1>1, <1>3, <1>5, <1>6, <1>8, <2>1, TreeGrown DEF Ctl
<1>10. Extends(R, rank) /\ NewPID \in DOMAIN nodes'
  BY <1>6, <1>9, RanksFacts DEF Ctl
<1>11. File' /\ R[meta'] = rank[meta]
  BY <1>1, <1>10, FileKept
<1>12. Scans(R)'
  BY <1>1, <1>10, ScansKept
<1>13. Path(R)'
  <2>1. Path(rank) /\ meta' = meta /\ meta \in DOMAIN nodes
    BY <1>1, Busy DEF Ctl, Calls
  <2>2. ASSUME NEW d \in DOMAIN stack
        PROVE  nodes'[stack[d].pid] = nodes[stack[d].pid]
    BY <1>1, <1>2, <1>9, PathAboveLeaf DEF Grows
  <2> QED
    BY <1>1, <1>10, <2>1, <2>2, PathKept
<1>14. Calls(R)' /\ call'.pc = "return"
  <2>1. R[NewPID] + Len(stack') = R[meta']
    BY <1>1, <1>3, <1>7, <1>11
  <2> QED
    BY <1>1, <1>4, <1>5, <1>10, <1>13, <2>1, Busy, CallsSplit
<1>15. Pool'
  BY <1>1, <1>14, PoolLeafDone
<1>16. Ctl(R)'
  BY <1>1, <1>9, <1>11, <1>12, <1>14, <1>15 DEF Ctl, Ghosts, ghosts
<1> QED
  BY <1>16

-----------------------------------------------------------------------------
(* The levels above take a split.                                          *)

\* The pages of the path are all different: they are on different levels.
LEMMA PathDistinct ==
  ASSUME NEW rank, Ctl(rank), call.pc # "idle", NEW d \in DOMAIN stack, NEW e \in DOMAIN stack, d # e
  PROVE  stack[d].pid # stack[e].pid
<1>1. stack \in Seq(Ancestor) /\ DOMAIN stack = 1 .. Len(stack) /\ meta \in DOMAIN nodes
  BY Busy, LenProperties
<1>2. /\ stack[d].pid \in DOMAIN nodes /\ rank[stack[d].pid] + d = rank[meta] + 1
      /\ stack[e].pid \in DOMAIN nodes /\ rank[stack[e].pid] + e = rank[meta] + 1
  BY DEF Ctl, Calls, Path, root
<1>3. rank[stack[d].pid] \in Nat /\ rank[stack[e].pid] \in Nat /\ rank[meta] \in Nat
  BY <1>1, <1>2, PageFacts DEF Ctl
<1>4. d \in Int /\ e \in Int
  BY <1>1
<1> QED
  BY <1>2, <1>3, <1>4

\* The parent on top of the path.
LEMMA TopFacts ==
  ASSUME NEW rank, Ctl(rank), call.pc # "idle", stack # <<>>
  PROVE  /\ Len(stack) \in Nat \ {0} /\ DOMAIN stack = 1 .. Len(stack) /\ Len(stack) \in DOMAIN stack
         /\ Top.pid \in DOMAIN nodes /\ Parent \in InternalNode /\ keyCount(Parent) \in Nat
         /\ Top.ci \in 0 .. keyCount(Parent)
         /\ rank[Top.pid] + Len(stack) = rank[meta] + 1
         /\ rank[Top.pid] \in Nat /\ rank[meta] \in Nat /\ rank[Top.pid] <= Len(nodes)
         /\ \A d \in 1 .. Len(stack) - 1 : stack[d].pid \in DOMAIN nodes \ {Top.pid}
<1>1. stack \in Seq(Ancestor) /\ meta \in DOMAIN nodes
  BY Busy
<1>2. /\ Len(stack) \in Nat \ {0} /\ DOMAIN stack = 1 .. Len(stack) /\ Len(stack) \in DOMAIN stack
      /\ Top \in Ancestor
  BY <1>1, LenProperties, EmptySeq, ElementOfSeq DEF Top
<1>3. /\ Top.pid \in DOMAIN nodes /\ ~nodes[Top.pid].leaf /\ Top.ci <= keyCount(nodes[Top.pid])
      /\ rank[Top.pid] + Len(stack) = rank[meta] + 1
  BY <1>2 DEF Ctl, Calls, Path, Top, root
<1>4. nodes[Top.pid] \in InternalNode /\ Top.ci \in Nat
  BY <1>2, <1>3, PageFacts DEF Ctl, Ancestor
<1>5. keyCount(nodes[Top.pid]) \in Nat
  BY <1>4, InternalParts, LenProperties DEF keyCount
<1>6. rank[Top.pid] \in 0 .. Len(nodes) /\ rank[meta] \in Nat /\ Len(nodes) \in Nat
  BY <1>1, <1>3, PageFacts DEF Ctl
<1>7. \A d \in 1 .. Len(stack) - 1 : stack[d].pid \in DOMAIN nodes \ {Top.pid}
  <2> SUFFICES ASSUME NEW d \in 1 .. Len(stack) - 1 PROVE stack[d].pid \in DOMAIN nodes \ {Top.pid}
    OBVIOUS
  <2>1. d \in DOMAIN stack /\ d # Len(stack)
    <3>1. Len(stack) \in Nat /\ DOMAIN stack = 1 .. Len(stack)
      BY <1>2
    <3>2. \A x \in Nat : \A j \in 1 .. x - 1 : j \in 1 .. x /\ j # x
      OBVIOUS
    <3> QED
      BY <3>1, <3>2, Zenon
  <2>2. stack[d].pid \in DOMAIN nodes
    BY <2>1 DEF Ctl, Calls, Path
  <2>3. stack[d].pid # stack[Len(stack)].pid
    <3>1. Len(stack) \in DOMAIN stack
      BY <1>2
    <3> QED
      BY <2>1, <3>1, PathDistinct, Zenon
  <2> QED
    BY <2>2, <2>3 DEF Top
<1>8. Parent \in InternalNode /\ keyCount(Parent) \in Nat /\ Top.ci <= keyCount(Parent)
  BY <1>3, <1>4, <1>5, Zenon DEF Parent
<1>9. Top.ci \in 0 .. keyCount(Parent)
  BY <1>4, <1>8
<1>10. rank[Top.pid] \in Nat /\ rank[Top.pid] <= Len(nodes)
  BY <1>6
<1> QED
  BY <1>2, <1>3, <1>6, <1>7, <1>8, <1>9, <1>10, Zenon

\* Where the pages are linked after i slots of a node moved up.
LEMMA FitsShifted ==
  ASSUME NEW rank, NEW p, NEW n \in InternalNode, NEW m \in InternalNode, NEW i \in Nat,
         NEW q \in DOMAIN rank, Shifted(m.kids, n.kids, i, q), i \in 1 .. Len(n.kids),
         Fits(rank, p, n), rank[p] = rank[q] + 1
  PROVE  Fits(rank, p, m)
<1>1. /\ n.kids \in Seq(Nat) /\ m.kids \in Seq(Nat) /\ m \notin LeafNode /\ n \notin LeafNode
  BY InternalParts, LeafParts
<1>2. /\ Len(n.kids) \in Nat /\ DOMAIN n.kids = 1 .. Len(n.kids) /\ DOMAIN m.kids = 1 .. Len(m.kids)
  BY <1>1, LenProperties
<1>3. /\ Len(m.kids) = Len(n.kids) + 1
      /\ \A j \in 1 .. Len(n.kids) + 1 :
           m.kids[j] = (IF j <= i THEN n.kids[j] ELSE IF j = i + 1 THEN q ELSE n.kids[j - 1])
  BY DEF Shifted
<1>4. \A j \in 1 .. Len(n.kids) : n.kids[j] \in DOMAIN rank /\ rank[p] = rank[n.kids[j]] + 1
  BY <1>2 DEF Fits
<1>5. ASSUME NEW j \in DOMAIN m.kids
      PROVE  m.kids[j] \in DOMAIN rank /\ rank[p] = rank[m.kids[j]] + 1
  <2>1. CASE j <= i
    <3>1. j \in 1 .. Len(n.kids) /\ m.kids[j] = n.kids[j]
      BY <1>2, <1>3, <2>1
    <3> QED
      BY <1>4, <3>1
  <2>2. CASE j = i + 1
    <3>1. m.kids[j] = q
      BY <1>2, <1>3, <2>2
    <3> QED
      BY <3>1
  <2>3. CASE j > i + 1
    <3>1. j - 1 \in 1 .. Len(n.kids) /\ m.kids[j] = n.kids[j - 1]
      BY <1>2, <1>3, <2>3
    <3> QED
      BY <1>4, <3>1
  <2> QED
    BY <1>2, <2>1, <2>2, <2>3
<1> QED
  BY <1>1, <1>5 DEF Fits

\* The half of a node links to what the node linked to.
LEMMA FitsSliced ==
  ASSUME NEW rank, NEW p, NEW q, NEW n \in InternalNode, NEW m \in InternalNode,
         NEW d \in Nat, NEW c \in Nat, d + c <= Len(n.kids), Slice(m.kids, n.kids, d, c),
         Fits(rank, p, n), rank[q] = rank[p]
  PROVE  Fits(rank, q, m)
<1>1. /\ n.kids \in Seq(Nat) /\ m.kids \in Seq(Nat) /\ m \notin LeafNode /\ n \notin LeafNode
  BY InternalParts, LeafParts
<1>2. Len(n.kids) \in Nat /\ DOMAIN n.kids = 1 .. Len(n.kids) /\ DOMAIN m.kids = 1 .. c
  BY <1>1, LenProperties DEF Slice
<1>3. \A j \in 1 .. Len(n.kids) : n.kids[j] \in DOMAIN rank /\ rank[p] = rank[n.kids[j]] + 1
  BY <1>2 DEF Fits
<1>4. ASSUME NEW j \in 1 .. c
      PROVE  m.kids[j] \in DOMAIN rank /\ rank[q] = rank[m.kids[j]] + 1
  <2>1. d + j \in 1 .. Len(n.kids) /\ m.kids[j] = n.kids[d + j]
    BY <1>2 DEF Slice
  <2> QED
    BY <1>3, <2>1
<1> QED
  BY <1>1, <1>2, <1>4 DEF Fits

\* Insert: an ancestor takes the separator and the new child.
LEMMA AbsorbCtl ==
  ASSUME Library, NEW rank, Ctl(rank), Absorb
  PROVE  Ctl(rank)'
<1> DEFINE q == call.sp.right
           n == insertInternalAt(Parent, Top.ci, call.sp.sepKey, q)
<1>1. /\ call.pc = "return" /\ stack # <<>> /\ call.err = "nil" /\ call.sp # NoSplit
      /\ keyCount(Parent) < internalCap /\ nodes' = [nodes EXCEPT ![Top.pid] = n]
      /\ IF full(n)
         THEN /\ call' = [call EXCEPT !.pc = "splitInternal"]
              /\ changed' = changed \cup {Top.pid}
              /\ UNCHANGED <<pins, stack>>
         ELSE /\ Return(NoSplit, "nil")
              /\ Unpin(Top.pid, TRUE, changed \cup {Top.pid})
              /\ Pop
      /\ UNCHANGED <<meta, opened, scan, ghosts, faults>>
  BY DEF Absorb, AbsorbDirty
<1>2. call.sp.sepKey \in Key /\ q \in DOMAIN nodes /\ rank[q] + Len(stack) = rank[meta]
  BY <1>1 DEF Ctl, Calls, Pending, root
<1>3. /\ Len(stack) \in Nat \ {0} /\ DOMAIN stack = 1 .. Len(stack)
      /\ Top.pid \in DOMAIN nodes /\ Parent \in InternalNode /\ keyCount(Parent) \in Nat
      /\ Top.ci \in 0 .. keyCount(Parent)
      /\ rank[Top.pid] + Len(stack) = rank[meta] + 1
      /\ rank[Top.pid] \in Nat /\ rank[meta] \in Nat
      /\ \A d \in 1 .. Len(stack) - 1 : stack[d].pid \in DOMAIN nodes \ {Top.pid}
  BY <1>1, TopFacts
<1>4. q \in Nat /\ rank[q] \in Nat /\ DOMAIN rank = DOMAIN nodes
  BY <1>2, PageFacts DEF Ctl
<1>5. /\ n \in InternalNode /\ keyCount(n) = keyCount(Parent) + 1 /\ ~n.leaf
      /\ Shifted(n.kids, Parent.kids, Top.ci + 1, q)
  <2>1. /\ n \in InternalNode /\ keyCount(n) = keyCount(Parent) + 1
        /\ Shifted(n.kids, Parent.kids, Top.ci + 1, q)
    BY <1>2, <1>3, <1>4, InsertInternalFacts
  <2> QED
    BY <2>1, InternalParts
<1> HIDE DEF n
<1>6. Fits(rank, Top.pid, n)
  <2>1. Fits(rank, Top.pid, Parent) /\ Len(Parent.kids) = keyCount(Parent) + 1
    BY <1>3, InternalParts DEF Ctl, Tree, Parent, keyCount
  <2>2. Top.ci + 1 \in 1 .. Len(Parent.kids) /\ Top.ci + 1 \in Nat
    <3>1. Top.ci \in 0 .. keyCount(Parent) /\ keyCount(Parent) \in Nat
      BY <1>3
    <3>2. Len(Parent.kids) = keyCount(Parent) + 1
      BY <2>1
    <3> QED
      BY <3>1, <3>2
  <2>3. rank[Top.pid] = rank[q] + 1 /\ q \in DOMAIN rank
    <3> HIDE DEF q
    <3>1. Len(stack) \in Nat
      BY <1>3
    <3> QED
      BY <1>2, <1>3, <1>4, <3>1
  <2>4. n \in InternalNode /\ Parent \in InternalNode /\ Shifted(n.kids, Parent.kids, Top.ci + 1, q)
    BY <1>3, <1>5
  <2>5. Fits(rank, Top.pid, Parent)
    BY <2>1
  <2> HIDE DEF q
  <2> QED
    BY <2>2, <2>3, <2>4, <2>5, FitsShifted
<1>7. Tree(rank)' /\ Replaces(Top.pid, n)
  BY <1>1, <1>3, <1>5, <1>6, TreeReplaced DEF Ctl
<1>8. Extends(rank, rank) /\ nodes'[Top.pid] = n /\ DOMAIN nodes' = DOMAIN nodes
  BY <1>7 DEF Extends, Replaces
<1>9. File'
  BY <1>1, <1>8, FileKept
<1>10. Scans(rank)'
  BY <1>1, <1>8, ScansKept
<1>11. ASSUME NEW p \in DOMAIN nodes
       PROVE  /\ ~nodes[p].leaf => ~nodes'[p].leaf
              /\ \A i \in Nat : i <= keyCount(nodes[p]) => i <= keyCount(nodes'[p])
  <2>1. CASE p = Top.pid
    <3>1. nodes[p] = Parent /\ nodes'[p] = n
      BY <1>8, <2>1 DEF Parent
    <3>2. keyCount(Parent) \in Nat
      BY <1>3
    <3>3. keyCount(n) = keyCount(Parent) + 1 /\ ~n.leaf
      BY <1>5
    <3> QED
      BY <3>1, <3>2, <3>3
  <2>2. CASE p # Top.pid
    BY <1>7, <2>2 DEF Replaces
  <2> QED
    BY <2>1, <2>2
<1>12. ASSUME \A d \in DOMAIN stack' : d \in DOMAIN stack /\ stack'[d] = stack[d]
       PROVE  Path(rank)'
  <2>1. Path(rank) /\ meta' = meta /\ meta \in DOMAIN nodes /\ stack \in Seq(Ancestor)
    BY <1>1, Busy DEF Ctl, Calls
  <2>2. ASSUME NEW d \in DOMAIN stack PROVE stack[d].ci \in Nat
    <3>1. stack[d] \in Ancestor
      BY <2>1, LenProperties, ElementOfSeq
    <3> QED
      BY <3>1 DEF Ancestor
  <2> QED
    BY <1>8, <1>11, <1>12, <2>1, <2>2, PathKept
<1>13. Calls(rank)' /\ Pool'
  <2>1. CASE full(n)
    <3>1. keyCount(n) = internalCap
      BY <1>1, <1>3, <1>5, <2>1, CapAssumption DEF full
    <3>2. /\ call' \in CallState /\ call'.pc = "splitInternal"
          /\ call'.key = call.key /\ call'.tid = call.tid /\ stack' = stack
      BY <1>1, <2>1, Busy, Moved DEF Steps
    <3>3. Calls(rank)'
      <4>1. Path(rank)'
        BY <1>12, <3>2
      <4>2. keyCount(Parent)' = internalCap
        BY <1>8, <3>1, <3>2 DEF Parent, Top, keyCount
      <4> QED
        BY <1>1, <3>2, <4>1, <4>2, Busy DEF Calls, Pending, keyCount
    <3>4. Pool'
      <4>1. ASSUME NEW p \in PID PROVE Held(p)' = Held(p)
        BY <1>1, <3>2 DEF Held
      <4>2. (pins \in [PID -> Nat])' /\ PinsBalanced'
        BY <1>1, <2>1, <4>1, PinsKept DEF Ctl, Pool
      <4>3. changed' \subseteq Splitting'
        BY <1>1, <2>1, <3>2 DEF Ctl, Pool, Splitting, Top
      <4> QED
        BY <4>2, <4>3 DEF Pool
    <3> QED
      BY <3>3, <3>4
  <2>2. CASE ~full(n)
    <3>1. /\ call' \in CallState /\ call'.pc = "return" /\ call'.sp = NoSplit
          /\ call'.key = call.key /\ call'.tid = call.tid
      BY <1>1, <2>2, Busy, Returned, CallParts
    <3>2. Pop /\ stack' \in Seq(Ancestor)
          /\ \A d \in DOMAIN stack' : d \in DOMAIN stack /\ stack'[d] = stack[d]
      BY <1>1, <2>2, PopFacts
    <3>3. Calls(rank)'
      BY <1>1, <1>12, <3>1, <3>2, Busy DEF Calls, Pending
    <3>4. Pool'
      <4>1. changed \cup {Top.pid} \subseteq {Top.pid} /\ Unpin(Top.pid, TRUE, changed \cup {Top.pid})
        BY <1>1, <2>2 DEF Ctl, Pool, Splitting
      <4> QED
        BY <1>1, <3>1, <3>2, <4>1, PoolPopped
    <3> QED
      BY <3>3, <3>4
  <2> QED
    BY <2>1, <2>2
<1> QED
  BY <1>1, <1>7, <1>9, <1>10, <1>13 DEF Ctl, Ghosts, ghosts

\* Insert: an internal node is split; the sibling has its rank.
LEMMA splitInternalNodeCtl ==
  ASSUME Library, NEW rank, Ctl(rank), splitInternalNode
  PROVE  \E R : Ctl(R)'
<1> DEFINE s == splitInternal(Parent, initInternal)
           L == s.left
           M == s.right
           k == s.upKey
           r == rank[Top.pid]
           m == keyCount(Parent) \div 2
<1>1. /\ call.pc = "splitInternal" /\ Room /\ nodes' = Append([nodes EXCEPT ![Top.pid] = L], M)
      /\ Return([sepKey |-> k, right |-> NewPID], "nil")
      /\ Unpin(Top.pid, TRUE, changed) /\ Pop
      /\ UNCHANGED <<meta, opened, scan, ghosts, faults>>
  BY DEF splitInternalNode
<1>2. stack # <<>> /\ keyCount(Parent) = internalCap
  BY <1>1 DEF Ctl, Calls
<1>3. /\ Len(stack) \in Nat \ {0} /\ DOMAIN stack = 1 .. Len(stack)
      /\ Top.pid \in DOMAIN nodes /\ Parent \in InternalNode /\ keyCount(Parent) \in Nat
      /\ r + Len(stack) = rank[meta] + 1
      /\ r \in Nat /\ rank[meta] \in Nat /\ r <= Len(nodes)
      /\ \A d \in 1 .. Len(stack) - 1 : stack[d].pid \in DOMAIN nodes \ {Top.pid}
  BY <1>1, <1>2, TopFacts
<1>4. keyCount(Parent) >= 2
  BY <1>2, CapAssumption
<1>5. /\ L \in InternalNode /\ M \in InternalNode /\ k \in Key
      /\ Slice(L.kids, Parent.kids, 0, m + 1)
      /\ Slice(M.kids, Parent.kids, m + 1, keyCount(Parent) - m)
  BY <1>3, <1>4, SplitInternalFacts
<1>6. /\ m \in Nat /\ m + 1 \in Nat /\ keyCount(Parent) - m \in Nat
      /\ 0 + (m + 1) <= Len(Parent.kids) /\ (m + 1) + (keyCount(Parent) - m) <= Len(Parent.kids)
  <2>1. Len(Parent.kids) = keyCount(Parent) + 1
    BY <1>3, InternalParts DEF keyCount
  <2>2. m \in Nat /\ m <= keyCount(Parent)
    BY <1>3, <1>4
  <2>3. keyCount(Parent) \in Nat
    BY <1>3
  <2> HIDE DEF m
  <2> QED
    BY <2>1, <2>2, <2>3
<1> HIDE DEF s, L, M, k, m, r
<1>7. PICK R : R = Ranks(rank, r)
  OBVIOUS
<1>8. /\ R[NewPID] = r /\ NewPID \in DOMAIN R /\ NewPID \in Nat
      /\ \A p \in DOMAIN nodes : p \in DOMAIN R /\ R[p] = rank[p]
  BY <1>7, RanksExtend DEF Ctl
<1>9. Fits(R, Top.pid, L) /\ Fits(R, NewPID, M)
  <2>1. Fits(R, Top.pid, Parent)
    <3>1. Fits(rank, Top.pid, Parent) /\ Parent \notin LeafNode /\ DOMAIN rank = DOMAIN nodes
      BY <1>3, InternalParts, LeafParts, PageFacts DEF Ctl, Tree, Parent
    <3> QED
      BY <1>3, <1>8, <3>1 DEF Fits
  <2>2. R[NewPID] = R[Top.pid]
    BY <1>3, <1>8 DEF r
  <2>3. 0 \in Nat
    OBVIOUS
  <2>4. Fits(R, Top.pid, L)
    BY <1>3, <1>5, <1>6, <2>1, <2>3, FitsSliced
  <2>5. Fits(R, NewPID, M)
    BY <1>3, <1>5, <1>6, <2>1, <2>2, FitsSliced
  <2> QED
    BY <2>4, <2>5
<1>10. Tree(R)' /\ Grows(Top.pid, L, M)
  <2>1. r \in 0 .. Len(nodes) + 1
    <3>1. Len(nodes) \in Nat
      BY PageFacts DEF Ctl
    <3>2. r \in Nat /\ r <= Len(nodes)
      BY <1>3
    <3> QED
      BY <3>1, <3>2
  <2> QED
    BY <1>1, <1>3, <1>5, <1>7, <1>9, <2>1, TreeGrown DEF Ctl
<1>11. Extends(R, rank) /\ NewPID \in DOMAIN nodes'
  BY <1>7, <1>10, RanksFacts DEF Ctl
<1>12. File' /\ R[meta'] = rank[meta]
  BY <1>1, <1>11, FileKept
<1>13. Scans(R)'
  BY <1>1, <1>11, ScansKept
<1>14. /\ stack' \in Seq(Ancestor) /\ Len(stack') = Len(stack) - 1
       /\ DOMAIN stack' = 1 .. Len(stack) - 1
       /\ \A d \in DOMAIN stack' : d \in DOMAIN stack /\ stack'[d] = stack[d]
  BY <1>1, <1>2, PopFacts
<1>15. Path(R)'
  <2>1. Path(rank) /\ meta' = meta /\ meta \in DOMAIN nodes
    BY <1>1, Busy DEF Ctl, Calls
  <2>2. ASSUME NEW d \in DOMAIN stack'
        PROVE  nodes'[stack[d].pid] = nodes[stack[d].pid]
    BY <1>3, <1>10, <1>14 DEF Grows
  <2> QED
    BY <1>11, <1>14, <2>1, <2>2, PathKept
<1>16. Calls(R)' /\ call'.pc = "return"
  <2>1. R[NewPID] + Len(stack') = R[meta']
    <3>1. Len(stack) \in Nat /\ r \in Nat /\ rank[meta] \in Nat /\ r + Len(stack) = rank[meta] + 1
      BY <1>3
    <3>2. r + (Len(stack) - 1) = rank[meta]
      BY <3>1
    <3> QED
      BY <1>8, <1>12, <1>14, <3>2
  <2> QED
    BY <1>1, <1>5, <1>8, <1>11, <1>14, <1>15, <2>1, CallsSplit
<1>17. Pool'
  <2>1. changed \subseteq {Top.pid}
    BY <1>1 DEF Ctl, Pool, Splitting
  <2> QED
    BY <1>1, <1>2, <1>16, <2>1, PoolPopped
<1>18. Ctl(R)'
  BY <1>1, <1>10, <1>12, <1>13, <1>16, <1>17 DEF Ctl, Ghosts, ghosts
<1> QED
  BY <1>18

\* Insert: a new root above the two halves of the old one.
LEMMA NewRootCtl ==
  ASSUME NEW rank, Ctl(rank), NewRoot
  PROVE  \E R : Ctl(R)'
<1> DEFINE k == call.sp.sepKey
           q == call.sp.right
           m == internalNode(<<k>>, <<meta, q>>)
           r == rank[meta] + 1
<1>1. /\ call.pc = "return" /\ stack = <<>> /\ call.sp # NoSplit /\ Room
      /\ nodes' = Append(nodes, m)
      /\ call' = [call EXCEPT !.pc = "setRoot", !.pid = NewPID]
      /\ UNCHANGED <<meta, opened, stack, scan, pool, ghosts, faults>>
  <2>1. withKids(initInternal, <<k>>, <<meta, q>>) = m
    BY BlankNodes
  <2> HIDE DEF m
  <2> QED
    BY <2>1 DEF NewRoot, AtTop, root, withKids
<1>2. k \in Key /\ q \in DOMAIN nodes /\ rank[q] + Len(stack) = rank[meta]
  BY <1>1 DEF Ctl, Calls, Pending, root
<1>3. meta \in DOMAIN nodes
  BY <1>1, Busy
<1>4. /\ q \in Nat /\ meta \in Nat /\ rank[q] \in Nat /\ rank[meta] \in 0 .. Len(nodes)
      /\ Len(nodes) \in Nat /\ DOMAIN rank = DOMAIN nodes
  <2>1. /\ Len(nodes) \in Nat /\ DOMAIN nodes = 1 .. Len(nodes) /\ DOMAIN rank = DOMAIN nodes
        /\ \A p \in DOMAIN nodes : rank[p] \in 0 .. Len(nodes)
    BY PageFacts DEF Ctl
  <2>2. \A p \in DOMAIN nodes : p \in Nat /\ rank[p] \in Nat
    BY <2>1
  <2>3. q \in DOMAIN nodes
    BY <1>2
  <2> HIDE DEF q
  <2> QED
    BY <1>3, <2>1, <2>2, <2>3
<1>5. rank[q] = rank[meta] /\ r \in 0 .. Len(nodes) + 1
  <2>1. Len(stack) = 0
    BY <1>1
  <2> HIDE DEF q
  <2> QED
    BY <1>2, <1>4, <2>1
<1>6. /\ m \in InternalNode /\ m.kids = <<meta, q>> /\ ~m.leaf
  <2> HIDE DEF k, q
  <2>1. /\ <<k>> \in Seq(Key) /\ <<meta, q>> \in Seq(Nat)
        /\ Len(<<meta, q>>) = Len(<<k>>) + 1
    BY <1>2, <1>4
  <2> DEFINE a == <<k>>
             b == <<meta, q>>
  <2>2. a \in Seq(Key) /\ b \in Seq(Nat) /\ Len(b) = Len(a) + 1 /\ m = internalNode(a, b)
    BY <2>1
  <2>3. b = <<meta, q>>
    OBVIOUS
  <2> HIDE DEF a, b, m
  <2> QED
    BY <2>2, <2>3, InternalParts
<1> HIDE DEF m, r, k, q
<1>7. PICK R : R = Ranks(rank, r)
  OBVIOUS
<1>8. /\ R[NewPID] = r /\ NewPID \in DOMAIN R /\ NewPID \in Nat
      /\ \A p \in DOMAIN nodes : p \in DOMAIN R /\ R[p] = rank[p]
  BY <1>7, RanksExtend DEF Ctl
<1>9. Fits(R, meta, nodes[meta]) /\ Fits(R, NewPID, m)
  <2>1. Fits(R, meta, nodes[meta])
    <3>1. Fits(rank, meta, nodes[meta])
      BY <1>3 DEF Ctl, Tree
    <3> QED
      BY <1>3, <1>4, <1>8, <3>1 DEF Fits
  <2>2. m \notin LeafNode
    BY <1>6, LeafParts
  <2>3. ASSUME NEW i \in DOMAIN m.kids
        PROVE  m.kids[i] \in DOMAIN R /\ R[NewPID] = R[m.kids[i]] + 1
    <3>1. m.kids[i] \in {meta, q}
      BY <1>6
    <3> QED
      BY <1>2, <1>3, <1>5, <1>8, <3>1 DEF r
  <2> QED
    BY <2>1, <2>2, <2>3 DEF Fits
<1>10. Tree(R)' /\ Grows(meta, nodes[meta], m)
  <2>1. nodes[meta] \in LeafNode \cup InternalNode /\ nodes = [nodes EXCEPT ![meta] = nodes[meta]]
    BY <1>3, LenProperties, ElementOfSeq DEF Ctl, Tree
  <2>2. nodes' = Append([nodes EXCEPT ![meta] = nodes[meta]], m)
    BY <1>1, <2>1, Zenon
  <2>3. Tree(rank) /\ m \in LeafNode \cup InternalNode
    BY <1>6 DEF Ctl
  <2> QED
    BY <1>1, <1>3, <1>5, <1>7, <1>9, <2>1, <2>2, <2>3, TreeGrown
<1>11. Extends(R, rank) /\ NewPID \in DOMAIN nodes'
  BY <1>7, <1>10, RanksFacts DEF Ctl
<1>12. File' /\ R[meta'] = rank[meta]
  BY <1>1, <1>11, FileKept
<1>13. Scans(R)'
  BY <1>1, <1>11, ScansKept
<1>14. /\ call' \in CallState /\ call'.pc = "setRoot" /\ call'.key = call.key
       /\ call'.tid = call.tid /\ call'.pid = NewPID
  BY <1>1, <1>8, Busy, Descended DEF Steps
<1>15. Calls(R)'
  <2>1. Path(R)'
    BY <1>1 DEF Path
  <2>2. R[call'.pid] = R[root'] + 1
    BY <1>8, <1>12, <1>14 DEF r, root
  <2> QED
    BY <1>1, <1>11, <1>14, <2>1, <2>2, Busy DEF Calls, Pending
<1>16. Pool'
  BY <1>1, <1>14, PoolIdle DEF Ctl
<1>17. Ctl(R)'
  BY <1>1, <1>10, <1>12, <1>13, <1>15, <1>16 DEF Ctl, Ghosts, ghosts
<1> QED
  BY <1>17

=============================================================================
