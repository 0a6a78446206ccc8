------------------------------- MODULE NBTree -------------------------------
(***************************************************************************)
(* The B+Tree index of internal/access/nbtree/nbtree.go over its pager:    *)
(* NewBTree with bootstrap, Insert with its splits, Search and Scan.       *)
(*                                                                         *)
(* The tree has no lock; one goroutine uses it at a time.  Insert is a     *)
(* machine over an explicit stack, because each FetchPage and NewPage may  *)
(* fail and what is pinned, changed and already linked at that point       *)
(* matters.  Scan hands each entry to a callback, and the callback may     *)
(* call Insert while the scanned leaf is pinned.                           *)
(*                                                                         *)
(* "damaged" records that an Insert failed after it had changed a node.    *)
(***************************************************************************)
EXTENDS BTreeNode, FiniteSets

CONSTANTS Entry,       \* bound: the (int64 key, heap TID) pairs that are inserted
          Bounds,      \* bound: the <<lo, hi>> that scans use
          MaxPID,      \* bound: pages after the meta page
          MaxFaults    \* bound: failing pager calls

Key == {e[1] : e \in Entry}
TID == {e[2] : e \in Entry}

ASSUME KeyAssumption == Key \subseteq Int /\ Bounds \subseteq Int \X Int
ASSUME BoundsAssumption == MaxPID \in Nat \ {0} /\ MaxFaults \in Nat

PID == 0 .. MaxPID
metaPID == 0
Absent == -2      \* the file has no page 0
BadMagic == -1    \* page 0 exists and is not a formatted meta page

VARIABLES
  meta,      \* page 0: Absent, BadMagic or the root's PID
  nodes,     \* pages 1, 2, ...
  opened,    \* a BTree value exists
  call,      \* the Insert in progress
  stack,     \* its ancestors: [pid, ci] per internal node on the path
  scan,      \* the Scan in progress
  pins,      \* pin count of each page
  changed,   \* pages changed and not yet unpinned dirty
  acked,     \* the entries whose Insert returned nil: key -> TID
  damaged, faults

vars == <<meta, nodes, opened, call, stack, scan, pins, changed, acked, damaged, faults>>

NoSplit == [sepKey |-> 0, right |-> invalidPID]
NoCall == [pc |-> "idle", key |-> 0, tid |-> 0, pid |-> 0, sp |-> NoSplit, err |-> "nil"]
NoScan == [pc |-> "off", lo |-> 0, hi |-> 0, pid |-> 0, first |-> TRUE, i |-> 0,
           next |-> 0, seen |-> <<>>, quiet |-> TRUE]

Init ==
  /\ meta = Absent /\ nodes = <<>> /\ opened = FALSE
  /\ call = NoCall /\ stack = <<>> /\ scan = NoScan
  /\ pins = [p \in PID |-> 0] /\ changed = {}
  /\ acked = <<>> /\ damaged = FALSE /\ faults = 0

-----------------------------------------------------------------------------
(* The pager, as the tree uses it.                                         *)

Fault == faults < MaxFaults /\ faults' = faults + 1
\* NewPage succeeds: the new page's id.
Room == Len(nodes) < MaxPID
NewPID == Len(nodes) + 1

Pinned(p) == [pins EXCEPT ![p] = @ + 1]
\* Mutant: clean pages are not unpinned.
UnpinDirtyOnly(p, dirty, chg) ==
  /\ pins' = IF dirty THEN [pins EXCEPT ![p] = @ - 1] ELSE pins
  /\ changed' = IF dirty THEN chg \ {p} ELSE chg
\* UnpinPage(p, dirty), given the pages changed so far.
Unpin(p, dirty, chg) ==
  /\ pins' = [pins EXCEPT ![p] = @ - 1]
  /\ changed' = IF dirty THEN chg \ {p} ELSE chg

treeVars == <<meta, nodes, opened>>
ghosts == <<acked, damaged>>
pool == <<pins, changed>>

-----------------------------------------------------------------------------
(* NewBTree.                                                               *)

\* Mutant: the magic and the root are written before the leaf is allocated.
RootLeafFailsLate == Fault /\ meta' = 1
\* bootstrap's second NewPage fails: page 0 stays behind, blank.
RootLeafFails == Fault /\ meta' = BadMagic

\* An empty file: bootstrap.
Bootstrap ==
  /\ ~opened /\ meta = Absent
  /\ \/ /\ nodes' = <<initLeaf>> /\ meta' = 1 /\ opened' = TRUE
        /\ UNCHANGED faults
     \/ Fault /\ UNCHANGED <<meta, nodes, opened>>
     \/ RootLeafFails /\ UNCHANGED <<nodes, opened>>
  /\ UNCHANGED <<call, stack, scan, pool, ghosts>>

\* An existing file: page 0 must be readable and carry the magic.
OpenExisting ==
  /\ ~opened /\ meta # Absent
  /\ opened' = (meta # BadMagic)
  /\ UNCHANGED <<meta, nodes, call, stack, scan, pool, ghosts, faults>>

\* The owner drops the tree between calls (and flushes the pool).
Close ==
  /\ opened /\ call = NoCall /\ scan = NoScan
  /\ opened' = FALSE
  /\ UNCHANGED <<meta, nodes, call, stack, scan, pool, ghosts, faults>>

-----------------------------------------------------------------------------
(* Descents.                                                               *)

root == meta

\* findLeaf: from pid p to the leaf whose band holds key.
leafUnder(p, key) ==
  LET down[q \in DOMAIN nodes] ==
        IF nodes[q].leaf THEN q ELSE down[childAt(nodes[q], childIndex(nodes[q], key))]
  IN  down[p]
findLeaf(key) == leafUnder(root, key)

\* Search: the TIDs found for key, at most one.
Search(key) ==
  LET n == nodes[findLeaf(key)]
  IN  IF found(n, key) THEN {tidAt(n, search(n, key))} ELSE {}

-----------------------------------------------------------------------------
(* Insert and insertInto.                                                  *)

\* Insert is called between other calls, or by a Scan's callback.
Insert(k, t) ==
  /\ opened /\ call = NoCall /\ scan.pc \in {"off", "callback"}
  /\ \/ /\ call' = [NoCall EXCEPT !.pc = "into", !.key = k, !.tid = t, !.pid = root]
        /\ scan' = [scan EXCEPT !.quiet = (scan.pc = "off")]
        /\ UNCHANGED faults
     \/ Fault /\ UNCHANGED <<call, scan>>
  /\ UNCHANGED <<treeVars, stack, pool, ghosts>>

Return(sp, err) == call' = [call EXCEPT !.pc = "return", !.sp = sp, !.err = err]
Node == nodes[call.pid]
Top == stack[Len(stack)]
Pop == stack' = SubSeq(stack, 1, Len(stack) - 1)

\* insertInto's FetchPage fails.
FetchFails ==
  /\ call.pc = "into" /\ Fault
  /\ Return(NoSplit, "io")
  /\ UNCHANGED <<treeVars, stack, scan, pool, ghosts>>

\* An internal node stays pinned while its child is visited.
VisitInternal ==
  LET ci == childIndex(Node, call.key)
  IN  /\ call.pc = "into" /\ ~Node.leaf
      /\ pins' = Pinned(call.pid)
      /\ stack' = Append(stack, [pid |-> call.pid, ci |-> ci])
      /\ call' = [call EXCEPT !.pid = childAt(Node, ci)]
      /\ UNCHANGED <<treeVars, scan, changed, ghosts, faults>>

LeafDuplicate ==
  /\ call.pc = "into" /\ Node.leaf /\ found(Node, call.key)
  /\ Return(NoSplit, "duplicate")
  /\ UNCHANGED <<treeVars, stack, scan, pool, ghosts, faults>>

\* The leaf takes the entry; if that fills it, it stays pinned to be split.
LeafInsert ==
  LET n == insertLeafAt(Node, search(Node, call.key), call.key, call.tid)
  IN  /\ call.pc = "into" /\ Node.leaf /\ ~found(Node, call.key)
      /\ keyCount(Node) < leafCap
      /\ nodes' = [nodes EXCEPT ![call.pid] = n]
      /\ IF full(n)
         THEN /\ call' = [call EXCEPT !.pc = "splitLeaf"]
              /\ pins' = Pinned(call.pid) /\ changed' = changed \cup {call.pid}
         ELSE Return(NoSplit, "nil") /\ UNCHANGED pool
      /\ UNCHANGED <<meta, opened, stack, scan, ghosts, faults>>

splitLeafNode ==
  LET s == splitLeaf(Node, initLeaf)
  IN  /\ call.pc = "splitLeaf" /\ Room
      /\ nodes' = Append([nodes EXCEPT ![call.pid] = [s.left EXCEPT !.next = NewPID]],
                         [s.right EXCEPT !.next = Node.next])
      /\ Return([sepKey |-> keyAt(s.right, 0), right |-> NewPID], "nil")
      /\ Unpin(call.pid, TRUE, changed)
      /\ UNCHANGED <<meta, opened, stack, scan, ghosts, faults>>

\* Its NewPage fails: the full leaf is unpinned as it is.
splitLeafFails ==
  /\ call.pc = "splitLeaf" /\ Fault
  /\ Return(NoSplit, "io")
  /\ Unpin(call.pid, TRUE, changed)
  /\ damaged' = TRUE
  /\ UNCHANGED <<treeVars, stack, scan, acked>>

-----------------------------------------------------------------------------
(* Back in a parent: Top is its node.                                      *)

Parent == nodes[Top.pid]

\* An error, or a child that did not split: nothing to do here.
PassUp ==
  /\ call.pc = "return" /\ stack # <<>>
  /\ call.err # "nil" \/ call.sp = NoSplit
  /\ Unpin(Top.pid, FALSE, changed)
  /\ Pop
  /\ UNCHANGED <<treeVars, call, scan, ghosts, faults>>

\* Mutant: an absorbing parent is unpinned clean.
AbsorbDirtyForgotten == FALSE
AbsorbDirty == TRUE

\* Absorb the child's split; if that fills the node, split it too.
Absorb ==
  LET n == insertInternalAt(Parent, Top.ci, call.sp.sepKey, call.sp.right)
  IN  /\ call.pc = "return" /\ stack # <<>>
      /\ call.err = "nil" /\ call.sp # NoSplit
      /\ keyCount(Parent) < internalCap
      /\ nodes' = [nodes EXCEPT ![Top.pid] = n]
      /\ IF full(n)
         THEN /\ call' = [call EXCEPT !.pc = "splitInternal"]
              /\ changed' = changed \cup {Top.pid}
              /\ UNCHANGED <<pins, stack>>
         ELSE /\ Return(NoSplit, "nil")
              /\ Unpin(Top.pid, AbsorbDirty, changed \cup {Top.pid})
              /\ Pop
      /\ UNCHANGED <<meta, opened, scan, ghosts, faults>>

splitInternalNode ==
  LET s == splitInternal(Parent, initInternal)
  IN  /\ call.pc = "splitInternal" /\ Room
      /\ nodes' = Append([nodes EXCEPT ![Top.pid] = s.left], s.right)
      /\ Return([sepKey |-> s.upKey, right |-> NewPID], "nil")
      /\ Unpin(Top.pid, TRUE, changed)
      /\ Pop
      /\ UNCHANGED <<meta, opened, scan, ghosts, faults>>

splitInternalFails ==
  /\ call.pc = "splitInternal" /\ Fault
  /\ Return(NoSplit, "io")
  /\ Unpin(Top.pid, TRUE, changed)
  /\ Pop
  /\ damaged' = TRUE
  /\ UNCHANGED <<treeVars, scan, acked>>

-----------------------------------------------------------------------------
(* Back in Insert.                                                         *)

AtTop == call.pc = "return" /\ stack = <<>>
Acknowledged == [k \in DOMAIN acked \cup {call.key} |->
                   IF k = call.key THEN call.tid ELSE acked[k]]

InsertErrors ==
  /\ AtTop /\ call.err # "nil"
  /\ call' = NoCall
  /\ UNCHANGED <<treeVars, stack, scan, pool, ghosts, faults>>

InsertDone ==
  /\ AtTop /\ call.err = "nil" /\ call.sp = NoSplit
  /\ call' = NoCall /\ acked' = Acknowledged
  /\ UNCHANGED <<treeVars, stack, scan, pool, damaged, faults>>

\* The root split: a new root over the old one and its right half.
NewRoot ==
  /\ AtTop /\ call.err = "nil" /\ call.sp # NoSplit /\ Room
  /\ nodes' = Append(nodes, [initInternal EXCEPT !.keys = <<call.sp.sepKey>>,
                                                 !.kids = <<root, call.sp.right>>])
  /\ call' = [call EXCEPT !.pc = "setRoot", !.pid = NewPID]
  /\ UNCHANGED <<meta, opened, stack, scan, pool, ghosts, faults>>

SetRoot ==
  /\ call.pc = "setRoot"
  /\ meta' = call.pid
  /\ call' = NoCall /\ acked' = Acknowledged
  /\ UNCHANGED <<nodes, opened, stack, scan, pool, damaged, faults>>

\* The new root's NewPage, or setRoot's FetchPage, fails: the right half of the
\* old root has no parent.
RootFails ==
  /\ call.pc = "setRoot" \/ (AtTop /\ call.err = "nil" /\ call.sp # NoSplit)
  /\ Fault
  /\ call' = NoCall /\ damaged' = TRUE
  /\ UNCHANGED <<treeVars, stack, scan, pool, acked>>

\* A node that a failed split left at capacity is asked to take one more key:
\* the key area runs into the array behind it.  The model stops here.
Overrun ==
  /\ \/ /\ call.pc = "into" /\ Node.leaf /\ ~found(Node, call.key)
        /\ keyCount(Node) >= leafCap
     \/ /\ call.pc = "return" /\ stack # <<>> /\ call.err = "nil" /\ call.sp # NoSplit
        /\ keyCount(Parent) >= internalCap
  /\ call' = [call EXCEPT !.pc = "overrun"]
  /\ UNCHANGED <<treeVars, stack, scan, pool, ghosts, faults>>

Halted == call.pc = "overrun" /\ UNCHANGED vars

-----------------------------------------------------------------------------
(* Scan.                                                                   *)

\* findLeaf(lo).
Scan(lo, hi) ==
  /\ opened /\ call = NoCall /\ scan = NoScan
  /\ \/ /\ scan' = [NoScan EXCEPT !.pc = "leaf", !.lo = lo, !.hi = hi,
                                  !.pid = findLeaf(lo)]
        /\ UNCHANGED faults
     \/ Fault /\ UNCHANGED scan
  /\ UNCHANGED <<treeVars, call, stack, pool, ghosts>>

\* Fetch the next leaf, and read its successor before its entries are visited.
ScanFetch ==
  LET n == nodes[scan.pid]
  IN  /\ scan.pc = "leaf"
      /\ scan' = [scan EXCEPT !.pc = "entry", !.first = FALSE, !.next = n.next,
                              !.i = IF scan.first THEN search(n, scan.lo) ELSE 0]
      /\ pins' = Pinned(scan.pid)
      /\ UNCHANGED <<treeVars, call, stack, changed, ghosts, faults>>

ScanFetchFails ==
  /\ scan.pc = "leaf" /\ Fault
  /\ scan' = NoScan
  /\ UNCHANGED <<treeVars, call, stack, pool, ghosts>>

\* Mutant: hi itself is excluded.
BeyondOrAt(k) == k >= scan.hi
Beyond(k) == k > scan.hi

\* scanLeaf's loop: visit an entry, stop beyond hi, or go on to the next leaf.
ScanEntry ==
  LET n == nodes[scan.pid]
      more == scan.i < keyCount(n)
      stop == more /\ Beyond(keyAt(n, scan.i))
  IN  /\ scan.pc = "entry"
      /\ IF more /\ ~stop
         THEN /\ scan' = [scan EXCEPT !.pc = "callback",
                            !.seen = Append(@, <<keyAt(n, scan.i), tidAt(n, scan.i)>>)]
              /\ UNCHANGED pool
         ELSE /\ Unpin(scan.pid, FALSE, changed)
              /\ scan' = IF stop \/ scan.next = invalidPID
                         THEN [scan EXCEPT !.pc = "done"]
                         ELSE [scan EXCEPT !.pc = "leaf", !.pid = scan.next]
      /\ UNCHANGED <<treeVars, call, stack, ghosts, faults>>

\* fn returned: nil, or an error that ends the scan.
CallbackReturns ==
  /\ scan.pc = "callback" /\ call = NoCall
  /\ \/ scan' = [scan EXCEPT !.pc = "entry", !.i = @ + 1] /\ UNCHANGED pool
     \/ scan' = NoScan /\ Unpin(scan.pid, FALSE, changed)
  /\ UNCHANGED <<treeVars, call, stack, ghosts, faults>>

ScanReturns ==
  /\ scan.pc = "done"
  /\ scan' = NoScan
  /\ UNCHANGED <<treeVars, call, stack, pool, ghosts, faults>>

-----------------------------------------------------------------------------
InsertInto == FetchFails \/ VisitInternal \/ LeafDuplicate \/ LeafInsert
              \/ splitLeafNode \/ splitLeafFails
Unwind == PassUp \/ Absorb \/ splitInternalNode \/ splitInternalFails
AtRoot == InsertErrors \/ InsertDone \/ NewRoot \/ SetRoot \/ RootFails
Scanning == ScanFetch \/ ScanFetchFails \/ ScanEntry \/ CallbackReturns \/ ScanReturns

Next ==
  \/ Bootstrap \/ OpenExisting \/ Close
  \/ \E e \in Entry : Insert(e[1], e[2])
  \/ InsertInto \/ Unwind \/ AtRoot \/ Overrun \/ Halted
  \/ \E r \in Bounds : Scan(r[1], r[2])
  \/ Scanning

Spec == Init /\ [][Next]_vars

-----------------------------------------------------------------------------
(* Properties.                                                             *)

Resting == opened /\ call = NoCall
Sound == Resting /\ ~damaged

\* The type of the file, the calls and the pool's view.
TypeOK ==
  /\ meta \in {Absent, BadMagic} \cup (PID \ {0}) /\ opened \in BOOLEAN
  /\ \A p \in DOMAIN nodes : LET n == nodes[p] IN
       /\ n.keys \in Seq(Key) /\ n.next \in PID
       /\ IF n.leaf THEN n.tids \in Seq(TID) /\ Len(n.tids) = keyCount(n)
                    ELSE n.kids \in Seq(DOMAIN nodes) /\ Len(n.kids) = keyCount(n) + 1
  /\ Len(nodes) <= MaxPID
  /\ call.pc \in {"idle", "into", "splitLeaf", "return", "splitInternal", "setRoot",
                  "overrun"}
  /\ scan.pc \in {"off", "leaf", "entry", "callback", "done"}
  /\ pins \in [PID -> Nat] /\ changed \subseteq PID
  /\ DOMAIN acked \subseteq Key /\ faults \in 0 .. MaxFaults

\* A tree that opens has a root, whatever failed while its file was laid out:
\* an index whose bootstrap did not get as far as the leaf is refused.
OpenMeansRooted == opened => root \in DOMAIN nodes

\* The pages that the code holds at this point.
Held(p) ==
  Cardinality({d \in DOMAIN stack : stack[d].pid = p})
  + (IF call.pc = "splitLeaf" /\ call.pid = p THEN 1 ELSE 0)
  + (IF scan.pc \in {"entry", "callback"} /\ scan.pid = p THEN 1 ELSE 0)

\* Every pin is released exactly once, on success, on each error path and when
\* a callback inserts: a page is pinned as often as the code still holds it.
PinsBalanced == \A p \in PID : pins[p] = Held(p)

\* The levels of the tree, along its left edge.
Height ==
  LET up[q \in DOMAIN nodes] == IF nodes[q].leaf THEN 1 ELSE 1 + up[nodes[q].kids[1]]
  IN  up[root]
\* The frames that the page asked for next needs, with those already pinned.
FramesNeeded ==
  Cardinality({p \in PID : pins[p] > 0}
              \cup (IF call.pc = "into" THEN {call.pid} ELSE {NewPID}))

\* "the pool must have more frames than the tree is tall" (NewBTree): one more is
\* enough for every descent and every split, so a pool that refuses only when
\* all its frames are pinned never fails an Insert; called from a Scan's
\* callback, Insert needs a second one for the leaf that the Scan holds.
FramesSuffice ==
  call.pc \in {"into", "splitLeaf", "splitInternal"} =>
    FramesNeeded <= Height + (IF scan.pc = "callback" THEN 2 ELSE 1)

\* No change is dropped by the pool: a page that was changed is unpinned dirty
\* by somebody before its last pin goes, on error paths too.
EveryChangeReported == \A p \in changed : pins[p] > 0

\* Search answers exactly the entries whose Insert returned nil, whatever
\* splits happened and whatever descents failed on the way, and Insert answers
\* ErrDuplicateKey only for one of them.
AnswersAgree ==
  /\ Sound => \A k \in Key : Search(k) = {acked[j] : j \in DOMAIN acked \cap {k}}
  /\ ~damaged /\ call.err = "duplicate" => call.key \in DOMAIN acked

\* A split leaves each half about half full, and only the root is exempt.
HalfFull ==
  Sound => \A p \in DOMAIN nodes \ {root} :
    keyCount(nodes[p]) >= (IF nodes[p].leaf THEN leafCap ELSE internalCap - 1) \div 2

\* The entries with lo <= key <= hi, in key order.
InRange(S) == {k \in S : scan.lo <= k /\ k <= scan.hi}
KeysSeen == {scan.seen[i][1] : i \in DOMAIN scan.seen}

\* A Scan whose callback does not insert visits exactly the entries of
\* [lo, hi], in key order, each with its TID.
ScanExact ==
  scan.pc = "done" /\ scan.quiet /\ ~damaged =>
    /\ KeysSeen = InRange(DOMAIN acked)
    /\ \A i \in DOMAIN scan.seen :
         /\ scan.seen[i][2] = acked[scan.seen[i][1]]
         /\ i > 1 => scan.seen[i - 1][1] < scan.seen[i][1]

\* Even while its callback inserts, a Scan shows only entries that are stored.
ScanShowsStored ==
  ~damaged /\ call = NoCall =>
    \A i \in DOMAIN scan.seen :
      /\ scan.seen[i][1] \in DOMAIN acked
      /\ scan.seen[i][2] = acked[scan.seen[i][1]]

\* "a resting node holds fewer than capacity keys", so that an insert always
\* fits first (full's comment in node.go).
RestingNodesHaveRoom == Resting => \A p \in DOMAIN nodes : ~full(nodes[p])

\* Search "reports whether the key exists": a key whose Insert returned nil is
\* found from then on, even if a later Insert fails.
StoredKeysFound == Resting => \A k \in DOMAIN acked : Search(k) = {acked[k]}

=============================================================================
