------------------------------ MODULE BTreeNode ------------------------------
(***************************************************************************)
(* The node operations of internal/access/nbtree/node.go as operators.  A  *)
(* node is its live contents: the bytes past key_count are never read.     *)
(* Positions are the code's, from 0.                                       *)
(***************************************************************************)
EXTENDS Integers, Sequences

CONSTANTS leafCap, internalCap   \* key capacities (584 and 681 in the code)

ASSUME CapAssumption == leafCap \in Nat \ {0, 1} /\ internalCap \in Nat \ {0, 1}

invalidPID == 0

initLeaf == [leaf |-> TRUE, keys |-> <<>>, tids |-> <<>>, next |-> invalidPID]
initInternal == [leaf |-> FALSE, keys |-> <<>>, kids |-> <<>>, next |-> invalidPID]

keyCount(n) == Len(n.keys)
keyAt(n, i) == n.keys[i + 1]
childAt(n, i) == n.kids[i + 1]
tidAt(n, i) == n.tids[i + 1]

\* A window [lo, hi) of the binary search.
Windows(n) == [lo : 0 .. keyCount(n), hi : 0 .. keyCount(n)]

\* Mutant: the loop compares with <=, an upper bound.
narrowUpper(n, key, w) ==
  LET mid == (w.lo + w.hi) \div 2
  IN  IF keyAt(n, mid) <= key THEN [w EXCEPT !.lo = mid + 1] ELSE [w EXCEPT !.hi = mid]
\* One round of the loop.
narrow(n, key, w) ==
  LET mid == (w.lo + w.hi) \div 2
  IN  IF keyAt(n, mid) < key THEN [w EXCEPT !.lo = mid + 1] ELSE [w EXCEPT !.hi = mid]

\* search: the binary search's idx ...
search(n, key) ==
  LET half[w \in Windows(n)] == IF w.lo < w.hi THEN half[narrow(n, key, w)] ELSE w.lo
  IN  half[[lo |-> 0, hi |-> keyCount(n)]]

\* ... and its found.
found(n, key) == LET i == search(n, key) IN i < keyCount(n) /\ keyAt(n, i) = key

\* Mutant: a key equal to a separator descends left.
childIndexLeft(n, key) == search(n, key)
childIndex(n, key) == search(n, key) + (IF found(n, key) THEN 1 ELSE 0)

full(n) == keyCount(n) >= (IF n.leaf THEN leafCap ELSE internalCap)

\* The array s with e stored at slot i and the slots from i on moved up by one.
shiftIn(s, i, e) ==
  [j \in 1 .. Len(s) + 1 |->
     IF j <= i THEN s[j] ELSE IF j = i + 1 THEN e ELSE s[j - 1]]

\* Mutant: the TIDs are not shifted with the keys.
insertLeafUnshifted(n, i, key, tid) ==
  [n EXCEPT !.keys = shiftIn(@, i, key), !.tids = Append(@, tid)]
insertLeafAt(n, i, key, tid) ==
  [n EXCEPT !.keys = shiftIn(@, i, key), !.tids = shiftIn(@, i, tid)]

insertInternalAt(n, i, key, right) ==
  [n EXCEPT !.keys = shiftIn(@, i, key), !.kids = shiftIn(@, i + 1, right)]

\* Mutant: the middle is off by one.
splitLeafLow(n, right) ==
  LET cnt == keyCount(n)
      mid == cnt \div 2 - 1
  IN  [left  |-> [n EXCEPT !.keys = SubSeq(@, 1, mid), !.tids = SubSeq(@, 1, mid)],
       right |-> [right EXCEPT !.keys = SubSeq(n.keys, mid + 1, cnt),
                               !.tids = SubSeq(n.tids, mid + 1, cnt)]]

\* The two halves of a leaf: [0, mid) stays, [mid, cnt) moves to the right.
splitLeaf(n, right) ==
  LET cnt == keyCount(n)
      mid == cnt \div 2
  IN  [left  |-> [n EXCEPT !.keys = SubSeq(@, 1, mid), !.tids = SubSeq(@, 1, mid)],
       right |-> [right EXCEPT !.keys = SubSeq(n.keys, mid + 1, cnt),
                               !.tids = SubSeq(n.tids, mid + 1, cnt)]]

\* Mutant: the first child of the right half is dropped.
splitInternalDrops(n, right) ==
  LET cnt == keyCount(n)
      mid == cnt \div 2
  IN  [left  |-> [n EXCEPT !.keys = SubSeq(@, 1, mid), !.kids = SubSeq(@, 1, mid + 1)],
       right |-> [right EXCEPT !.keys = SubSeq(n.keys, mid + 2, cnt),
                               !.kids = SubSeq(n.kids, mid + 3, cnt + 1)],
       upKey |-> keyAt(n, mid)]

\* The middle key moves up; n keeps mid keys and mid + 1 children.
splitInternal(n, right) ==
  LET cnt == keyCount(n)
      mid == cnt \div 2
  IN  [left  |-> [n EXCEPT !.keys = SubSeq(@, 1, mid), !.kids = SubSeq(@, 1, mid + 1)],
       right |-> [right EXCEPT !.keys = SubSeq(n.keys, mid + 2, cnt),
                               !.kids = SubSeq(n.kids, mid + 2, cnt + 1)],
       upKey |-> keyAt(n, mid)]

=============================================================================
