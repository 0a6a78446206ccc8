---------------------------- MODULE NBTreeLemmas ----------------------------
(***************************************************************************)
(* What the proofs about the B+Tree rest on: recursion on a falling        *)
(* measure, the binary search, what each node operation returns, the       *)
(* inductive invariant of the tree's control, and the steps of Insert that *)
(* change no page.                                                         *)
(***************************************************************************)
EXTENDS NBTree, TLAPS

(* Sequences.                                                              *)

\* A sequence is a function on 1 .. Len.
LEMMA LenProperties ==
  ASSUME NEW T, NEW s \in Seq(T)
  PROVE  Len(s) \in Nat /\ DOMAIN s = 1 .. Len(s) /\ s \in [1 .. Len(s) -> T]
  OBVIOUS

\* The elements of a sequence are in the set it is over.
LEMMA ElementOfSeq ==
  ASSUME NEW T, NEW s \in Seq(T), NEW i \in 1 .. Len(s)
  PROVE  s[i] \in T
  OBVIOUS

\* The empty sequence has length zero, and no other has.
LEMMA EmptySeq ==
  ASSUME NEW T
  PROVE  <<>> \in Seq(T) /\ Len(<<>>) = 0 /\ \A s \in Seq(T) : s # <<>> => Len(s) \in Nat \ {0}
  OBVIOUS

\* Append adds one element at the end.
LEMMA AppendProperties ==
  ASSUME NEW T, NEW s \in Seq(T), NEW e \in T
  PROVE  LET t == Append(s, e)
         IN  /\ t \in Seq(T) /\ t # <<>> /\ Len(t) = Len(s) + 1
             /\ t[Len(s) + 1] = e /\ \A i \in 1 .. Len(s) : t[i] = s[i]
  OBVIOUS

\* Replacing an element keeps a sequence and its length.
LEMMA ExceptSeq ==
  ASSUME NEW T, NEW s \in Seq(T), NEW i \in 1 .. Len(s), NEW e \in T
  PROVE  LET t == [s EXCEPT ![i] = e]
         IN  /\ t \in Seq(T) /\ Len(t) = Len(s)
             /\ \A j \in 1 .. Len(s) : t[j] = IF j = i THEN e ELSE s[j]
  OBVIOUS

\* A sequence over a set is one over every larger set.
LEMMA SeqMonotonic ==
  ASSUME NEW T, NEW U, T \subseteq U, NEW s \in Seq(T)
  PROVE  s \in Seq(U)
  OBVIOUS

\* The elements of a slice.
LEMMA SubSeqProperties ==
  ASSUME NEW T, NEW s, NEW a \in Int, NEW b \in Int, \A i \in a .. b : s[i] \in T
  PROVE  LET t == SubSeq(s, a, b)
         IN  /\ t \in Seq(T) /\ Len(t) = IF a <= b THEN b - a + 1 ELSE 0
             /\ \A i \in 1 .. b - a + 1 : t[i] = s[a + i - 1]
  OBVIOUS

\* Sequences with the same elements are equal.
LEMMA SeqEqual ==
  ASSUME NEW T, NEW s \in Seq(T), NEW t \in Seq(T), Len(s) = Len(t),
         \A i \in 1 .. Len(s) : s[i] = t[i]
  PROVE  s = t
  OBVIOUS

-----------------------------------------------------------------------------
(* Induction and recursion, for sets instead of predicates.                *)

\* Finite sets and their sizes, under names of this module's own.
Fin(S) == IsFiniteSet(S)
Card(S) == Cardinality(S)

\* The image of a finite set is no larger.
Images == \A f, S, T : Fin(S) /\ T = {f[x] : x \in S} => Fin(T) /\ Card(T) <= Card(S)

\* What the lemmas use of the theorem libraries on natural numbers and finite
\* sets: a hypothesis here, and a lemma of NBTreeProofs.
Library ==
  /\ \A T \in SUBSET Nat : T # {} => \E x \in T : \A y \in T : x <= y
  /\ Fin({}) /\ Card({}) = 0
  /\ \A S : Fin(S) => Card(S) \in Nat
  /\ \A S, x : Fin(S) => Fin(S \cup {x}) /\ (x \notin S => Card(S \cup {x}) = Card(S) + 1)
  /\ \A S, T : Fin(T) /\ S \in SUBSET T => Fin(S) /\ Card(S) <= Card(T)
  /\ \A m \in Nat : Fin(1 .. m) /\ Card(1 .. m) = m
  /\ Images

\* The empty set has no elements.
LEMMA CardEmpty ==
  ASSUME Library
  PROVE  IsFiniteSet({}) /\ Cardinality({}) = 0
  BY DEF Library, Fin, Card

\* The size of a finite set is a natural number.
LEMMA CardType ==
  ASSUME Library, NEW S, IsFiniteSet(S)
  PROVE  Cardinality(S) \in Nat
  BY DEF Library, Fin, Card

\* A new element makes a finite set larger by one.
LEMMA CardAdd ==
  ASSUME Library, NEW S, IsFiniteSet(S), NEW x
  PROVE  IsFiniteSet(S \cup {x}) /\ (x \notin S => Cardinality(S \cup {x}) = Cardinality(S) + 1)
  BY DEF Library, Fin, Card

\* A subset is no larger.
LEMMA CardSubset ==
  ASSUME Library, NEW T, IsFiniteSet(T), NEW S \in SUBSET T
  PROVE  IsFiniteSet(S) /\ Cardinality(S) <= Cardinality(T)
  BY DEF Library, Fin, Card

\* 1 .. m has m elements.
LEMMA CardInterval ==
  ASSUME Library, NEW m \in Nat
  PROVE  IsFiniteSet(1 .. m) /\ Cardinality(1 .. m) = m
  BY DEF Library, Fin, Card

\* The image of a finite set is no larger.
LEMMA CardImage ==
  ASSUME Library, NEW S, IsFiniteSet(S), NEW f, NEW T, T = {f[x] : x \in S}
  PROVE  IsFiniteSet(T) /\ Cardinality(T) <= Cardinality(S)
<1>1. Fin(S)
  BY DEF Fin
<1>2. Images
  BY DEF Library
<1>3. Fin(T) /\ Card(T) <= Card(S)
  BY <1>1, <1>2, Zenon DEF Images
<1> QED
  BY <1>3 DEF Fin, Card

\* Each set of natural numbers that is not empty has a least element.
LEMMA LeastNat ==
  ASSUME Library, NEW T \in SUBSET Nat, T # {}
  PROVE  \E x \in T : \A y \in T : x <= y
  BY DEF Library

\* A set with 0 and every successor is all of Nat.
LEMMA NatSet ==
  ASSUME Library, NEW T \in SUBSET Nat, 0 \in T, \A n \in T : n + 1 \in T
  PROVE  T = Nat
<1>1. SUFFICES ASSUME Nat \ T # {} PROVE FALSE
  OBVIOUS
<1>2. PICK x \in Nat \ T : \A y \in Nat \ T : x <= y
  <2>1. Nat \ T \in SUBSET Nat
    OBVIOUS
  <2> QED
    BY <1>1, <2>1, LeastNat
<1>3. x - 1 \in Nat /\ x - 1 \in T
  BY <1>2
<1> QED
  BY <1>2, <1>3

\* f computes the loop that leaves at Stop with out and otherwise goes on with nxt.
Loops(f, S, Stop, out, nxt) == f = [q \in S |-> IF q \in Stop THEN out[q] ELSE f[nxt[q]]]

\* The measure of the loop: it falls in each round.
Falls(S, Stop, nxt, rank) ==
  /\ nxt \in [S -> S] /\ rank \in [S -> Nat]
  /\ \A q \in S \ Stop : rank[nxt[q]] < rank[q]

\* A loop whose measure falls and is bounded computes a function.
LEMMA LoopDefined ==
  ASSUME Library, NEW S, NEW Stop, NEW out, NEW nxt, NEW rank, NEW N \in Nat,
         Falls(S, Stop, nxt, rank), \A q \in S : rank[q] < N
  PROVE  \E f : Loops(f, S, Stop, out, nxt)
<1> DEFINE Good(f, n) ==
      \A q \in S : rank[q] < n => f[q] = IF q \in Stop THEN out[q] ELSE f[nxt[q]]
<1> DEFINE T == {n \in Nat : \E f : Good(f, n)}
<1>1. 0 \in T
  <2>1. Good(out, 0)
    BY DEF Falls
  <2> QED
    BY <2>1
<1>2. ASSUME NEW n \in T PROVE n + 1 \in T
  <2>1. PICK f : Good(f, n)
    OBVIOUS
  <2> DEFINE g == [q \in S |-> IF q \in Stop THEN out[q] ELSE f[nxt[q]]]
  <2>2. ASSUME NEW q \in S, rank[q] < n + 1
        PROVE  g[q] = IF q \in Stop THEN out[q] ELSE g[nxt[q]]
    <3>1. CASE q \in Stop
      BY <3>1
    <3>2. CASE q \notin Stop
      <4>1. nxt[q] \in S /\ rank[nxt[q]] < n
        BY <2>2, <3>2 DEF Falls
      <4>2. g[nxt[q]] = f[nxt[q]]
        BY <2>1, <4>1
      <4> QED
        BY <3>2, <4>2
    <3> QED
      BY <3>1, <3>2
  <2>3. Good(g, n + 1)
    BY <2>2
  <2> HIDE DEF g, Good
  <2> QED
    BY <2>3
<1>3. T = Nat
  <2> HIDE DEF T
  <2>1. T \in SUBSET Nat
    BY DEF T
  <2> QED
    BY <1>1, <1>2, <2>1, NatSet
<1>4. PICK f : Good(f, N)
  BY <1>3
<1> DEFINE h == [q \in S |-> f[q]]
<1>5. \A q \in S : nxt[q] \in S /\ (h[q] = IF q \in Stop THEN out[q] ELSE h[nxt[q]])
  BY <1>4 DEF Falls
<1>6. h = [q \in S |-> IF q \in Stop THEN out[q] ELSE h[nxt[q]]]
  BY <1>5
<1> HIDE DEF h
<1> QED
  BY <1>6 DEF Loops

\* The loop's invariant: it stays in G, and where it stops in G its result is in O.
Keeps(G, S, Stop, out, nxt, O) ==
  /\ G \subseteq S
  /\ \A q \in G : IF q \in Stop THEN out[q] \in O ELSE nxt[q] \in G

\* A loop that starts in G ends in O.
LEMMA LoopResult ==
  ASSUME Library, NEW S, NEW Stop, NEW out, NEW nxt, NEW rank, NEW f, NEW G, NEW O,
         Falls(S, Stop, nxt, rank), Loops(f, S, Stop, out, nxt),
         Keeps(G, S, Stop, out, nxt, O)
  PROVE  \A q \in G : f[q] \in O
<1>1. SUFFICES ASSUME NEW b \in G, f[b] \notin O PROVE FALSE
  OBVIOUS
<1> USE DEF Keeps
<1> DEFINE Bad == {n \in Nat : \E q \in G : n = rank[q] /\ f[q] \notin O}
<1>2. Bad # {} /\ Bad \in SUBSET Nat
  BY <1>1 DEF Falls
<1>3. PICK n \in Bad : \A m \in Bad : n <= m
  <2> HIDE DEF Bad
  <2> QED
    BY <1>2, LeastNat
<1>4. PICK q \in G : n = rank[q] /\ f[q] \notin O
  BY <1>3
<1>5. q \notin Stop /\ f[q] = f[nxt[q]]
  BY <1>4 DEF Loops
<1>6. nxt[q] \in G /\ rank[nxt[q]] \in Nat /\ rank[nxt[q]] < n
  BY <1>4, <1>5 DEF Falls
<1>7. rank[nxt[q]] \in Bad
  BY <1>4, <1>5, <1>6
<1> QED
  BY <1>3, <1>6, <1>7

-----------------------------------------------------------------------------
(* The binary search.                                                      *)

\* A round of the loop stays inside the window and makes it smaller.
LEMMA NarrowFacts ==
  ASSUME NEW n, NEW key, n.keys \in Seq(Int), NEW w \in Windows(n), w.lo < w.hi
  PROVE  LET mid == (w.lo + w.hi) \div 2
             v == narrow(n, key, w)
         IN  /\ mid \in Nat /\ w.lo <= mid /\ mid < w.hi
             /\ v \in Windows(n) /\ v.lo <= v.hi /\ v.hi - v.lo < w.hi - w.lo
             /\ keyAt(n, mid) < key => v.lo = mid + 1 /\ v.hi = w.hi
             /\ ~(keyAt(n, mid) < key) => v.lo = w.lo /\ v.hi = mid
<1> DEFINE mid == (w.lo + w.hi) \div 2
<1>1. /\ Len(n.keys) \in Nat /\ w.lo \in 0 .. Len(n.keys) /\ w.hi \in 0 .. Len(n.keys)
      /\ w = [lo |-> w.lo, hi |-> w.hi]
  BY LenProperties DEF Windows, keyCount
<1>2. mid \in Nat /\ w.lo <= mid /\ mid < w.hi
  BY <1>1
<1>3. CASE keyAt(n, mid) < key
  <2>1. narrow(n, key, w) = [w EXCEPT !.lo = mid + 1]
    BY <1>3 DEF narrow
  <2> HIDE DEF mid
  <2>2. narrow(n, key, w) = [lo |-> mid + 1, hi |-> w.hi]
    BY <1>1, <2>1
  <2>3. /\ [lo |-> mid + 1, hi |-> w.hi] \in Windows(n)
        /\ mid + 1 <= w.hi /\ w.hi - (mid + 1) < w.hi - w.lo
    BY <1>1, <1>2 DEF Windows, keyCount
  <2> QED
    BY <1>2, <1>3, <2>2, <2>3 DEF mid
<1>4. CASE ~(keyAt(n, mid) < key)
  <2>1. narrow(n, key, w) = [w EXCEPT !.hi = mid]
    BY <1>4 DEF narrow
  <2> HIDE DEF mid
  <2>2. narrow(n, key, w) = [lo |-> w.lo, hi |-> mid]
    BY <1>1, <2>1
  <2>3. /\ [lo |-> w.lo, hi |-> mid] \in Windows(n)
        /\ w.lo <= mid /\ mid - w.lo < w.hi - w.lo
    BY <1>1, <1>2 DEF Windows, keyCount
  <2> QED
    BY <1>2, <1>4, <2>2, <2>3 DEF mid
<1> QED
  BY <1>3, <1>4

\* The loop of search, with its measure.
Shut(n) == {w \in Windows(n) : ~(w.lo < w.hi)}
Round(n, key) == [w \in Windows(n) |-> IF w.lo < w.hi THEN narrow(n, key, w) ELSE w]
Width(n) == [w \in Windows(n) |-> IF w.lo < w.hi THEN w.hi - w.lo ELSE 0]
Low(n) == [w \in Windows(n) |-> w.lo]

\* The binary search of search ends, for its window shrinks, and returns the
\* low end of the last window.
LEMMA SearchLoop ==
  ASSUME Library, NEW n, NEW key, n.keys \in Seq(Int)
  PROVE  /\ Falls(Windows(n), Shut(n), Round(n, key), Width(n))
         /\ \E f : /\ Loops(f, Windows(n), Shut(n), Low(n), Round(n, key))
                   /\ search(n, key) = f[[lo |-> 0, hi |-> keyCount(n)]]
<1> DEFINE W == Windows(n)
<1>0. Len(n.keys) \in Nat /\ \A w \in W : w.lo \in 0 .. Len(n.keys) /\ w.hi \in 0 .. Len(n.keys)
  BY LenProperties DEF Windows, keyCount
<1>1. Falls(W, Shut(n), Round(n, key), Width(n))
  <2>1. Width(n) \in [W -> Nat]
    BY <1>0 DEF Width
  <2>2. Round(n, key) \in [W -> W]
    BY NarrowFacts DEF Round
  <2>3. ASSUME NEW w \in W \ Shut(n) PROVE Width(n)[Round(n, key)[w]] < Width(n)[w]
    <3>1. w.lo < w.hi
      BY DEF Shut
    <3> DEFINE v == narrow(n, key, w)
    <3>2. v \in W /\ v.hi - v.lo < w.hi - w.lo /\ Round(n, key)[w] = v
      BY <3>1, NarrowFacts DEF Round
    <3> HIDE DEF v
    <3> QED
      BY <1>0, <3>1, <3>2 DEF Width
  <2> QED
    BY <2>1, <2>2, <2>3 DEF Falls
<1>2. \A w \in W : Width(n)[w] < Len(n.keys) + 1
  BY <1>0 DEF Width
<1>3. PICK g : Loops(g, W, Shut(n), Low(n), Round(n, key))
  <2>1. Len(n.keys) + 1 \in Nat
    BY <1>0
  <2> HIDE DEF W
  <2> QED
    BY <1>1, <1>2, <2>1, LoopDefined
<1> DEFINE Eq(f) == f = [w \in W |-> IF w.lo < w.hi THEN f[narrow(n, key, w)] ELSE w.lo]
<1>4. \A f : Eq(f) <=> Loops(f, W, Shut(n), Low(n), Round(n, key))
  BY DEF Loops, Shut, Low, Round
<1>5. search(n, key) = (CHOOSE f : Eq(f))[[lo |-> 0, hi |-> keyCount(n)]]
  BY Zenon DEF search
<1>6. Eq(CHOOSE f : Eq(f))
  <2>1. \E f : Eq(f)
    BY <1>3, <1>4
  <2> HIDE DEF Eq
  <2> QED
    BY <2>1, Zenon
<1> HIDE DEF Eq, W
<1> QED
  BY <1>1, <1>4, <1>5, <1>6, Zenon DEF W

\* search answers a position of the node, whatever its keys are.
LEMMA SearchRange ==
  ASSUME Library, NEW n, NEW key, n.keys \in Seq(Int)
  PROVE  /\ search(n, key) \in 0 .. keyCount(n)
         /\ childIndex(n, key) \in 0 .. keyCount(n)
         /\ keyCount(n) \in Nat
<1> DEFINE W == Windows(n)
<1>1. PICK f : /\ Loops(f, W, Shut(n), Low(n), Round(n, key))
               /\ search(n, key) = f[[lo |-> 0, hi |-> keyCount(n)]]
  BY SearchLoop
<1>2. \A w \in W : w \in Shut(n) => Low(n)[w] \in 0 .. keyCount(n)
  BY DEF Low, Windows
<1>3. Round(n, key) \in [W -> W] /\ Falls(W, Shut(n), Round(n, key), Width(n))
  BY SearchLoop DEF Falls
<1>4. [lo |-> 0, hi |-> keyCount(n)] \in W /\ keyCount(n) \in Nat
  BY LenProperties DEF Windows, keyCount
<1>5. search(n, key) \in 0 .. keyCount(n)
  <2> DEFINE O == 0 .. keyCount(n)
  <2>0. Keeps(W, W, Shut(n), Low(n), Round(n, key), O)
    BY <1>2, <1>3 DEF Keeps
  <2> HIDE DEF W, O
  <2>1. \A w \in W : f[w] \in O
    BY <1>1, <1>3, <2>0, LoopResult
  <2> USE DEF O
  <2> QED
    BY <1>1, <1>4, <2>1
<1> QED
  BY <1>4, <1>5 DEF childIndex, found

Increasing(s) == \A i, j \in DOMAIN s : i < j => s[i] < s[j]

\* In a node whose keys increase, search is the number of keys below key.
LEMMA SearchSorted ==
  ASSUME Library, NEW n, NEW key \in Int, n.keys \in Seq(Int), Increasing(n.keys)
  PROVE  \A i \in 1 .. keyCount(n) : i <= search(n, key) <=> n.keys[i] < key
<1> DEFINE W == Windows(n)
           s == n.keys
           c == keyCount(n)
           Splits(lo, hi) == /\ \A i \in 1 .. c : i <= lo => s[i] < key
                             /\ \A i \in 1 .. c : i > hi => ~(s[i] < key)
           G == {w \in W : w.lo <= w.hi /\ Splits(w.lo, w.hi)}
           O == {x \in 0 .. c : Splits(x, x)}
<1>1. PICK f : /\ Loops(f, W, Shut(n), Low(n), Round(n, key))
               /\ search(n, key) = f[[lo |-> 0, hi |-> keyCount(n)]]
  BY SearchLoop
<1>2. /\ c \in Nat /\ DOMAIN s = 1 .. c /\ \A i \in 1 .. c : s[i] \in Int
      /\ \A i, j \in 1 .. c : i < j => s[i] < s[j]
  BY LenProperties, ElementOfSeq DEF keyCount, Increasing
<1>3. \A w \in G : w \in Shut(n) => Low(n)[w] \in O
  BY <1>2 DEF Low, Windows, Shut
<1>4. ASSUME NEW w \in G, w \notin Shut(n) PROVE Round(n, key)[w] \in G
  <2> DEFINE mid == (w.lo + w.hi) \div 2
             v == narrow(n, key, w)
  <2>1. w \in W /\ w.lo < w.hi /\ Splits(w.lo, w.hi)
    BY <1>4 DEF Shut
  <2>2. /\ Round(n, key)[w] = v
        /\ mid \in Nat /\ w.lo <= mid /\ mid < w.hi
        /\ v \in Windows(n) /\ v.lo <= v.hi
        /\ keyAt(n, mid) < key => v.lo = mid + 1 /\ v.hi = w.hi
        /\ ~(keyAt(n, mid) < key) => v.lo = w.lo /\ v.hi = mid
    BY <2>1, NarrowFacts DEF Round
  <2>3. w.hi \in 0 .. c
    BY <2>1 DEF Windows
  <2> HIDE DEF mid, v, s, c
  <2>4. mid + 1 \in 1 .. c /\ keyAt(n, mid) = s[mid + 1]
    BY <2>2, <2>3, <1>2 DEF keyAt, s
  <2>5. \A i \in 1 .. c : /\ i <= mid => s[i] < s[mid + 1]
                          /\ i > mid + 1 => s[mid + 1] < s[i]
    BY <1>2, <2>2, <2>4
  <2>6. Splits(v.lo, v.hi)
    <3>1. CASE s[mid + 1] < key
      <4>1. v.lo = mid + 1 /\ v.hi = w.hi
        BY <2>2, <2>4, <3>1
      <4>2. \A i \in 1 .. mid + 1 : i \in 1 .. c => s[i] < key
        <5> SUFFICES ASSUME NEW i \in 1 .. mid + 1, i \in 1 .. c PROVE s[i] < key
          OBVIOUS
        <5>1. s[i] \in Int /\ s[mid + 1] \in Int
          BY <1>2, <2>4
        <5>2. i = mid + 1 \/ i <= mid
          BY <2>2
        <5> QED
          BY <2>5, <3>1, <5>1, <5>2
      <4> QED
        BY <2>1, <2>2, <2>4, <4>1, <4>2
    <3>2. CASE ~(s[mid + 1] < key)
      <4>1. v.lo = w.lo /\ v.hi = mid
        BY <2>2, <2>4, <3>2
      <4>2. \A i \in 1 .. c : i > mid => ~(s[i] < key)
        BY <1>2, <2>2, <2>4, <2>5, <3>2
      <4> QED
        BY <2>1, <4>1, <4>2
    <3> QED
      BY <3>1, <3>2
  <2> QED
    BY <2>2, <2>6
<1>5. [lo |-> 0, hi |-> c] \in G
  <2>1. [lo |-> 0, hi |-> c] \in W
    BY <1>2 DEF Windows
  <2> QED
    BY <1>2, <2>1
<1>6. Falls(W, Shut(n), Round(n, key), Width(n))
  BY SearchLoop
<1>7. search(n, key) \in O
  <2>1. Keeps(G, W, Shut(n), Low(n), Round(n, key), O)
    BY <1>3, <1>4 DEF Keeps
  <2> HIDE DEF W, G, O
  <2>2. \A w \in G : f[w] \in O
    BY <1>1, <1>6, <2>1, LoopResult
  <2> QED
    BY <1>1, <1>5, <2>2
<1> QED
  BY <1>2, <1>7

\* found tells whether the key is there; childIndex counts the keys up to key.
LEMMA FoundSorted ==
  ASSUME Library, NEW n, NEW key \in Int, n.keys \in Seq(Int), Increasing(n.keys)
  PROVE  /\ found(n, key) <=> \E i \in 1 .. keyCount(n) : n.keys[i] = key
         /\ found(n, key) => search(n, key) + 1 \in 1 .. keyCount(n)
                             /\ n.keys[search(n, key) + 1] = key
         /\ \A i \in 1 .. keyCount(n) : i <= childIndex(n, key) <=> n.keys[i] <= key
<1> DEFINE x == search(n, key)
           c == keyCount(n)
           s == n.keys
<1>1. /\ x \in 0 .. c /\ c \in Nat /\ DOMAIN s = 1 .. c /\ \A i \in 1 .. c : s[i] \in Int
      /\ \A i, j \in 1 .. c : i < j => s[i] < s[j]
  BY SearchRange, LenProperties, ElementOfSeq DEF keyCount, Increasing
<1>2. \A i \in 1 .. c : i <= x <=> s[i] < key
  BY SearchSorted
<1>3. found(n, key) <=> x < c /\ s[x + 1] = key
  BY DEF found, keyAt
<1>4. childIndex(n, key) = IF found(n, key) THEN x + 1 ELSE x
  BY <1>1 DEF childIndex
<1> HIDE DEF x, c, s
<1>5. ASSUME NEW i \in 1 .. c, s[i] = key PROVE i = x + 1
  <2>1. ~(i <= x)
    BY <1>1, <1>2, <1>5
  <2>2. x + 1 \in 1 .. c
    BY <1>1, <2>1
  <2>3. ~(s[x + 1] < key)
    BY <1>1, <1>2, <2>2
  <2> QED
    BY <1>1, <1>5, <2>1, <2>2, <2>3
<1>6. found(n, key) <=> \E i \in 1 .. c : s[i] = key
  BY <1>1, <1>3, <1>5
<1>7. ASSUME NEW i \in 1 .. c PROVE i <= childIndex(n, key) <=> s[i] <= key
  BY <1>1, <1>2, <1>3, <1>4, <1>5
<1> QED
  BY <1>1, <1>3, <1>6, <1>7 DEF x, c, s

-----------------------------------------------------------------------------
(* What the node operations return.                                        *)

LeafNode == {n \in [leaf : {TRUE}, keys : Seq(Key), tids : Seq(TID), next : Nat] :
               Len(n.tids) = Len(n.keys)}
InternalNode == {n \in [leaf : {FALSE}, keys : Seq(Key), kids : Seq(Nat), next : {0}] :
                   Len(n.kids) = Len(n.keys) + 1}

leafNode(keys, tids, next) == [leaf |-> TRUE, keys |-> keys, tids |-> tids, next |-> next]
internalNode(keys, kids) == [leaf |-> FALSE, keys |-> keys, kids |-> kids, next |-> 0]

\* The parts of a leaf, and a leaf from its parts.
LEMMA LeafParts ==
  /\ \A n \in LeafNode : /\ n.leaf /\ n.keys \in Seq(Key) /\ n.tids \in Seq(TID)
                         /\ n.next \in Nat /\ Len(n.tids) = Len(n.keys)
                         /\ n = leafNode(n.keys, n.tids, n.next)
  /\ \A keys \in Seq(Key), tids \in Seq(TID), next \in Nat :
       LET n == leafNode(keys, tids, next)
       IN  /\ Len(tids) = Len(keys) => n \in LeafNode
           /\ n.leaf /\ n.keys = keys /\ n.tids = tids /\ n.next = next
<1>1. ASSUME NEW n \in LeafNode
      PROVE  /\ n.leaf /\ n.keys \in Seq(Key) /\ n.tids \in Seq(TID)
             /\ n.next \in Nat /\ Len(n.tids) = Len(n.keys)
             /\ n = leafNode(n.keys, n.tids, n.next)
  <2>1. /\ n \in [leaf : {TRUE}, keys : Seq(Key), tids : Seq(TID), next : Nat]
        /\ Len(n.tids) = Len(n.keys)
    BY DEF LeafNode
  <2>2. n = [leaf |-> n.leaf, keys |-> n.keys, tids |-> n.tids, next |-> n.next]
    BY <2>1
  <2>3. n.leaf = TRUE
    BY <2>1
  <2>4. n = [leaf |-> TRUE, keys |-> n.keys, tids |-> n.tids, next |-> n.next]
    BY <2>2, <2>3, Zenon
  <2> QED
    BY <2>1, <2>3, <2>4 DEF leafNode
<1>2. ASSUME NEW keys \in Seq(Key), NEW tids \in Seq(TID), NEW next \in Nat
      PROVE  LET n == leafNode(keys, tids, next)
             IN  /\ Len(tids) = Len(keys) => n \in LeafNode
                 /\ n.leaf /\ n.keys = keys /\ n.tids = tids /\ n.next = next
  BY DEF LeafNode, leafNode
<1> QED
  BY <1>1, <1>2

\* An internal node is its keys and its children, one child more than keys.
LEMMA InternalParts ==
  /\ \A n \in InternalNode : /\ ~n.leaf /\ n.keys \in Seq(Key) /\ n.kids \in Seq(Nat)
                             /\ n.next = 0 /\ Len(n.kids) = Len(n.keys) + 1
                             /\ n = internalNode(n.keys, n.kids)
  /\ \A keys \in Seq(Key), kids \in Seq(Nat) :
       LET n == internalNode(keys, kids)
       IN  /\ Len(kids) = Len(keys) + 1 => n \in InternalNode
           /\ ~n.leaf /\ n.keys = keys /\ n.kids = kids /\ n.next = 0
<1>1. ASSUME NEW n \in InternalNode
      PROVE  /\ ~n.leaf /\ n.keys \in Seq(Key) /\ n.kids \in Seq(Nat)
             /\ n.next = 0 /\ Len(n.kids) = Len(n.keys) + 1
             /\ n = internalNode(n.keys, n.kids)
  <2>1. /\ n \in [leaf : {FALSE}, keys : Seq(Key), kids : Seq(Nat), next : {0}]
        /\ Len(n.kids) = Len(n.keys) + 1
    BY DEF InternalNode
  <2>2. n = [leaf |-> n.leaf, keys |-> n.keys, kids |-> n.kids, next |-> n.next]
    BY <2>1
  <2>3. n.leaf = FALSE /\ n.next = 0
    BY <2>1
  <2>4. n = [leaf |-> FALSE, keys |-> n.keys, kids |-> n.kids, next |-> 0]
    BY <2>2, <2>3, Zenon
  <2> QED
    BY <2>1, <2>3, <2>4 DEF internalNode
<1>2. ASSUME NEW keys \in Seq(Key), NEW kids \in Seq(Nat)
      PROVE  LET n == internalNode(keys, kids)
             IN  /\ Len(kids) = Len(keys) + 1 => n \in InternalNode
                 /\ ~n.leaf /\ n.keys = keys /\ n.kids = kids /\ n.next = 0
  BY DEF InternalNode, internalNode
<1> QED
  BY <1>1, <1>2

\* Keys are integers.
LEMMA KeysInt ==
  /\ \A k \in Key : k \in Int
  /\ \A s \in Seq(Key) : s \in Seq(Int)
<1>1. \A k \in Key : k \in Int
  BY KeyAssumption
<1>2. ASSUME NEW s \in Seq(Key) PROVE s \in Seq(Int)
  <2>1. Key \subseteq Int
    BY KeyAssumption
  <2> QED
    BY <2>1, SeqMonotonic
<1> QED
  BY <1>1, <1>2

\* r is s with e in front of the elements from position i on.
Shifted(r, s, i, e) ==
  /\ Len(r) = Len(s) + 1
  /\ \A j \in 1 .. Len(s) + 1 : r[j] = IF j <= i THEN s[j] ELSE IF j = i + 1 THEN e ELSE s[j - 1]

\* What shiftIn, the loops of insertLeafAt and insertInternalAt, stores.
LEMMA ShiftInFacts ==
  ASSUME NEW T, NEW s \in Seq(T), NEW i \in 0 .. Len(s), NEW e \in T
  PROVE  shiftIn(s, i, e) \in Seq(T) /\ Shifted(shiftIn(s, i, e), s, i, e)
<1> DEFINE r == shiftIn(s, i, e)
<1>1. Len(s) \in Nat /\ \A j \in 1 .. Len(s) : s[j] \in T
  BY LenProperties, ElementOfSeq
<1>2. \A j \in 1 .. Len(s) + 1 :
        r[j] = (IF j <= i THEN s[j] ELSE IF j = i + 1 THEN e ELSE s[j - 1])
  BY DEF shiftIn
<1>3. \A j \in 1 .. Len(s) + 1 : r[j] \in T
  BY <1>1, <1>2
<1>4. r = [j \in 1 .. Len(s) + 1 |-> r[j]]
  BY DEF shiftIn
<1> HIDE DEF r
<1>5. r \in Seq(T) /\ Len(r) = Len(s) + 1
  BY <1>1, <1>3, <1>4
<1> QED
  BY <1>2, <1>5 DEF r, Shifted

\* r is the c elements of s behind the first d.
Slice(r, s, d, c) == Len(r) = c /\ \A j \in 1 .. c : r[j] = s[d + j]

\* The halves of a split as slices.
LEMMA SubSeqFacts ==
  ASSUME NEW T, NEW s \in Seq(T), NEW d \in Nat, NEW c \in Nat, d + c <= Len(s),
         NEW a, NEW b, a = d + 1, b = d + c
  PROVE  SubSeq(s, a, b) \in Seq(T) /\ Slice(SubSeq(s, a, b), s, d, c)
<1>1. Len(s) \in Nat /\ \A j \in 1 .. Len(s) : s[j] \in T
  BY LenProperties, ElementOfSeq
<1>2. a \in Int /\ b \in Int /\ b - a + 1 = c /\ \A j \in a .. b : s[j] \in T
  BY <1>1
<1>3. /\ SubSeq(s, a, b) \in Seq(T)
      /\ Len(SubSeq(s, a, b)) = IF a <= b THEN b - a + 1 ELSE 0
      /\ \A j \in 1 .. b - a + 1 : SubSeq(s, a, b)[j] = s[a + j - 1]
  BY <1>2, SubSeqProperties
<1>4. Len(SubSeq(s, a, b)) = c
  BY <1>2, <1>3
<1>5. ASSUME NEW j \in 1 .. c PROVE SubSeq(s, a, b)[j] = s[d + j]
  <2>1. a + j - 1 = d + j
    BY <1>2
  <2> QED
    BY <1>2, <1>3, <2>1
<1> QED
  BY <1>3, <1>4, <1>5 DEF Slice

\* The updates of a node that the operations make.
withEntries(n, k, t) == [n EXCEPT !.keys = k, !.tids = t]
withNext(n, x) == [n EXCEPT !.next = x]
withKids(n, k, c) == [n EXCEPT !.keys = k, !.kids = c]

\* Updates of a leaf in terms of its parts.
LEMMA LeafUpdate ==
  ASSUME NEW n \in LeafNode, NEW k, NEW t, NEW x
  PROVE  /\ withEntries(n, k, t) = leafNode(k, t, n.next)
         /\ withNext(leafNode(k, t, n.next), x) = leafNode(k, t, x)
<1> DEFINE r == [n EXCEPT !.keys = k]
           b == n.leaf
           y == n.next
<1>1. n \in [leaf : {TRUE}, keys : Seq(Key), tids : Seq(TID), next : Nat]
  BY DEF LeafNode
<1>2. b = TRUE
  BY <1>1
<1>3. r = [leaf |-> b, keys |-> k, tids |-> n.tids, next |-> y]
  <2>1. n = [leaf |-> b, keys |-> n.keys, tids |-> n.tids, next |-> y]
    BY <1>1, SMT
  <2> QED
    BY <2>1, SMT
<1>4. [n EXCEPT !.keys = k, !.tids = t] = [r EXCEPT !.tids = t]
  BY Zenon
<1> HIDE DEF r, b, y
<1>5. [r EXCEPT !.tids = t] = [leaf |-> b, keys |-> k, tids |-> t, next |-> y]
  BY <1>3, SMT
<1>6. [leaf |-> b, keys |-> k, tids |-> t, next |-> y] = leafNode(k, t, y)
  BY <1>2, Zenon DEF leafNode
<1>7. [[leaf |-> b, keys |-> k, tids |-> t, next |-> y] EXCEPT !.next = x]
        = [leaf |-> b, keys |-> k, tids |-> t, next |-> x]
  BY SMT
<1>8. [leaf |-> b, keys |-> k, tids |-> t, next |-> x] = leafNode(k, t, x)
  BY <1>2, Zenon DEF leafNode
<1>9. [leafNode(k, t, y) EXCEPT !.next = x] = leafNode(k, t, x)
  BY <1>6, <1>7, <1>8, Zenon
<1> QED
  BY <1>4, <1>5, <1>6, <1>9, Zenon DEF y, withEntries, withNext

\* An update of two fields of an internal node.
LEMMA InternalUpdate ==
  ASSUME NEW n \in InternalNode, NEW k, NEW c
  PROVE  withKids(n, k, c) = internalNode(k, c)
<1> DEFINE r == [n EXCEPT !.keys = k]
           b == n.leaf
           y == n.next
<1>1. n \in [leaf : {FALSE}, keys : Seq(Key), kids : Seq(Nat), next : {0}]
  BY DEF InternalNode
<1>2. b = FALSE /\ y = 0
  BY <1>1
<1>3. r = [leaf |-> b, keys |-> k, kids |-> n.kids, next |-> y]
  <2>1. n = [leaf |-> b, keys |-> n.keys, kids |-> n.kids, next |-> y]
    BY <1>1, SMT
  <2> QED
    BY <2>1, SMT
<1>4. [n EXCEPT !.keys = k, !.kids = c] = [r EXCEPT !.kids = c]
  BY Zenon
<1> HIDE DEF r, b, y
<1>5. [r EXCEPT !.kids = c] = [leaf |-> b, keys |-> k, kids |-> c, next |-> y]
  BY <1>3, SMT
<1>6. [leaf |-> b, keys |-> k, kids |-> c, next |-> y] = internalNode(k, c)
  BY <1>2, Zenon DEF internalNode
<1> QED
  BY <1>4, <1>5, <1>6, Zenon DEF withKids

\* insertLeafAt and insertInternalAt, field by field.
LEMMA InsertLeafForm ==
  ASSUME NEW n \in LeafNode, NEW i, NEW key, NEW tid
  PROVE  insertLeafAt(n, i, key, tid)
           = leafNode(shiftIn(n.keys, i, key), shiftIn(n.tids, i, tid), n.next)
<1>1. insertLeafAt(n, i, key, tid)
        = withEntries(n, shiftIn(n.keys, i, key), shiftIn(n.tids, i, tid))
  BY Zenon DEF insertLeafAt, withEntries
<1> QED
  BY <1>1, LeafUpdate

\* insertInternalAt in terms of the parts of the node.
LEMMA InsertInternalForm ==
  ASSUME NEW n \in InternalNode, NEW i, NEW key, NEW right
  PROVE  insertInternalAt(n, i, key, right)
           = internalNode(shiftIn(n.keys, i, key), shiftIn(n.kids, i + 1, right))
<1> DEFINE ks == shiftIn(n.keys, i, key)
           cs == shiftIn(n.kids, i + 1, right)
<1>1. insertInternalAt(n, i, key, right) = withKids(n, ks, cs)
  BY Zenon DEF insertInternalAt, withKids
<1> HIDE DEF ks, cs
<1> QED
  BY <1>1, InternalUpdate DEF ks, cs

\* The blank nodes.  The blank internal node has no child yet.
LEMMA BlankNodes ==
  /\ initLeaf \in LeafNode /\ initLeaf.next = 0
  /\ \A k, c : withKids(initInternal, k, c) = internalNode(k, c)
<1>1. initLeaf = leafNode(<<>>, <<>>, 0)
  BY Zenon DEF initLeaf, leafNode, invalidPID
<1>2. <<>> \in Seq(Key) /\ <<>> \in Seq(TID)
  BY EmptySeq
<1>3. ASSUME NEW k, NEW c
      PROVE  withKids(initInternal, k, c) = internalNode(k, c)
  <2> DEFINE n == initInternal
             r == [n EXCEPT !.keys = k]
             b == n.leaf
  <2>1. n \in [leaf : {FALSE}, keys : {<<>>}, kids : {<<>>}, next : {0}]
    BY DEF initInternal, invalidPID
  <2>2. b = FALSE /\ n.next = 0
    BY <2>1
  <2>3. r = [leaf |-> b, keys |-> k, kids |-> n.kids, next |-> n.next]
    <3> HIDE DEF n
    <3> QED
      BY <2>1, SMT
  <2>4. [n EXCEPT !.keys = k, !.kids = c] = [r EXCEPT !.kids = c]
    BY Zenon
  <2> HIDE DEF r, b, n
  <2>5. [r EXCEPT !.kids = c] = [leaf |-> b, keys |-> k, kids |-> c, next |-> 0]
    BY <2>2, <2>3, SMT
  <2>6. [leaf |-> b, keys |-> k, kids |-> c, next |-> 0] = internalNode(k, c)
    BY <2>2, Zenon DEF internalNode
  <2> QED
    BY <2>4, <2>5, <2>6, Zenon DEF n, withKids
<1>4. \A e : e \in Seq(Key) /\ e \in Seq(TID) =>
        leafNode(e, e, 0) \in LeafNode /\ leafNode(e, e, 0).next = 0
  BY LeafParts
<1>5. initLeaf \in LeafNode /\ initLeaf.next = 0
  BY <1>1, <1>2, <1>4, Zenon
<1> QED
  BY <1>3, <1>5

\* The halves of the splits, field by field.
LEMMA SplitLeafForm ==
  ASSUME NEW n \in LeafNode, NEW next
  PROVE  LET s == splitLeaf(n, initLeaf)
             c == Len(n.keys)
             m == c \div 2
         IN  /\ withNext(s.left, next)
                  = leafNode(SubSeq(n.keys, 1, m), SubSeq(n.tids, 1, m), next)
             /\ withNext(s.right, next)
                  = leafNode(SubSeq(n.keys, m + 1, c), SubSeq(n.tids, m + 1, c), next)
             /\ s.right.keys = SubSeq(n.keys, m + 1, c)
<1> DEFINE s == splitLeaf(n, initLeaf)
           c == Len(n.keys)
           m == c \div 2
           lk == SubSeq(n.keys, 1, m)
           lt == SubSeq(n.tids, 1, m)
           rk == SubSeq(n.keys, m + 1, c)
           rt == SubSeq(n.tids, m + 1, c)
<1>1. s = [left |-> withEntries(n, lk, lt), right |-> withEntries(initLeaf, rk, rt)]
  BY Zenon DEF splitLeaf, keyCount, withEntries
<1> HIDE DEF s, lk, lt, rk, rt
<1>2. /\ withEntries(n, lk, lt) = leafNode(lk, lt, n.next)
      /\ withEntries(initLeaf, rk, rt) = leafNode(rk, rt, initLeaf.next)
  BY LeafUpdate, BlankNodes
<1>3. s.left = leafNode(lk, lt, n.next) /\ s.right = leafNode(rk, rt, initLeaf.next)
  BY <1>1, <1>2
<1>4. withNext(s.left, next) = leafNode(lk, lt, next)
  BY <1>3, LeafUpdate
<1>5. withNext(s.right, next) = leafNode(rk, rt, next)
  BY <1>3, LeafUpdate, BlankNodes
<1>6. s.right.keys = rk
  BY <1>3 DEF leafNode
<1> QED
  BY <1>4, <1>5, <1>6, Zenon DEF s, lk, lt, rk, rt

\* splitInternal in terms of the parts of the node.
LEMMA SplitInternalForm ==
  ASSUME NEW n \in InternalNode
  PROVE  LET s == splitInternal(n, initInternal)
             c == Len(n.keys)
             m == c \div 2
         IN  /\ s.left = internalNode(SubSeq(n.keys, 1, m), SubSeq(n.kids, 1, m + 1))
             /\ s.right = internalNode(SubSeq(n.keys, m + 2, c), SubSeq(n.kids, m + 2, c + 1))
             /\ s.upKey = n.keys[m + 1]
<1> DEFINE s == splitInternal(n, initInternal)
           c == Len(n.keys)
           m == c \div 2
           lk == SubSeq(n.keys, 1, m)
           lc == SubSeq(n.kids, 1, m + 1)
           rk == SubSeq(n.keys, m + 2, c)
           rc == SubSeq(n.kids, m + 2, c + 1)
<1>1. s = [left |-> withKids(n, lk, lc), right |-> withKids(initInternal, rk, rc),
           upKey |-> n.keys[m + 1]]
  BY Zenon DEF splitInternal, keyCount, keyAt, withKids
<1> HIDE DEF s, lk, lc, rk, rc, m
<1>2. /\ withKids(n, lk, lc) = internalNode(lk, lc)
      /\ withKids(initInternal, rk, rc) = internalNode(rk, rc)
  BY InternalUpdate, BlankNodes
<1>3. s.left = internalNode(lk, lc) /\ s.right = internalNode(rk, rc) /\ s.upKey = n.keys[m + 1]
  BY <1>1, <1>2
<1> QED
  BY <1>3, Zenon DEF s, lk, lc, rk, rc, m

-----------------------------------------------------------------------------
(* The same, element by element.                                           *)

\* A leaf with one more entry, at slot i.
LEMMA InsertLeafFacts ==
  ASSUME NEW n \in LeafNode, NEW i \in 0 .. keyCount(n), NEW key \in Key, NEW tid \in TID
  PROVE  LET r == insertLeafAt(n, i, key, tid)
         IN  /\ r \in LeafNode /\ r.next = n.next /\ keyCount(r) = keyCount(n) + 1
             /\ Shifted(r.keys, n.keys, i, key) /\ Shifted(r.tids, n.tids, i, tid)
<1> DEFINE ks == shiftIn(n.keys, i, key)
           ts == shiftIn(n.tids, i, tid)
<1>1. /\ n.keys \in Seq(Key) /\ n.tids \in Seq(TID) /\ n.next \in Nat
      /\ Len(n.tids) = keyCount(n) /\ Len(n.keys) = keyCount(n)
  BY LeafParts DEF keyCount
<1>2. insertLeafAt(n, i, key, tid) = leafNode(ks, ts, n.next)
  BY InsertLeafForm
<1>3. ks \in Seq(Key) /\ Shifted(ks, n.keys, i, key)
  BY <1>1, ShiftInFacts
<1>4. ts \in Seq(TID) /\ Shifted(ts, n.tids, i, tid)
  BY <1>1, ShiftInFacts
<1> HIDE DEF ks, ts
<1>5. Len(ks) = keyCount(n) + 1 /\ Len(ts) = keyCount(n) + 1
  BY <1>1, <1>3, <1>4 DEF Shifted
<1>6. LET r == leafNode(ks, ts, n.next)
      IN  r \in LeafNode /\ r.next = n.next /\ r.keys = ks /\ r.tids = ts
  BY <1>1, <1>3, <1>4, <1>5, LeafParts
<1> QED
  BY <1>2, <1>3, <1>4, <1>5, <1>6 DEF keyCount

\* An internal node with one more key at slot i and its right child behind it.
LEMMA InsertInternalFacts ==
  ASSUME NEW n \in InternalNode, NEW i \in 0 .. keyCount(n), NEW key \in Key, NEW right \in Nat
  PROVE  LET r == insertInternalAt(n, i, key, right)
         IN  /\ r \in InternalNode /\ keyCount(r) = keyCount(n) + 1
             /\ Shifted(r.keys, n.keys, i, key) /\ Shifted(r.kids, n.kids, i + 1, right)
<1> DEFINE ks == shiftIn(n.keys, i, key)
           cs == shiftIn(n.kids, i + 1, right)
<1>1. /\ n.keys \in Seq(Key) /\ n.kids \in Seq(Nat) /\ keyCount(n) \in Nat
      /\ Len(n.kids) = keyCount(n) + 1 /\ Len(n.keys) = keyCount(n)
  BY InternalParts, LenProperties DEF keyCount
<1>2. insertInternalAt(n, i, key, right) = internalNode(ks, cs)
  BY InsertInternalForm
<1>3. ks \in Seq(Key) /\ Shifted(ks, n.keys, i, key)
  BY <1>1, ShiftInFacts
<1>4. cs \in Seq(Nat) /\ Shifted(cs, n.kids, i + 1, right)
  <2>1. i + 1 \in 0 .. Len(n.kids)
    BY <1>1
  <2> QED
    BY <1>1, <2>1, ShiftInFacts
<1> HIDE DEF ks, cs
<1>5. Len(ks) = keyCount(n) + 1 /\ Len(cs) = Len(ks) + 1
  BY <1>1, <1>3, <1>4 DEF Shifted
<1>6. LET r == internalNode(ks, cs)
      IN  r \in InternalNode /\ r.keys = ks /\ r.kids = cs
  BY <1>3, <1>4, <1>5, InternalParts
<1> QED
  BY <1>2, <1>3, <1>4, <1>5, <1>6 DEF keyCount

\* The halves of a leaf with at least two entries, linked to next.
LEMMA SplitLeafFacts ==
  ASSUME NEW n \in LeafNode, keyCount(n) >= 2, NEW next \in Nat
  PROVE  LET s == splitLeaf(n, initLeaf)
             L == withNext(s.left, next)
             R == withNext(s.right, next)
             c == keyCount(n)
             m == c \div 2
         IN  /\ L \in LeafNode /\ L.next = next /\ keyCount(L) = m
             /\ Slice(L.keys, n.keys, 0, m) /\ Slice(L.tids, n.tids, 0, m)
             /\ R \in LeafNode /\ R.next = next /\ keyCount(R) = c - m
             /\ Slice(R.keys, n.keys, m, c - m) /\ Slice(R.tids, n.tids, m, c - m)
             /\ keyAt(s.right, 0) = n.keys[m + 1] /\ n.keys[m + 1] \in Key
<1> DEFINE s == splitLeaf(n, initLeaf)
           c == keyCount(n)
           m == c \div 2
           lk == SubSeq(n.keys, 1, m)
           lt == SubSeq(n.tids, 1, m)
           rk == SubSeq(n.keys, m + 1, c)
           rt == SubSeq(n.tids, m + 1, c)
<1>1. /\ n.keys \in Seq(Key) /\ n.tids \in Seq(TID) /\ Len(n.tids) = c /\ Len(n.keys) = c
      /\ c \in Nat
  BY LeafParts, LenProperties DEF keyCount
<1>2. /\ withNext(s.left, next) = leafNode(lk, lt, next)
      /\ withNext(s.right, next) = leafNode(rk, rt, next)
      /\ s.right.keys = rk
  BY SplitLeafForm DEF keyCount
<1>3. m \in Nat /\ m >= 1 /\ m < c
  BY <1>1
<1> HIDE DEF m, s, c
<1>4. /\ lk \in Seq(Key) /\ Slice(lk, n.keys, 0, m)
      /\ lt \in Seq(TID) /\ Slice(lt, n.tids, 0, m)
  <2>1. 0 \in Nat /\ 0 + m <= c /\ 1 = 0 + 1 /\ m = 0 + m
    BY <1>1, <1>3
  <2> QED
    BY <1>1, <1>3, <2>1, SubSeqFacts
<1>5. /\ rk \in Seq(Key) /\ Slice(rk, n.keys, m, c - m)
      /\ rt \in Seq(TID) /\ Slice(rt, n.tids, m, c - m)
  <2>1. c - m \in Nat /\ m + (c - m) <= c /\ c = m + (c - m)
    BY <1>1, <1>3
  <2> QED
    BY <1>1, <1>3, <2>1, SubSeqFacts
<1> HIDE DEF lk, lt, rk, rt
<1>6. Len(lk) = m /\ Len(lt) = m /\ Len(rk) = c - m /\ Len(rt) = c - m
  BY <1>4, <1>5 DEF Slice
<1>7. LET r == leafNode(lk, lt, next)
      IN  r \in LeafNode /\ r.next = next /\ r.keys = lk /\ r.tids = lt
  BY <1>4, <1>6, LeafParts
<1>8. LET r == leafNode(rk, rt, next)
      IN  r \in LeafNode /\ r.next = next /\ r.keys = rk /\ r.tids = rt
  BY <1>5, <1>6, LeafParts
<1>9. keyAt(s.right, 0) = n.keys[m + 1] /\ n.keys[m + 1] \in Key
  <2>1. m + 1 \in 1 .. Len(n.keys) /\ 1 \in 1 .. c - m /\ 0 + 1 = 1
    BY <1>1, <1>3
  <2>2. rk[1] = n.keys[m + 1]
    BY <1>5, <2>1 DEF Slice
  <2> QED
    BY <1>1, <1>2, <2>1, <2>2, ElementOfSeq DEF keyAt
<1>10. keyCount(leafNode(lk, lt, next)) = m /\ keyCount(leafNode(rk, rt, next)) = c - m
  BY <1>6, <1>7, <1>8 DEF keyCount
<1> QED
  BY <1>2, <1>4, <1>5, <1>7, <1>8, <1>9, <1>10 DEF s, c, m

\* The halves of an internal node with at least two keys; the middle key goes up.
LEMMA SplitInternalFacts ==
  ASSUME NEW n \in InternalNode, keyCount(n) >= 2
  PROVE  LET s == splitInternal(n, initInternal)
             c == keyCount(n)
             m == c \div 2
         IN  /\ s.left \in InternalNode /\ keyCount(s.left) = m
             /\ Slice(s.left.keys, n.keys, 0, m) /\ Slice(s.left.kids, n.kids, 0, m + 1)
             /\ s.right \in InternalNode /\ keyCount(s.right) = c - m - 1
             /\ Slice(s.right.keys, n.keys, m + 1, c - m - 1)
             /\ Slice(s.right.kids, n.kids, m + 1, c - m)
             /\ s.upKey = n.keys[m + 1] /\ s.upKey \in Key
<1> DEFINE s == splitInternal(n, initInternal)
           c == keyCount(n)
           m == c \div 2
           lk == SubSeq(n.keys, 1, m)
           lc == SubSeq(n.kids, 1, m + 1)
           rk == SubSeq(n.keys, m + 2, c)
           rc == SubSeq(n.kids, m + 2, c + 1)
<1>1. /\ n.keys \in Seq(Key) /\ n.kids \in Seq(Nat) /\ Len(n.kids) = c + 1 /\ Len(n.keys) = c
      /\ c \in Nat
  BY InternalParts, LenProperties DEF keyCount
<1>2. s.left = internalNode(lk, lc) /\ s.right = internalNode(rk, rc) /\ s.upKey = n.keys[m + 1]
  BY SplitInternalForm DEF keyCount
<1>3. m \in Nat /\ m >= 1 /\ m < c
  BY <1>1
<1> HIDE DEF m, s, c
<1>4. lk \in Seq(Key) /\ Slice(lk, n.keys, 0, m)
  <2>1. 0 \in Nat /\ 0 + m <= c /\ 1 = 0 + 1 /\ m = 0 + m
    BY <1>1, <1>3
  <2> QED
    BY <1>1, <1>3, <2>1, SubSeqFacts
<1>5. lc \in Seq(Nat) /\ Slice(lc, n.kids, 0, m + 1)
  <2>1. 0 \in Nat /\ m + 1 \in Nat /\ 0 + (m + 1) <= c + 1 /\ 1 = 0 + 1 /\ m + 1 = 0 + (m + 1)
    BY <1>1, <1>3
  <2> QED
    BY <1>1, <2>1, SubSeqFacts
<1>6. rk \in Seq(Key) /\ Slice(rk, n.keys, m + 1, c - m - 1)
  <2>1. /\ m + 1 \in Nat /\ c - m - 1 \in Nat /\ (m + 1) + (c - m - 1) <= c
        /\ m + 2 = (m + 1) + 1 /\ c = (m + 1) + (c - m - 1)
    BY <1>1, <1>3
  <2> QED
    BY <1>1, <2>1, SubSeqFacts
<1>7. rc \in Seq(Nat) /\ Slice(rc, n.kids, m + 1, c - m)
  <2>1. /\ m + 1 \in Nat /\ c - m \in Nat /\ (m + 1) + (c - m) <= c + 1
        /\ m + 2 = (m + 1) + 1 /\ c + 1 = (m + 1) + (c - m)
    BY <1>1, <1>3
  <2> QED
    BY <1>1, <2>1, SubSeqFacts
<1> HIDE DEF lk, lc, rk, rc
<1>8. Len(lk) = m /\ Len(lc) = m + 1 /\ Len(rk) = c - m - 1 /\ Len(rc) = c - m
  BY <1>4, <1>5, <1>6, <1>7 DEF Slice
<1>9. LET r == internalNode(lk, lc)
      IN  r \in InternalNode /\ r.keys = lk /\ r.kids = lc
  BY <1>4, <1>5, <1>8, InternalParts
<1>10. LET r == internalNode(rk, rc)
       IN  r \in InternalNode /\ r.keys = rk /\ r.kids = rc
  <2>1. Len(rc) = Len(rk) + 1
    BY <1>1, <1>3, <1>8
  <2> QED
    BY <1>6, <1>7, <2>1, InternalParts
<1>11. n.keys[m + 1] \in Key
  <2>1. m + 1 \in 1 .. Len(n.keys)
    BY <1>1, <1>3
  <2> QED
    BY <1>1, <2>1, ElementOfSeq
<1>12. keyCount(s.left) = m /\ keyCount(s.right) = c - m - 1
  BY <1>2, <1>8, <1>9, <1>10 DEF keyCount
<1> QED
  BY <1>2, <1>4, <1>5, <1>6, <1>7, <1>9, <1>10, <1>11, <1>12 DEF s, c, m

-----------------------------------------------------------------------------
(* The control invariant.  rank is the height of each page over the leaves. *)

\* n may be page p: what it links to exists, one level below or on the leaf level.
Fits(rank, p, n) ==
  /\ n \in LeafNode =>
       rank[p] = 0 /\ (n.next # 0 => n.next \in DOMAIN rank /\ rank[n.next] = 0)
  /\ n \in InternalNode =>
       \A i \in DOMAIN n.kids : n.kids[i] \in DOMAIN rank /\ rank[p] = rank[n.kids[i]] + 1

Tree(rank) ==
  /\ nodes \in Seq(LeafNode \cup InternalNode) /\ Len(nodes) <= MaxPID
  /\ rank \in [DOMAIN nodes -> 0 .. Len(nodes)]
  /\ \A p \in DOMAIN nodes : Fits(rank, p, nodes[p])

File ==
  /\ opened \in BOOLEAN
  /\ IF meta \in {Absent, BadMagic} THEN nodes = <<>> /\ ~opened ELSE meta \in DOMAIN nodes

Steps == {"idle", "into", "splitLeaf", "return", "splitInternal", "setRoot", "overrun"}
Split == [sepKey : Int, right : Nat]
CallState == [pc : Steps, key : Int, tid : TID \cup {0}, pid : Nat, sp : Split,
              err : {"nil", "io", "duplicate"}]
Ancestor == [pid : Nat, ci : Nat]

\* A split that the level above has yet to absorb.
Pending == call.pc = "return" /\ call.sp # NoSplit

\* Each page on the stack is one level above the next, and the call is below them.
Path(rank) ==
  \A d \in DOMAIN stack :
    /\ stack[d].pid \in DOMAIN nodes /\ ~nodes[stack[d].pid].leaf
    /\ stack[d].ci <= keyCount(nodes[stack[d].pid])
    /\ rank[stack[d].pid] + d = rank[root] + 1

Calls(rank) ==
  /\ call \in CallState /\ stack \in Seq(Ancestor)
  /\ call.pc = "idle" => call = NoCall /\ stack = <<>>
  /\ call.pc # "idle" => opened /\ call.key \in Key /\ call.tid \in TID
  /\ call.pc \in {"into", "splitLeaf"} =>
       call.pid \in DOMAIN nodes /\ rank[call.pid] + Len(stack) = rank[root]
  /\ Pending => /\ call.err = "nil" /\ call.sp.sepKey \in Key
                /\ call.sp.right \in DOMAIN nodes
                /\ rank[call.sp.right] + Len(stack) = rank[root]
  /\ call.pc = "splitLeaf" => Node.leaf /\ keyCount(Node) = leafCap
  /\ call.pc = "splitInternal" => stack # <<>> /\ keyCount(Parent) = internalCap
  /\ call.pc = "setRoot" => /\ stack = <<>> /\ call.pid \in DOMAIN nodes
                            /\ rank[call.pid] = rank[root] + 1
  /\ Path(rank)

ScanSteps == {"off", "leaf", "entry", "callback", "done"}
ScanState == [pc : ScanSteps, lo : Int, hi : Int, pid : Nat, first : BOOLEAN, i : Nat,
              next : Nat, seen : Seq(Key \X TID), quiet : BOOLEAN]

Scans(rank) ==
  /\ scan \in ScanState
  /\ scan.pc = "off" => scan.seen = <<>>
  /\ scan.pc # "off" => opened
  /\ scan.pc \notin {"off", "callback"} => call = NoCall
  /\ scan.pc # "off" /\ scan.quiet => call = NoCall
  /\ scan.pc \in {"leaf", "entry", "callback"} => scan.pid \in DOMAIN nodes /\ rank[scan.pid] = 0
  /\ scan.pc \in {"entry", "callback"} =>
       (scan.next # 0 => scan.next \in DOMAIN nodes /\ rank[scan.next] = 0)

\* The page that is being split.
Splitting == IF call.pc = "splitLeaf" THEN {call.pid}
             ELSE IF call.pc = "splitInternal" THEN {Top.pid} ELSE {}

Pool ==
  /\ pins \in [PID -> Nat] /\ PinsBalanced
  /\ changed \subseteq Splitting

Ghosts == DOMAIN acked \subseteq Key /\ damaged \in BOOLEAN /\ faults \in 0 .. MaxFaults

Ctl(rank) == Tree(rank) /\ File /\ Calls(rank) /\ Scans(rank) /\ Pool /\ Ghosts
Control == \E rank : Ctl(rank)

-----------------------------------------------------------------------------
(* Pages.                                                                  *)

\* What the tree invariant says of a page.
LEMMA PageFacts ==
  ASSUME NEW rank, Tree(rank)
  PROVE  /\ Len(nodes) \in Nat /\ DOMAIN nodes = 1 .. Len(nodes) /\ DOMAIN rank = DOMAIN nodes
         /\ \A p \in DOMAIN nodes :
              /\ rank[p] \in 0 .. Len(nodes) /\ p \in PID \ {0}
              /\ nodes[p].leaf => nodes[p] \in LeafNode /\ rank[p] = 0
              /\ ~nodes[p].leaf => nodes[p] \in InternalNode /\ rank[p] >= 1
<1>1. /\ Len(nodes) \in Nat /\ DOMAIN nodes = 1 .. Len(nodes) /\ DOMAIN rank = DOMAIN nodes
      /\ \A p \in DOMAIN nodes : nodes[p] \in LeafNode \cup InternalNode
  BY LenProperties, ElementOfSeq DEF Tree
<1>2. ASSUME NEW p \in DOMAIN nodes
      PROVE  /\ rank[p] \in 0 .. Len(nodes) /\ p \in PID \ {0}
             /\ nodes[p].leaf => nodes[p] \in LeafNode /\ rank[p] = 0
             /\ ~nodes[p].leaf => nodes[p] \in InternalNode /\ rank[p] >= 1
  <2>1. rank[p] \in 0 .. Len(nodes) /\ p \in PID \ {0} /\ Fits(rank, p, nodes[p])
    BY <1>1, BoundsAssumption DEF Tree, PID
  <2>2. CASE nodes[p] \in LeafNode
    <3>1. nodes[p].leaf
      BY <2>2, LeafParts
    <3> QED
      BY <2>1, <2>2, <3>1 DEF Fits
  <2>3. CASE nodes[p] \in InternalNode
    <3>1. ~nodes[p].leaf /\ 1 \in DOMAIN nodes[p].kids
      <4>1. /\ ~nodes[p].leaf /\ nodes[p].keys \in Seq(Key) /\ nodes[p].kids \in Seq(Nat)
            /\ Len(nodes[p].kids) = Len(nodes[p].keys) + 1
        BY <2>3, InternalParts
      <4>2. Len(nodes[p].keys) \in Nat /\ DOMAIN nodes[p].kids = 1 .. Len(nodes[p].kids)
        BY <4>1, LenProperties
      <4> QED
        BY <4>1, <4>2
    <3>2. nodes[p].kids[1] \in DOMAIN nodes /\ rank[p] = rank[nodes[p].kids[1]] + 1
      <4>1. \A i \in DOMAIN nodes[p].kids :
              nodes[p].kids[i] \in DOMAIN rank /\ rank[p] = rank[nodes[p].kids[i]] + 1
        BY <2>1, <2>3 DEF Fits
      <4> QED
        BY <1>1, <3>1, <4>1
    <3>3. rank[nodes[p].kids[1]] \in Nat
      BY <3>2 DEF Tree
    <3> QED
      BY <2>1, <2>3, <3>1, <3>2, <3>3
  <2> QED
    BY <1>1, <2>2, <2>3
<1> QED
  BY <1>1, <1>2

\* The pages with page p replaced.
Replaces(p, n) ==
  /\ Len(nodes') = Len(nodes) /\ DOMAIN nodes' = DOMAIN nodes
  /\ nodes'[p] = n /\ \A q \in DOMAIN nodes \ {p} : nodes'[q] = nodes[q]
\* ... and a new page behind them.
Grows(p, n, m) ==
  /\ Len(nodes') = Len(nodes) + 1 /\ DOMAIN nodes' = 1 .. Len(nodes) + 1
  /\ nodes'[p] = n /\ nodes'[NewPID] = m
  /\ \A q \in DOMAIN nodes \ {p} : nodes'[q] = nodes[q]
Ranks(rank, r) == [p \in 1 .. Len(nodes) + 1 |-> IF p = NewPID THEN r ELSE rank[p]]

\* A node may be replaced by one that fits in its place.
LEMMA TreeReplaced ==
  ASSUME NEW rank, Tree(rank), NEW p \in DOMAIN nodes, NEW n \in LeafNode \cup InternalNode,
         nodes' = [nodes EXCEPT ![p] = n], Fits(rank, p, n)
  PROVE  Tree(rank)' /\ Replaces(p, n)
<1>1. Len(nodes) \in Nat /\ DOMAIN nodes = 1 .. Len(nodes)
  BY PageFacts
<1>2. /\ nodes' \in Seq(LeafNode \cup InternalNode) /\ Len(nodes') = Len(nodes)
      /\ \A q \in 1 .. Len(nodes) : nodes'[q] = IF q = p THEN n ELSE nodes[q]
  BY <1>1, ExceptSeq DEF Tree
<1>3. Replaces(p, n)
  BY <1>1, <1>2 DEF Replaces
<1> QED
  BY <1>2, <1>3 DEF Tree, Replaces

\* A node may be replaced, and another appended, when both fit.
LEMMA TreeGrown ==
  ASSUME NEW rank, Tree(rank), Room, NEW p \in DOMAIN nodes,
         NEW n \in LeafNode \cup InternalNode, NEW m \in LeafNode \cup InternalNode,
         nodes' = Append([nodes EXCEPT ![p] = n], m),
         NEW r \in 0 .. Len(nodes) + 1, NEW R, R = Ranks(rank, r),
         Fits(R, p, n), Fits(R, NewPID, m)
  PROVE  /\ Tree(R)' /\ Grows(p, n, m)
         /\ NewPID \in PID \ {0} /\ NewPID \notin DOMAIN nodes
<1> DEFINE T == LeafNode \cup InternalNode
           s == [nodes EXCEPT ![p] = n]
<1>1. /\ Len(nodes) \in Nat /\ DOMAIN nodes = 1 .. Len(nodes) /\ nodes \in Seq(T)
      /\ \A q \in DOMAIN nodes : rank[q] \in 0 .. Len(nodes)
  BY PageFacts DEF Tree
<1>2. /\ s \in Seq(T) /\ Len(s) = Len(nodes)
      /\ \A q \in 1 .. Len(nodes) : s[q] = IF q = p THEN n ELSE nodes[q]
  BY <1>1, ExceptSeq
<1> HIDE DEF s, T
<1>3. /\ Append(s, m) \in Seq(T) /\ Len(Append(s, m)) = Len(s) + 1
      /\ \A q \in 1 .. Len(s) : Append(s, m)[q] = s[q]
      /\ Append(s, m)[Len(s) + 1] = m
  BY <1>2, AppendProperties DEF T
<1>4. /\ nodes' \in Seq(T) /\ Len(nodes') = Len(nodes) + 1
      /\ \A q \in 1 .. Len(nodes) : nodes'[q] = IF q = p THEN n ELSE nodes[q]
      /\ nodes'[Len(nodes) + 1] = m
  BY <1>2, <1>3 DEF s
<1>5. Grows(p, n, m)
  BY <1>1, <1>4, LenProperties DEF Grows, NewPID
<1>6. /\ R \in [1 .. Len(nodes) + 1 -> 0 .. Len(nodes) + 1]
      /\ \A q \in DOMAIN nodes : R[q] = rank[q]
      /\ R[NewPID] = r
  BY <1>1 DEF Ranks, NewPID
<1>7. Len(nodes') <= MaxPID /\ NewPID \in PID \ {0} /\ NewPID \notin DOMAIN nodes
  BY <1>1, <1>4, BoundsAssumption DEF Room, NewPID, PID
<1>8. ASSUME NEW q \in DOMAIN nodes' PROVE Fits(R, q, nodes'[q])
  <2>1. CASE q = p
    BY <1>5, <2>1 DEF Grows
  <2>2. CASE q = NewPID
    BY <1>5, <2>2 DEF Grows
  <2>3. CASE q # p /\ q # NewPID
    <3>1. q \in DOMAIN nodes /\ nodes'[q] = nodes[q] /\ Fits(rank, q, nodes[q])
      BY <1>1, <1>5, <2>3 DEF Grows, NewPID, Tree
    <3>2. DOMAIN rank = DOMAIN nodes /\ DOMAIN nodes \subseteq DOMAIN R
      BY <1>1, <1>6, PageFacts
    <3>3. R[q] = rank[q] /\ \A x \in DOMAIN rank : x \in DOMAIN R /\ R[x] = rank[x]
      BY <1>6, <3>1, <3>2
    <3>4. ASSUME NEW k \in LeafNode \cup InternalNode, Fits(rank, q, k) PROVE Fits(R, q, k)
      BY <3>3, <3>4 DEF Fits
    <3>5. nodes[q] \in LeafNode \cup InternalNode
      BY <1>1, <3>1, ElementOfSeq DEF T
    <3> QED
      BY <3>1, <3>4, <3>5
  <2> QED
    BY <2>1, <2>2, <2>3
<1> QED
  BY <1>4, <1>5, <1>6, <1>7, <1>8 DEF Tree, Grows, T

-----------------------------------------------------------------------------
(* The records of the call and of the scan, field by field.                *)

callState(pc, key, tid, pid, sp, err) ==
  [pc |-> pc, key |-> key, tid |-> tid, pid |-> pid, sp |-> sp, err |-> err]

\* The state of an Insert is its fields.
LEMMA CallParts ==
  /\ \A pc \in Steps, key \in Int, tid \in TID \cup {0}, pid \in Nat, sp \in Split,
        err \in {"nil", "io", "duplicate"} :
       LET c == callState(pc, key, tid, pid, sp, err)
       IN  /\ c \in CallState /\ c.pc = pc /\ c.key = key /\ c.tid = tid /\ c.pid = pid
           /\ c.sp = sp /\ c.err = err
  /\ \A c \in CallState :
       /\ c.pc \in Steps /\ c.key \in Int /\ c.tid \in TID \cup {0} /\ c.pid \in Nat
       /\ c.sp \in Split /\ c.err \in {"nil", "io", "duplicate"}
       /\ c = callState(c.pc, c.key, c.tid, c.pid, c.sp, c.err)
  /\ NoSplit \in Split /\ NoCall \in CallState /\ NoCall.pc = "idle" /\ NoCall.err = "nil"
  BY DEF callState, CallState, NoCall, NoSplit, Split, invalidPID, Steps

\* The ways a step changes the call.
LEMMA Returned ==
  ASSUME call \in CallState, NEW s \in Split, NEW e \in {"nil", "io", "duplicate"}, Return(s, e)
  PROVE  /\ call' \in CallState /\ call'.pc = "return" /\ call'.sp = s /\ call'.err = e
         /\ call'.key = call.key /\ call'.tid = call.tid /\ call'.pid = call.pid
<1>1. /\ call.pc \in Steps /\ call.key \in Int /\ call.tid \in TID \cup {0} /\ call.pid \in Nat
      /\ call.sp \in Split /\ call.err \in {"nil", "io", "duplicate"}
      /\ call = callState(call.pc, call.key, call.tid, call.pid, call.sp, call.err)
  BY CallParts
<1>2. call' = callState("return", call.key, call.tid, call.pid, s, e)
  BY <1>1, Zenon DEF Return, callState
<1>3. "return" \in Steps
  BY DEF Steps
<1> QED
  BY <1>1, <1>2, <1>3 DEF callState, CallState

\* A step that moves only the position of the Insert.
LEMMA Moved ==
  ASSUME call \in CallState, NEW x \in Steps, call' = [call EXCEPT !.pc = x]
  PROVE  /\ call' \in CallState /\ call'.pc = x /\ call'.sp = call.sp /\ call'.err = call.err
         /\ call'.key = call.key /\ call'.tid = call.tid /\ call'.pid = call.pid
<1>1. /\ call.pc \in Steps /\ call.key \in Int /\ call.tid \in TID \cup {0} /\ call.pid \in Nat
      /\ call.sp \in Split /\ call.err \in {"nil", "io", "duplicate"}
      /\ call = callState(call.pc, call.key, call.tid, call.pid, call.sp, call.err)
  BY CallParts
<1>2. call' = callState(x, call.key, call.tid, call.pid, call.sp, call.err)
  BY <1>1, Zenon DEF callState
<1> QED
  BY <1>1, <1>2 DEF callState, CallState

\* A step that moves the Insert to another page.
LEMMA Descended ==
  ASSUME call \in CallState, NEW x \in Steps, NEW p \in Nat,
         \/ call' = [call EXCEPT !.pid = p] /\ x = call.pc
         \/ call' = [call EXCEPT !.pc = x, !.pid = p]
  PROVE  /\ call' \in CallState /\ call'.pc = x /\ call'.sp = call.sp /\ call'.err = call.err
         /\ call'.key = call.key /\ call'.tid = call.tid /\ call'.pid = p
<1>1. /\ call.pc \in Steps /\ call.key \in Int /\ call.tid \in TID \cup {0} /\ call.pid \in Nat
      /\ call.sp \in Split /\ call.err \in {"nil", "io", "duplicate"}
      /\ call = callState(call.pc, call.key, call.tid, call.pid, call.sp, call.err)
  BY CallParts
<1>2. call' = callState(x, call.key, call.tid, p, call.sp, call.err)
  <2>1. ASSUME call' = [call EXCEPT !.pid = p], x = call.pc
        PROVE  call' = callState(x, call.key, call.tid, p, call.sp, call.err)
    BY <1>1, <2>1, Zenon DEF callState
  <2>2. ASSUME call' = [call EXCEPT !.pc = x, !.pid = p]
        PROVE  call' = callState(x, call.key, call.tid, p, call.sp, call.err)
    BY <1>1, <2>2, Zenon DEF callState
  <2> QED
    BY <2>1, <2>2, Zenon
<1> QED
  BY <1>1, <1>2 DEF callState, CallState

\* The call that Insert starts.
LEMMA CallStarts ==
  ASSUME NEW k, NEW t, NEW p
  PROVE  [NoCall EXCEPT !.pc = "into", !.key = k, !.tid = t, !.pid = p]
           = callState("into", k, t, p, NoSplit, "nil")
<1>1. ASSUME NEW c \in CallState, NEW d,
             d = [c EXCEPT !.pc = "into", !.key = k, !.tid = t, !.pid = p]
      PROVE  d = callState("into", k, t, p, c.sp, c.err)
  <2>1. c = callState(c.pc, c.key, c.tid, c.pid, c.sp, c.err)
    BY CallParts
  <2> QED
    BY <1>1, <2>1, Zenon DEF callState
<1>2. NoCall \in CallState /\ NoCall.sp = NoSplit /\ NoCall.err = "nil"
  BY CallParts DEF NoCall
<1> QED
  BY <1>1, <1>2, Zenon

-----------------------------------------------------------------------------
(* Pins.                                                                   *)

\* How often page p is on the path st, and in the other two places.
OnPath(st, p) == Cardinality({d \in DOMAIN st : st[d].pid = p})
InLeaf(c, p) == IF c.pc = "splitLeaf" /\ c.pid = p THEN 1 ELSE 0
InScan(s, p) == IF s.pc \in {"entry", "callback"} /\ s.pid = p THEN 1 ELSE 0
Once(x, p) == IF x = p THEN 1 ELSE 0

\* The pins held are those of the path, of the Insert's node and of the Scan.
LEMMA HeldParts ==
  ASSUME Library
  PROVE
  /\ \A p : Held(p) = OnPath(stack, p) + InLeaf(call, p) + InScan(scan, p)
  /\ \A st \in Seq(Ancestor) : \A p : OnPath(st, p) \in Nat
  /\ \A p : OnPath(<<>>, p) = 0
  /\ \A c, p : InLeaf(c, p) \in 0 .. 1
  /\ \A s, p : InScan(s, p) \in 0 .. 1
<1>1. \A p : Held(p) = OnPath(stack, p) + InLeaf(call, p) + InScan(scan, p)
  BY DEF Held, OnPath, InLeaf, InScan
<1>2. ASSUME NEW st \in Seq(Ancestor), NEW p PROVE OnPath(st, p) \in Nat
  <2>1. DOMAIN st = 1 .. Len(st) /\ Len(st) \in Nat
    BY LenProperties
  <2>2. {d \in DOMAIN st : st[d].pid = p} \in SUBSET (1 .. Len(st))
    BY <2>1
  <2> QED
    BY <2>1, <2>2, CardInterval, CardSubset, CardType DEF OnPath
<1>3. ASSUME NEW p PROVE OnPath(<<>>, p) = 0
  <2>1. {d \in DOMAIN <<>> : <<>>[d].pid = p} = {}
    OBVIOUS
  <2> QED
    BY <2>1, CardEmpty DEF OnPath
<1> QED
  BY <1>1, <1>2, <1>3 DEF InLeaf, InScan

\* A page that goes on the path is held once more; the one popped once less.
LEMMA Pushed ==
  ASSUME Library, NEW st \in Seq(Ancestor), NEW a \in Ancestor, NEW p
  PROVE  OnPath(Append(st, a), p) = OnPath(st, p) + Once(a.pid, p)
<1> DEFINE x == Len(st) + 1
           S == {d \in DOMAIN st : st[d].pid = p}
           r == Append(st, a)
           R == {d \in DOMAIN r : r[d].pid = p}
<1>1. /\ Len(st) \in Nat /\ DOMAIN st = 1 .. Len(st) /\ DOMAIN r = 1 .. x
      /\ r[x] = a /\ \A d \in 1 .. Len(st) : r[d] = st[d]
  BY LenProperties, AppendProperties
<1>2. IsFiniteSet(S) /\ Cardinality(S) \in Nat
  <2>1. S \in SUBSET (1 .. Len(st))
    BY <1>1
  <2> HIDE DEF S
  <2> QED
    BY <1>1, <2>1, CardInterval, CardSubset, CardType
<1> HIDE DEF r
<1>3. R = IF a.pid = p THEN S \cup {x} ELSE S
  BY <1>1
<1>4. x \notin S
  BY <1>1
<1> HIDE DEF S, R
<1>5. Cardinality(R) = Cardinality(S) + Once(a.pid, p)
  <2>1. CASE a.pid = p
    <3>1. Cardinality(S \cup {x}) = Cardinality(S) + 1
      BY <1>2, <1>4, CardAdd
    <3> QED
      BY <1>3, <2>1, <3>1 DEF Once
  <2>2. CASE a.pid # p
    BY <1>2, <1>3, <2>2 DEF Once
  <2> QED
    BY <2>1, <2>2
<1>6. OnPath(st, p) = Cardinality(S) /\ OnPath(r, p) = Cardinality(R)
  BY DEF OnPath, S, R
<1> QED
  BY <1>5, <1>6 DEF r

\* Leaving the last ancestor gives back the one pin it has.
LEMMA Popped ==
  ASSUME Library, NEW st \in Seq(Ancestor), st # <<>>, NEW p
  PROVE  LET r == SubSeq(st, 1, Len(st) - 1)
         IN  /\ r \in Seq(Ancestor) /\ Len(r) = Len(st) - 1 /\ st[Len(st)] \in Ancestor
             /\ Len(st) \in Nat \ {0}
             /\ \A d \in 1 .. Len(st) - 1 : r[d] = st[d]
             /\ OnPath(st, p) = OnPath(r, p) + Once(st[Len(st)].pid, p)
<1> DEFINE r == SubSeq(st, 1, Len(st) - 1)
           a == st[Len(st)]
<1>1. Len(st) \in Nat \ {0} /\ DOMAIN st = 1 .. Len(st) /\ \A d \in 1 .. Len(st) : st[d] \in Ancestor
  BY LenProperties, EmptySeq, ElementOfSeq
<1>2. /\ r \in Seq(Ancestor) /\ Len(r) = Len(st) - 1
      /\ \A d \in 1 .. Len(st) - 1 : r[d] = st[d]
  <2>1. 0 \in Nat /\ Len(st) - 1 \in Nat /\ 0 + (Len(st) - 1) <= Len(st) /\ 1 = 0 + 1
        /\ Len(st) - 1 = 0 + (Len(st) - 1)
    BY <1>1
  <2>2. r \in Seq(Ancestor) /\ Slice(r, st, 0, Len(st) - 1)
    BY <2>1, SubSeqFacts
  <2> QED
    BY <1>1, <2>2 DEF Slice
<1>3. st = Append(r, a)
  <2>1. a \in Ancestor
    BY <1>1
  <2> HIDE DEF r, a
  <2>2. /\ Append(r, a) \in Seq(Ancestor) /\ Len(Append(r, a)) = Len(r) + 1
        /\ \A d \in 1 .. Len(r) : Append(r, a)[d] = r[d]
        /\ Append(r, a)[Len(r) + 1] = a
    BY <1>2, <2>1, AppendProperties
  <2>3. \A d \in 1 .. Len(st) : st[d] = Append(r, a)[d]
    BY <1>1, <1>2, <2>2 DEF a
  <2>4. Len(st) = Len(Append(r, a))
    BY <1>1, <1>2, <2>2
  <2> QED
    BY <2>2, <2>3, <2>4, SeqEqual
<1>4. OnPath(Append(r, a), p) = OnPath(r, p) + Once(a.pid, p)
  <2>1. a \in Ancestor
    BY <1>1
  <2> HIDE DEF r, a
  <2> QED
    BY <1>2, <2>1, Pushed
<1>5. a \in Ancestor
  BY <1>1
<1> HIDE DEF r, a
<1>6. OnPath(st, p) = OnPath(r, p) + Once(a.pid, p)
  BY <1>3, <1>4
<1> QED
  BY <1>1, <1>2, <1>5, <1>6 DEF r, a

\* Pins after a step that takes page x, gives it back, or does neither.
LEMMA PinsTaken ==
  ASSUME pins \in [PID -> Nat], PinsBalanced, NEW x \in PID, pins' = Pinned(x),
         \A p \in PID : Held(p)' = Held(p) + Once(x, p)
  PROVE  (pins \in [PID -> Nat])' /\ PinsBalanced'
  BY DEF PinsBalanced, Pinned, Once

\* One unpin keeps pins and holders in balance.
LEMMA PinsGiven ==
  ASSUME pins \in [PID -> Nat], PinsBalanced, NEW x \in PID, pins' = [pins EXCEPT ![x] = @ - 1],
         \A p \in PID : Held(p)' \in Nat /\ Held(p) = Held(p)' + Once(x, p)
  PROVE  (pins \in [PID -> Nat])' /\ PinsBalanced'
  BY DEF PinsBalanced, Once

\* A step that changes neither the pins nor their holders.
LEMMA PinsKept ==
  ASSUME pins \in [PID -> Nat], PinsBalanced, pins' = pins, \A p \in PID : Held(p)' = Held(p)
  PROVE  (pins \in [PID -> Nat])' /\ PinsBalanced'
  BY DEF PinsBalanced

-----------------------------------------------------------------------------
(* Descents.                                                               *)

\* The loop of findLeaf: it stops at a leaf and goes down to a child elsewhere.
Leaves == {q \in DOMAIN nodes : nodes[q].leaf}
Itself == [q \in DOMAIN nodes |-> q]
Down(key) == [q \in DOMAIN nodes |->
                IF q \in Leaves THEN q ELSE childAt(nodes[q], childIndex(nodes[q], key))]
\* A descent that is in G stays in G, and the leaf where it ends is in O.
Descends(G, O, key) ==
  /\ G \subseteq DOMAIN nodes
  /\ \A q \in G : IF nodes[q].leaf THEN q \in O
                  ELSE childAt(nodes[q], childIndex(nodes[q], key)) \in G

\* The child that a descent takes is a page one level below.
LEMMA ChildBelow ==
  ASSUME NEW rank, Tree(rank), NEW q \in DOMAIN nodes, ~nodes[q].leaf,
         NEW i \in 0 .. keyCount(nodes[q])
  PROVE  childAt(nodes[q], i) \in DOMAIN nodes /\ rank[q] = rank[childAt(nodes[q], i)] + 1
<1>1. /\ nodes[q] \in InternalNode /\ DOMAIN rank = DOMAIN nodes /\ Fits(rank, q, nodes[q])
  BY PageFacts DEF Tree
<1>2. /\ nodes[q].kids \in Seq(Nat) /\ Len(nodes[q].kids) = Len(nodes[q].keys) + 1
      /\ nodes[q].keys \in Seq(Key)
  BY <1>1, InternalParts
<1>3. DOMAIN nodes[q].kids = 1 .. Len(nodes[q].keys) + 1 /\ Len(nodes[q].keys) \in Nat
  BY <1>2, LenProperties
<1>4. i + 1 \in DOMAIN nodes[q].kids
  BY <1>3 DEF keyCount
<1> QED
  BY <1>1, <1>4 DEF Fits, childAt

\* Every page's keys are integers in a sequence.
LEMMA PageKeys ==
  ASSUME NEW rank, Tree(rank), NEW q \in DOMAIN nodes
  PROVE  nodes[q].keys \in Seq(Key) /\ nodes[q].keys \in Seq(Int) /\ keyCount(nodes[q]) \in Nat
<1>1. nodes[q].keys \in Seq(Key)
  BY PageFacts, LeafParts, InternalParts
<1> QED
  BY <1>1, KeysInt, LenProperties DEF keyCount

\* The descent of findLeaf ends, for the rank falls at each level.
LEMMA DescendLoop ==
  ASSUME Library, NEW rank, Tree(rank), NEW key
  PROVE  /\ Falls(DOMAIN nodes, Leaves, Down(key), rank)
         /\ \E f : /\ Loops(f, DOMAIN nodes, Leaves, Itself, Down(key))
                   /\ \A p : leafUnder(p, key) = f[p]
<1> DEFINE S == DOMAIN nodes
<1>1. ASSUME NEW q \in S \ Leaves
      PROVE  Down(key)[q] \in S /\ rank[q] = rank[Down(key)[q]] + 1
  <2>1. ~nodes[q].leaf /\ childIndex(nodes[q], key) \in 0 .. keyCount(nodes[q])
    BY PageKeys, SearchRange DEF Leaves
  <2>2. Down(key)[q] = childAt(nodes[q], childIndex(nodes[q], key))
    BY DEF Down
  <2> QED
    BY <2>1, <2>2, ChildBelow
<1>2. /\ \A q \in S : rank[q] \in Nat /\ rank[q] < Len(nodes) + 1
      /\ rank \in [S -> Nat] /\ Len(nodes) + 1 \in Nat
  BY PageFacts DEF Tree
<1>3. Falls(S, Leaves, Down(key), rank)
  <2>1. \A q \in S : Down(key)[q] \in S
    BY <1>1 DEF Down
  <2>2. Down(key) \in [S -> S]
    BY <2>1 DEF Down
  <2>3. \A q \in S \ Leaves : rank[Down(key)[q]] < rank[q]
    BY <1>1, <1>2
  <2> QED
    BY <1>2, <2>2, <2>3 DEF Falls
<1>4. PICK g : Loops(g, S, Leaves, Itself, Down(key))
  <2> HIDE DEF S
  <2> QED
    BY <1>2, <1>3, LoopDefined
<1> DEFINE Eq(f) == f = [q \in S |-> IF nodes[q].leaf THEN q
                                     ELSE f[childAt(nodes[q], childIndex(nodes[q], key))]]
<1>5. \A f : Eq(f) <=> Loops(f, S, Leaves, Itself, Down(key))
  BY DEF Loops, Leaves, Itself, Down
<1>6. \A p : leafUnder(p, key) = (CHOOSE f : Eq(f))[p]
  BY Zenon DEF leafUnder
<1>7. Eq(CHOOSE f : Eq(f))
  <2>1. \E f : Eq(f)
    BY <1>4, <1>5
  <2> HIDE DEF Eq
  <2> QED
    BY <2>1, Zenon
<1> HIDE DEF Eq, S
<1> QED
  BY <1>3, <1>5, <1>6, <1>7, Zenon DEF S

\* Where a descent ends.
LEMMA Descent ==
  ASSUME Library, NEW rank, Tree(rank), NEW key, NEW G, NEW O, Descends(G, O, key)
  PROVE  \A p \in G : leafUnder(p, key) \in O
<1>1. PICK f : /\ Loops(f, DOMAIN nodes, Leaves, Itself, Down(key))
               /\ \A p : leafUnder(p, key) = f[p]
  BY DescendLoop
<1>2. Falls(DOMAIN nodes, Leaves, Down(key), rank)
  BY DescendLoop
<1>3. Keeps(G, DOMAIN nodes, Leaves, Itself, Down(key), O)
  BY DEF Keeps, Descends, Leaves, Itself, Down
<1>4. \A p \in G : f[p] \in O
  BY <1>1, <1>2, <1>3, LoopResult
<1> QED
  BY <1>1, <1>4

\* Every descent ends at a leaf.
LEMMA DescentLeaf ==
  ASSUME Library, NEW rank, Tree(rank), NEW key, NEW p \in DOMAIN nodes
  PROVE  leafUnder(p, key) \in Leaves /\ rank[leafUnder(p, key)] = 0
<1>1. Descends(DOMAIN nodes, Leaves, key)
  <2>1. ASSUME NEW q \in DOMAIN nodes, ~nodes[q].leaf
        PROVE  childAt(nodes[q], childIndex(nodes[q], key)) \in DOMAIN nodes
    <3>1. childIndex(nodes[q], key) \in 0 .. keyCount(nodes[q])
      BY PageKeys, SearchRange
    <3> QED
      BY <2>1, <3>1, ChildBelow
  <2> QED
    BY <2>1 DEF Descends, Leaves
<1>2. leafUnder(p, key) \in Leaves
  BY <1>1, Descent
<1> QED
  BY <1>2, PageFacts DEF Leaves

\* The height that NewBTree's comment speaks of is the root's rank plus one.
LEMMA HeightRank ==
  ASSUME Library, NEW rank, Tree(rank), root \in DOMAIN nodes
  PROVE  Height = rank[root] + 1
<1> DEFINE S == DOMAIN nodes
           Eq(f) == f = [q \in S |-> IF nodes[q].leaf THEN 1 ELSE 1 + f[nodes[q].kids[1]]]
<1>1. ASSUME NEW q \in S, ~nodes[q].leaf
      PROVE  nodes[q].kids[1] \in S /\ rank[q] = rank[nodes[q].kids[1]] + 1
  <2>1. 0 \in 0 .. keyCount(nodes[q])
    BY PageKeys
  <2> QED
    BY <1>1, <2>1, ChildBelow DEF childAt
<1>2. /\ \A q \in S : rank[q] \in Nat /\ (nodes[q].leaf => rank[q] = 0)
      /\ rank \in [S -> Nat]
  BY PageFacts DEF Tree
<1>3. Eq([q \in S |-> rank[q] + 1])
  <2> DEFINE g == [q \in S |-> rank[q] + 1]
  <2>1. ASSUME NEW q \in S
        PROVE  rank[q] + 1 = IF nodes[q].leaf THEN 1 ELSE 1 + g[nodes[q].kids[1]]
    BY <1>1, <1>2
  <2> QED
    BY <2>1
<1>4. ASSUME NEW f, Eq(f) PROVE \A q \in S : f[q] = rank[q] + 1
  <2>1. SUFFICES ASSUME NEW b \in S, f[b] # rank[b] + 1 PROVE FALSE
    OBVIOUS
  <2>2. \A q \in S : f[q] = IF nodes[q].leaf THEN 1 ELSE 1 + f[nodes[q].kids[1]]
    BY <1>4
  <2> DEFINE Bad == {n \in Nat : \E q \in S : n = rank[q] /\ f[q] # rank[q] + 1}
  <2>3. Bad # {} /\ Bad \in SUBSET Nat
    BY <1>2, <2>1
  <2>4. PICK n \in Bad : \A m \in Bad : n <= m
    <3> HIDE DEF Bad
    <3> QED
      BY <2>3, LeastNat
  <2>5. PICK q \in S : n = rank[q] /\ f[q] # rank[q] + 1
    BY <2>4
  <2>6. ~nodes[q].leaf
    BY <1>2, <2>2, <2>5
  <2>7. f[nodes[q].kids[1]] = rank[nodes[q].kids[1]] + 1
    BY <1>1, <1>2, <2>4, <2>5, <2>6
  <2> QED
    BY <1>1, <1>2, <2>2, <2>5, <2>6, <2>7
<1>5. Height = (CHOOSE f : Eq(f))[root]
  BY Zenon DEF Height
<1>6. Eq(CHOOSE f : Eq(f))
  <2>1. \E f : Eq(f)
    BY <1>3
  <2> HIDE DEF Eq
  <2> QED
    BY <2>1, Zenon
<1> HIDE DEF Eq, S
<1> QED
  BY <1>4, <1>5, <1>6, Zenon DEF S

-----------------------------------------------------------------------------
(* What the steps of an Insert have in common.                             *)

\* What an Insert under way knows: the tree is open and its key and TID are
\* given.
LEMMA Busy ==
  ASSUME NEW rank, Ctl(rank), call.pc # "idle"
  PROVE  /\ opened /\ meta \in DOMAIN nodes /\ call # NoCall
         /\ call \in CallState /\ call.key \in Key /\ call.tid \in TID /\ call.key \in Int
         /\ call.pid \in Nat /\ call.sp \in Split /\ call.err \in {"nil", "io", "duplicate"}
         /\ stack \in Seq(Ancestor) /\ scan \in ScanState
         /\ scan.pc \in {"off", "callback"}
<1>1. call \in CallState /\ stack \in Seq(Ancestor) /\ opened /\ call.key \in Key /\ call.tid \in TID
  BY DEF Ctl, Calls
<1>2. meta \in DOMAIN nodes
  BY <1>1 DEF Ctl, File
<1>3. call # NoCall
  BY DEF NoCall
<1>4. scan \in ScanState /\ scan.pc \in {"off", "callback"}
  BY <1>3 DEF Ctl, Scans
<1>5. /\ call.key \in Int /\ call.pid \in Nat /\ call.sp \in Split
      /\ call.err \in {"nil", "io", "duplicate"}
  BY <1>1, CallParts
<1> QED
  BY <1>1, <1>2, <1>3, <1>4, <1>5

\* R agrees with rank on the pages that were there, and they are still there.
Extends(R, rank) ==
  DOMAIN nodes \subseteq DOMAIN nodes' /\ \A p \in DOMAIN nodes : R[p] = rank[p]

\* A scan whose callback inserts does not notice.
LEMMA ScansKept ==
  ASSUME NEW rank, NEW R, Ctl(rank), call.pc # "idle",
         scan' = scan, opened' = opened, Extends(R, rank)
  PROVE  Scans(R)'
<1>1. scan.pc \in {"off", "callback"} /\ call # NoCall
  BY Busy
<1>2. Scans(rank)
  BY DEF Ctl
<1> QED
  BY <1>1, <1>2 DEF Scans, Extends

\* The path, shortened or not, after a step that keeps the kinds of its pages.
LEMMA PathKept ==
  ASSUME NEW rank, NEW R, Path(rank), Extends(R, rank), meta' = meta, meta \in DOMAIN nodes,
         \A d \in DOMAIN stack' :
           /\ d \in DOMAIN stack /\ stack'[d] = stack[d]
           /\ stack[d].pid \in DOMAIN nodes =>
                /\ ~nodes[stack[d].pid].leaf => ~nodes'[stack[d].pid].leaf
                /\ stack[d].ci <= keyCount(nodes[stack[d].pid]) =>
                     stack[d].ci <= keyCount(nodes'[stack[d].pid])
  PROVE  Path(R)'
<1> SUFFICES ASSUME NEW d \in DOMAIN stack'
             PROVE  /\ stack'[d].pid \in DOMAIN nodes' /\ ~nodes'[stack'[d].pid].leaf
                    /\ stack'[d].ci <= keyCount(nodes'[stack'[d].pid])
                    /\ R[stack'[d].pid] + d = R[meta'] + 1
  BY DEF Path, keyCount, root
<1>1. /\ stack[d].pid \in DOMAIN nodes /\ ~nodes[stack[d].pid].leaf
      /\ stack[d].ci <= keyCount(nodes[stack[d].pid])
      /\ rank[stack[d].pid] + d = rank[meta] + 1
  BY DEF Path, root
<1> QED
  BY <1>1 DEF Extends

\* Insert's steps that only return: an error, or nothing to report.
LEMMA CallsReturn ==
  ASSUME NEW rank, Ctl(rank), call.pc # "idle", UNCHANGED treeVars,
         NEW e \in {"nil", "io", "duplicate"}, Return(NoSplit, e),
         stack' \in Seq(Ancestor), \A d \in DOMAIN stack' : d \in DOMAIN stack /\ stack'[d] = stack[d]
  PROVE  Calls(rank)' /\ call'.pc = "return"
<1>1. NoSplit \in Split
  BY CallParts
<1>3. /\ call' \in CallState /\ call'.pc = "return" /\ call'.sp = NoSplit
      /\ call'.key = call.key /\ call'.tid = call.tid
  BY <1>1, Busy, Returned
<1>4. Extends(rank, rank) /\ Path(rank) /\ meta' = meta /\ nodes' = nodes
  BY DEF Extends, treeVars, Ctl, Calls
<1>5. Path(rank)'
  BY <1>4, Busy, PathKept
<1>6. opened' = opened
  BY DEF treeVars
<1> QED
  BY <1>3, <1>5, <1>6, Busy DEF Calls, Pending

\* ... and leave the pins alone.
LEMMA PoolKept ==
  ASSUME Pool, UNCHANGED <<pins, changed, stack, scan>>, call.pc # "splitLeaf", call'.pc # "splitLeaf",
         Splitting \subseteq Splitting'
  PROVE  Pool'
<1>1. \A p \in PID : Held(p)' = Held(p)
  BY DEF Held
<1> QED
  BY <1>1, PinsKept DEF Pool

\* Insert: the FetchPage of a level fails.
LEMMA FetchFailsCtl ==
  ASSUME NEW rank, Ctl(rank), FetchFails
  PROVE  Ctl(rank)'
<1>1. call.pc = "into" /\ UNCHANGED <<treeVars, stack, scan, pool, ghosts>> /\ Return(NoSplit, "io")
      /\ Fault
  BY DEF FetchFails
<1>2. Calls(rank)' /\ call'.pc = "return"
  BY <1>1, CallsReturn, Busy
<1>3. Scans(rank)'
  BY <1>1, ScansKept DEF Extends, treeVars
<1>4. Pool'
  BY <1>1, <1>2, PoolKept DEF Ctl, pool, Splitting
<1>5. Ghosts'
  BY <1>1, BoundsAssumption DEF Ctl, Ghosts, ghosts, Fault
<1> QED
  BY <1>1, <1>2, <1>3, <1>4, <1>5 DEF Ctl, Tree, File, treeVars

-----------------------------------------------------------------------------
(* Insert's steps that leave the pages alone.                              *)

\* Insert: the key is there already; the leaf is released clean.
LEMMA LeafDuplicateCtl ==
  ASSUME NEW rank, Ctl(rank), LeafDuplicate
  PROVE  Ctl(rank)'
<1>1. /\ call.pc = "into" /\ UNCHANGED <<treeVars, stack, scan, pool, ghosts, faults>>
      /\ Return(NoSplit, "duplicate")
  BY DEF LeafDuplicate
<1>2. Calls(rank)' /\ call'.pc = "return"
  BY <1>1, CallsReturn, Busy
<1>3. Scans(rank)'
  BY <1>1, ScansKept DEF Extends, treeVars
<1>4. Pool'
  BY <1>1, <1>2, PoolKept DEF Ctl, pool, Splitting
<1> QED
  BY <1>1, <1>2, <1>3, <1>4 DEF Ctl, Tree, File, treeVars, Ghosts, ghosts

\* The last element of the path and what is left without it.
LEMMA PopFacts ==
  ASSUME Library, NEW rank, Ctl(rank), call.pc # "idle", stack # <<>>, Pop
  PROVE  /\ stack' \in Seq(Ancestor) /\ Len(stack') = Len(stack) - 1 /\ Len(stack) \in Nat \ {0}
         /\ DOMAIN stack' = 1 .. Len(stack) - 1 /\ DOMAIN stack = 1 .. Len(stack)
         /\ \A d \in DOMAIN stack' : d \in DOMAIN stack /\ stack'[d] = stack[d]
         /\ \A p : OnPath(stack, p) = OnPath(stack', p) + Once(Top.pid, p)
         /\ Len(stack) \in DOMAIN stack /\ Top.pid \in DOMAIN nodes /\ ~Parent.leaf
         /\ Top.ci \in 0 .. keyCount(Parent) /\ Parent \in InternalNode
         /\ rank[Top.pid] + Len(stack) = rank[root] + 1
<1>1. stack \in Seq(Ancestor) /\ stack' = SubSeq(stack, 1, Len(stack) - 1)
  BY Busy DEF Pop
<1>2. /\ stack' \in Seq(Ancestor) /\ Len(stack') = Len(stack) - 1 /\ Len(stack) \in Nat \ {0}
      /\ \A d \in 1 .. Len(stack) - 1 : stack'[d] = stack[d]
      /\ Top \in Ancestor
      /\ \A p : OnPath(stack, p) = OnPath(stack', p) + Once(Top.pid, p)
  BY <1>1, Popped DEF Top
<1>3. /\ DOMAIN stack' = 1 .. Len(stack) - 1 /\ DOMAIN stack = 1 .. Len(stack)
      /\ Len(stack) \in DOMAIN stack
  BY <1>1, <1>2, LenProperties
<1>4. /\ Top.pid \in DOMAIN nodes /\ ~nodes[Top.pid].leaf /\ Top.ci <= keyCount(nodes[Top.pid])
      /\ rank[Top.pid] + Len(stack) = rank[root] + 1
  BY <1>3 DEF Ctl, Calls, Path, Top
<1>5. nodes[Top.pid] \in InternalNode /\ Top.ci \in Nat
  BY <1>2, <1>4, PageFacts DEF Ctl, Ancestor
<1>6. keyCount(nodes[Top.pid]) \in Nat
  BY <1>5, InternalParts, LenProperties DEF keyCount
<1> QED
  BY <1>2, <1>3, <1>4, <1>5, <1>6 DEF Parent

\* The pool after the page on top of the path was unpinned.
LEMMA PoolPopped ==
  ASSUME Library, NEW rank, Ctl(rank), call.pc \notin {"idle", "splitLeaf"}, stack # <<>>, Pop, scan' = scan,
         call'.pc \notin {"splitLeaf"}, NEW dirty \in BOOLEAN, NEW chg, Unpin(Top.pid, dirty, chg),
         IF dirty THEN chg \subseteq {Top.pid} ELSE chg = {}
  PROVE  Pool'
<1>1. /\ pins \in [PID -> Nat] /\ PinsBalanced /\ Top.pid \in PID
      /\ pins' = [pins EXCEPT ![Top.pid] = @ - 1]
  BY PopFacts, PageFacts DEF Ctl, Pool, Unpin
<1>2. ASSUME NEW p \in PID PROVE Held(p)' \in Nat /\ Held(p) = Held(p)' + Once(Top.pid, p)
  <2>1. /\ OnPath(stack, p) = OnPath(stack', p) + Once(Top.pid, p)
        /\ OnPath(stack', p) \in Nat /\ Once(Top.pid, p) \in Nat
    BY PopFacts, HeldParts DEF Once
  <2>2. InLeaf(call, p) = 0 /\ InLeaf(call', p) = 0
    BY DEF InLeaf
  <2>3. Held(p) = OnPath(stack, p) + InLeaf(call, p) + InScan(scan, p)
    BY HeldParts
  <2>4. Held(p)' = OnPath(stack', p) + InLeaf(call', p) + InScan(scan, p)
    BY DEF Held, OnPath, InLeaf, InScan
  <2>5. InScan(scan, p) \in Nat
    BY HeldParts
  <2> QED
    BY <2>1, <2>2, <2>3, <2>4, <2>5
<1>3. (pins \in [PID -> Nat])' /\ PinsBalanced'
  BY <1>1, <1>2, PinsGiven
<1>4. changed' = {}
  BY DEF Unpin
<1> QED
  BY <1>3, <1>4 DEF Pool

\* Insert: nothing to absorb, or an error passed up; the ancestor is released.
LEMMA PassUpCtl ==
  ASSUME Library, NEW rank, Ctl(rank), PassUp
  PROVE  Ctl(rank)'
<1>1. /\ call.pc = "return" /\ stack # <<>> /\ (call.err # "nil" \/ call.sp = NoSplit)
      /\ Unpin(Top.pid, FALSE, changed) /\ Pop
      /\ UNCHANGED <<treeVars, call, scan, ghosts, faults>>
  BY DEF PassUp
<1>2. ~Pending /\ ~Pending'
  BY <1>1 DEF Ctl, Calls, Pending
<1>3. Path(rank)'
  <2>1. Path(rank) /\ Extends(rank, rank) /\ meta' = meta /\ nodes' = nodes
    BY <1>1 DEF Ctl, Calls, Extends, treeVars
  <2> QED
    BY <1>1, <2>1, PopFacts, Busy, PathKept
<1>4. Calls(rank)'
  BY <1>1, <1>2, <1>3, PopFacts, Busy DEF Ctl, Calls, treeVars
<1>5. Scans(rank)'
  BY <1>1, ScansKept DEF Extends, treeVars
<1>6. Pool'
  <2>1. changed = {}
    BY <1>1 DEF Ctl, Pool, Splitting
  <2> QED
    BY <1>1, <2>1, PoolPopped
<1> QED
  BY <1>1, <1>4, <1>5, <1>6 DEF Ctl, Tree, File, treeVars, Ghosts, ghosts

\* Insert: the NewPage of an internal split fails.
LEMMA splitInternalFailsCtl ==
  ASSUME Library, NEW rank, Ctl(rank), splitInternalFails
  PROVE  Ctl(rank)'
<1>1. /\ call.pc = "splitInternal" /\ Fault /\ Return(NoSplit, "io")
      /\ Unpin(Top.pid, TRUE, changed) /\ Pop /\ damaged' = TRUE
      /\ UNCHANGED <<treeVars, scan, acked>>
  BY DEF splitInternalFails
<1>2. stack # <<>>
  BY <1>1 DEF Ctl, Calls
<1>3. Calls(rank)' /\ call'.pc = "return"
  BY <1>1, <1>2, PopFacts, CallsReturn
<1>4. Scans(rank)'
  BY <1>1, ScansKept DEF Extends, treeVars
<1>5. Pool'
  <2>1. changed \subseteq {Top.pid}
    BY <1>1 DEF Ctl, Pool, Splitting
  <2> QED
    BY <1>1, <1>2, <1>3, <2>1, PoolPopped
<1>6. Ghosts'
  BY <1>1, BoundsAssumption DEF Ctl, Ghosts, Fault
<1> QED
  BY <1>1, <1>3, <1>4, <1>5, <1>6 DEF Ctl, Tree, File, treeVars

\* The page that the descent looks at.
LEMMA NodeFacts ==
  ASSUME Library, NEW rank, Ctl(rank), call.pc \in {"into", "splitLeaf"}
  PROVE  /\ call.pid \in DOMAIN nodes /\ call.pid \in PID
         /\ rank[call.pid] + Len(stack) = rank[root] /\ Len(stack) \in Nat
         /\ Node.leaf => Node \in LeafNode /\ rank[call.pid] = 0
         /\ ~Node.leaf => Node \in InternalNode
         /\ Node.keys \in Seq(Key) /\ Node.keys \in Seq(Int) /\ keyCount(Node) \in Nat
         /\ search(Node, call.key) \in 0 .. keyCount(Node)
         /\ childIndex(Node, call.key) \in 0 .. keyCount(Node)
<1>1. call.pid \in DOMAIN nodes /\ rank[call.pid] + Len(stack) = rank[root] /\ Len(stack) \in Nat
  BY Busy, LenProperties DEF Ctl, Calls
<1>2. /\ call.pid \in PID
      /\ Node.leaf => Node \in LeafNode /\ rank[call.pid] = 0
      /\ ~Node.leaf => Node \in InternalNode
  BY <1>1, PageFacts DEF Ctl, Node
<1>3. Node.keys \in Seq(Key)
  BY <1>2, LeafParts, InternalParts
<1>4. Node.keys \in Seq(Int)
  BY <1>3, KeysInt
<1> QED
  BY <1>1, <1>2, <1>3, <1>4, SearchRange

\* Insert: an internal node stays pinned while its child is visited.
LEMMA VisitInternalCtl ==
  ASSUME Library, NEW rank, Ctl(rank), VisitInternal
  PROVE  Ctl(rank)'
<1> DEFINE ci == childIndex(Node, call.key)
           kid == childAt(Node, ci)
           a == [pid |-> call.pid, ci |-> ci]
<1>1. /\ call.pc = "into" /\ ~Node.leaf /\ pins' = Pinned(call.pid) /\ stack' = Append(stack, a)
      /\ call' = [call EXCEPT !.pid = kid]
      /\ UNCHANGED <<treeVars, scan, changed, ghosts, faults>>
  BY DEF VisitInternal
<1>2. /\ ci \in 0 .. keyCount(Node) /\ keyCount(Node) \in Nat /\ Node \in InternalNode
      /\ call.pid \in DOMAIN nodes /\ call.pid \in PID
      /\ rank[call.pid] + Len(stack) = rank[root]
  BY <1>1, NodeFacts
<1>3. kid \in DOMAIN nodes /\ kid \in Nat /\ rank[call.pid] = rank[kid] + 1 /\ rank[kid] \in Nat
  <2>1. Len(Node.kids) = keyCount(Node) + 1 /\ DOMAIN Node.kids = 1 .. Len(Node.kids)
    BY <1>2, InternalParts, LenProperties DEF keyCount
  <2>2. ci + 1 \in DOMAIN Node.kids
    <3>1. ci + 1 \in 1 .. keyCount(Node) + 1
      BY <1>2
    <3> QED
      BY <2>1, <3>1
  <2>3. Fits(rank, call.pid, Node) /\ DOMAIN rank = DOMAIN nodes
    BY <1>2, PageFacts DEF Ctl, Tree, Node
  <2>4. kid \in DOMAIN nodes /\ rank[call.pid] = rank[kid] + 1
    BY <1>2, <2>2, <2>3 DEF Fits, childAt
  <2> QED
    BY <2>4, PageFacts DEF Ctl
<1> HIDE DEF kid, ci
<1>4. /\ call' \in CallState /\ call'.pc = "into" /\ call'.key = call.key /\ call'.tid = call.tid
      /\ call'.pid = kid
  BY <1>1, <1>3, Busy, Descended DEF Steps
<1>5. /\ stack \in Seq(Ancestor) /\ a \in Ancestor /\ a.pid = call.pid /\ a.ci = ci
      /\ Len(stack) \in Nat /\ DOMAIN stack = 1 .. Len(stack)
  BY <1>1, <1>2, Busy, LenProperties DEF Ancestor
<1>6. /\ stack' \in Seq(Ancestor) /\ Len(stack') = Len(stack) + 1
      /\ DOMAIN stack' = 1 .. Len(stack) + 1
      /\ \A d \in DOMAIN stack : stack'[d] = stack[d]
      /\ stack'[Len(stack) + 1] = a
  BY <1>1, <1>5, AppendProperties, LenProperties
<1>7. Path(rank)'
  <2> SUFFICES ASSUME NEW d \in DOMAIN stack'
               PROVE  /\ stack'[d].pid \in DOMAIN nodes /\ ~nodes[stack'[d].pid].leaf
                      /\ stack'[d].ci <= keyCount(nodes[stack'[d].pid])
                      /\ rank[stack'[d].pid] + d = rank[meta] + 1
    BY <1>1 DEF Path, treeVars, root
  <2>1. CASE d \in DOMAIN stack
    BY <1>6, <2>1 DEF Ctl, Calls, Path, root
  <2>2. CASE d = Len(stack) + 1
    <3>1. rank[call.pid] \in Nat /\ rank[meta] \in Nat
      BY <1>1, <1>2, Busy, PageFacts DEF Ctl
    <3>2. stack'[d].pid = call.pid /\ stack'[d].ci = ci
      BY <1>5, <1>6, <2>2
    <3>3. rank[call.pid] + Len(stack) = rank[meta]
      BY <1>2 DEF root
    <3>4. rank[call.pid] + d = rank[meta] + 1
      <4>1. Len(stack) \in Nat
        BY <1>5
      <4> QED
        BY <2>2, <3>1, <3>3, <4>1
    <3> QED
      BY <1>1, <1>2, <3>2, <3>4 DEF Node
  <2>3. d \in DOMAIN stack \/ d = Len(stack) + 1
    <3>1. Len(stack) \in Nat /\ DOMAIN stack = 1 .. Len(stack)
      BY <1>5
    <3>2. d \in 1 .. Len(stack) + 1
      BY <1>6
    <3> QED
      BY <3>1, <3>2
  <2> QED
    BY <2>1, <2>2, <2>3
<1>8. Calls(rank)'
  <2>1. rank[kid] + Len(stack') = rank[meta']
    <3>1. meta' = meta /\ rank[meta] \in Nat
      BY <1>1, Busy, PageFacts DEF Ctl, treeVars
    <3>2. rank[call.pid] + Len(stack) = rank[meta] /\ rank[call.pid] = rank[kid] + 1
      BY <1>2, <1>3 DEF root
    <3>3. Len(stack') = Len(stack) + 1
      BY <1>6
    <3>4. rank[kid] \in Nat
      BY <1>3
    <3> QED
      BY <1>5, <3>1, <3>2, <3>3, <3>4
  <2> QED
    BY <1>1, <1>3, <1>4, <1>6, <1>7, <2>1, Busy DEF Calls, Pending, treeVars, root
<1>9. Scans(rank)'
  BY <1>1, ScansKept DEF Extends, treeVars
<1>10. Pool'
  <2>1. ASSUME NEW p \in PID PROVE Held(p)' = Held(p) + Once(call.pid, p)
    <3>1. OnPath(stack', p) = OnPath(stack, p) + Once(call.pid, p)
      BY <1>1, <1>5, Pushed
    <3>2. Held(p) = OnPath(stack, p) + InLeaf(call, p) + InScan(scan, p)
      BY HeldParts
    <3>3. Held(p)' = OnPath(stack', p) + InLeaf(call', p) + InScan(scan, p)
      BY <1>1 DEF Held, OnPath, InLeaf, InScan
    <3>4. InLeaf(call, p) = 0 /\ InLeaf(call', p) = 0
      BY <1>1, <1>4 DEF InLeaf
    <3>5. OnPath(stack, p) \in Nat /\ InScan(scan, p) \in Nat /\ Once(call.pid, p) \in Nat
      BY <1>5, HeldParts DEF Once
    <3> QED
      BY <3>1, <3>2, <3>3, <3>4, <3>5
  <2>2. (pins \in [PID -> Nat])' /\ PinsBalanced'
    BY <1>1, <1>2, <2>1, PinsTaken DEF Ctl, Pool
  <2>3. changed' = {}
    BY <1>1 DEF Ctl, Pool, Splitting
  <2> QED
    BY <2>2, <2>3 DEF Pool
<1> QED
  BY <1>1, <1>8, <1>9, <1>10 DEF Ctl, Tree, File, treeVars, Ghosts, ghosts

\* The pool after the leaf that was to be split is unpinned.
LEMMA PoolLeafDone ==
  ASSUME Library, NEW rank, Ctl(rank), call.pc = "splitLeaf", UNCHANGED <<stack, scan>>,
         call'.pc # "splitLeaf", Unpin(call.pid, TRUE, changed)
  PROVE  Pool'
<1>1. /\ pins \in [PID -> Nat] /\ PinsBalanced /\ call.pid \in PID
      /\ pins' = [pins EXCEPT ![call.pid] = @ - 1]
  BY NodeFacts DEF Ctl, Pool, Unpin
<1>2. ASSUME NEW p \in PID PROVE Held(p)' \in Nat /\ Held(p) = Held(p)' + Once(call.pid, p)
  <2>1. OnPath(stack, p) \in Nat /\ InScan(scan, p) \in Nat
    BY Busy, HeldParts
  <2>2. InLeaf(call, p) = Once(call.pid, p) /\ InLeaf(call', p) = 0 /\ Once(call.pid, p) \in Nat
    BY DEF InLeaf, Once
  <2>3. Held(p) = OnPath(stack, p) + InLeaf(call, p) + InScan(scan, p)
    BY HeldParts
  <2>4. Held(p)' = OnPath(stack, p) + InLeaf(call', p) + InScan(scan, p)
    BY DEF Held, OnPath, InLeaf, InScan
  <2> QED
    BY <2>1, <2>2, <2>3, <2>4
<1>3. (pins \in [PID -> Nat])' /\ PinsBalanced'
  BY <1>1, <1>2, PinsGiven
<1>4. changed' = {}
  BY DEF Unpin, Ctl, Pool, Splitting
<1> QED
  BY <1>3, <1>4 DEF Pool

\* Insert: the NewPage of a leaf split fails.
LEMMA splitLeafFailsCtl ==
  ASSUME Library, NEW rank, Ctl(rank), splitLeafFails
  PROVE  Ctl(rank)'
<1>1. /\ call.pc = "splitLeaf" /\ Fault /\ Return(NoSplit, "io")
      /\ Unpin(call.pid, TRUE, changed) /\ damaged' = TRUE
      /\ UNCHANGED <<treeVars, stack, scan, acked>>
  BY DEF splitLeafFails
<1>2. Calls(rank)' /\ call'.pc = "return"
  BY <1>1, CallsReturn, Busy
<1>3. Scans(rank)'
  BY <1>1, ScansKept DEF Extends, treeVars
<1>4. Pool'
  BY <1>1, <1>2, PoolLeafDone
<1>5. Ghosts'
  BY <1>1, BoundsAssumption DEF Ctl, Ghosts, Fault
<1> QED
  BY <1>1, <1>2, <1>3, <1>4, <1>5 DEF Ctl, Tree, File, treeVars

\* Insert: the node was left at capacity by an earlier failure.
LEMMA OverrunCtl ==
  ASSUME NEW rank, Ctl(rank), Overrun
  PROVE  Ctl(rank)'
<1>1. /\ call.pc \in {"into", "return"} /\ call' = [call EXCEPT !.pc = "overrun"]
      /\ UNCHANGED <<treeVars, stack, scan, pool, ghosts, faults>>
  BY DEF Overrun
<1>2. /\ call' \in CallState /\ call'.pc = "overrun" /\ call'.key = call.key /\ call'.tid = call.tid
  BY <1>1, Busy, Moved DEF Steps
<1>3. Path(rank)'
  BY <1>1 DEF Ctl, Calls, Path, treeVars, root
<1>4. Calls(rank)'
  BY <1>1, <1>2, <1>3, Busy DEF Calls, Pending, treeVars
<1>5. Scans(rank)'
  BY <1>1, ScansKept DEF Extends, treeVars
<1>6. Pool'
  BY <1>1, <1>2, PoolKept DEF Ctl, pool, Splitting
<1> QED
  BY <1>1, <1>4, <1>5, <1>6 DEF Ctl, Tree, File, treeVars, Ghosts, ghosts

=============================================================================
