----------------------------- MODULE HeapProofs ------------------------------
(***************************************************************************)
(* The heap's safety, for pages of any size, any tuples, any number of     *)
(* pages, and any interleaving of inserts, scans, writes and restarts:     *)
(* what the operations do to one slotted page; the inductive invariant     *)
(* HInv of the heap, which every step keeps; and what follows from it.     *)
(***************************************************************************)
EXTENDS Heap, TLAPS

Words == 0 .. Word - 1
Raw == [0 .. PageSize - 1 -> Words]

\* A formatted page: its parts in their order, and tuples that do not overlap.
Laid(p) ==
  /\ p \in Raw /\ SlotCount(p) \in Nat
  /\ PdUpper(p) = 2 + 2 * SlotCount(p) /\ PdUpper(p) <= PdLower(p) /\ PdLower(p) <= PageSize
  /\ \A i \in 0 .. SlotCount(p) - 1 :
       /\ PdLower(p) <= p[2 + 2 * i] /\ p[2 + 2 * i] + p[3 + 2 * i] <= PageSize
       /\ \A j \in 0 .. SlotCount(p) - 1 :
            i < j => p[2 + 2 * j] + p[3 + 2 * j] <= p[2 + 2 * i]

-----------------------------------------------------------------------------
(* Sequences and numbers of pages.                                         *)

\* A sequence is a function on the first naturals.
LEMMA LenProperties == 
  ASSUME NEW S, NEW seq \in Seq(S)
  PROVE  /\ Len(seq) \in Nat
         /\ seq \in [1..Len(seq) -> S]
         /\ DOMAIN seq = 1 .. Len(seq) 
  OBVIOUS

\* Its elements are of the type of its elements.
LEMMA ElementOfSeq ==
   ASSUME NEW S, NEW seq \in Seq(S),
          NEW n \in 1..Len(seq)
   PROVE  seq[n] \in S
  OBVIOUS

\* Append adds one element at the end.
LEMMA AppendProperties ==
  ASSUME NEW S, NEW seq \in Seq(S), NEW elt \in S
  PROVE  /\ Append(seq, elt) \in Seq(S)
         /\ Append(seq, elt) # << >>
         /\ Len(Append(seq, elt)) = Len(seq)+1
         /\ \A i \in 1.. Len(seq) : Append(seq, elt)[i] = seq[i]
         /\ Append(seq, elt)[Len(seq)+1] = elt
  OBVIOUS

\* How many pages a file has that has none, and one with the pages 0 .. n.
Card(S) == Cardinality(S)
PagesCounted == Card({}) = 0 /\ \A n \in Nat : Card(0 .. n) = n + 1

-----------------------------------------------------------------------------
(* One page.                                                               *)

\* A page holds a header and a tuple, and a word of it an offset twice over.
LEMMA Sizes == PageSize \in Nat /\ 4 <= PageSize /\ Word \in Nat /\ 2 * PageSize <= Word
BY PageAssumption DEF HeaderSize, SlotEntrySize

\* Arithmetic on a uint16 changes nothing below its limit.
LEMMA ModSmall == \A n \in 0 .. Word - 1 : n % Word = n
BY Sizes

\* Half of twice a number.
LEMMA Halves == \A n \in Nat : (2 * n) \div 2 = n
OBVIOUS

\* The entry of a slot that is in the page.
LEMMA EntryAt == \A i \in Nat : 2 + 2 * i < PageSize => slotEntryAt(i) = 2 + 2 * i
<1> SUFFICES ASSUME NEW i \in Nat, 2 + 2 * i < PageSize
             PROVE  slotEntryAt(i) = 2 + 2 * i
  OBVIOUS
<1>1. 2 + 2 * i \in 0 .. Word - 1
  BY Sizes
<1>2. slotEntryAt(i) = (2 + 2 * i) % Word
  BY DEF slotEntryAt, HeaderSize, SlotEntrySize
<1> QED
  BY <1>1, <1>2, ModSmall

\* The slot count, from pd_upper.
LEMMA Counted == \A p, n : n \in Nat /\ PdUpper(p) = 2 + 2 * n /\ PdUpper(p) <= PageSize => SlotCount(p) = n
<1> SUFFICES ASSUME NEW p, NEW n \in Nat, PdUpper(p) = 2 + 2 * n, PdUpper(p) <= PageSize
             PROVE  SlotCount(p) = n
  OBVIOUS
<1>1. PdUpper(p) - 2 = 2 * n /\ 2 * n \in 0 .. Word - 1
  BY Sizes
<1>2. SlotCount(p) = ((PdUpper(p) - 2) % Word) \div 2
  BY DEF SlotCount, HeaderSize, SlotEntrySize
<1> QED
  BY <1>1, <1>2, ModSmall, Halves

\* The slots of a formatted page are readable, where the model finds them.
LEMMA SlotsReadable ==
  ASSUME NEW p, Laid(p), NEW i \in 0 .. SlotCount(p) - 1
  PROVE  /\ 2 + 2 * i \in 0 .. PageSize - 1 /\ 3 + 2 * i \in 0 .. PageSize - 1
         /\ Offset(p, i) = p[2 + 2 * i] /\ Length(p, i) = p[3 + 2 * i]
         /\ Offset(p, i) \in Nat /\ Length(p, i) \in Nat
         /\ PdLower(p) <= Offset(p, i) /\ Offset(p, i) + Length(p, i) <= PageSize
         /\ Readable(p, i)
<1>1. PdUpper(p) = 2 + 2 * SlotCount(p) /\ PdUpper(p) <= PageSize /\ SlotCount(p) \in Nat
  <2>1. PdUpper(p) \in Nat /\ PdLower(p) \in Nat
    BY Sizes DEF Laid, Raw, Words, PdUpper, PdLower
  <2> QED
    BY <2>1, Sizes DEF Laid
<1>2. 2 + 2 * i \in 0 .. PageSize - 1 /\ 3 + 2 * i \in 0 .. PageSize - 1
  BY <1>1, Sizes
<1>3. slotEntryAt(i) = 2 + 2 * i /\ slotEntryAt(i) + 1 = 3 + 2 * i
  <2>1. i \in Nat /\ 2 + 2 * i < PageSize
    BY <1>1, Sizes
  <2> QED
    BY <2>1, EntryAt
<1>4. Offset(p, i) = p[2 + 2 * i] /\ Length(p, i) = p[3 + 2 * i]
  BY <1>3 DEF Offset, Length
<1>5. p[2 + 2 * i] \in Nat /\ p[3 + 2 * i] \in Nat
  BY <1>2 DEF Laid, Raw, Words
<1>6. PdLower(p) <= p[2 + 2 * i] /\ p[2 + 2 * i] + p[3 + 2 * i] <= PageSize
  BY DEF Laid
<1>7. (p[2 + 2 * i] + p[3 + 2 * i]) % Word = p[2 + 2 * i] + p[3 + 2 * i]
  BY <1>5, <1>6, ModSmall, Sizes
<1>8. Readable(p, i)
  BY <1>2, <1>3, <1>4, <1>5, <1>6, <1>7, Sizes DEF Readable, InPage, SlotEntrySize
<1> QED
  BY <1>2, <1>4, <1>5, <1>6, <1>8

\* Init.
LEMMA FormattedLaid ==
  /\ Laid(Formatted) /\ SlotCount(Formatted) = 0 /\ PdUpper(Formatted) = 2
  /\ PdLower(Formatted) = PageSize
<1>1. Formatted = [w \in 0 .. PageSize - 1 |-> IF w = 1 THEN 2 ELSE IF w = 0 THEN PageSize ELSE 0]
  BY Sizes DEF Formatted, ZeroPage, HeaderSize
<1>2. PdUpper(Formatted) = 2 /\ PdLower(Formatted) = PageSize
  BY <1>1, Sizes DEF PdUpper, PdLower, HeaderSize, SlotEntrySize
<1>3. SlotCount(Formatted) = 0
  <2>1. 0 \in Nat /\ PdUpper(Formatted) = 2 + 2 * 0 /\ PdUpper(Formatted) <= PageSize
    BY <1>2, Sizes
  <2> QED
    BY <2>1, Counted
<1>4. Formatted \in Raw
  BY <1>1, Sizes DEF Raw, Words, HeaderSize, SlotEntrySize
<1> QED
  BY <1>2, <1>3, <1>4, Sizes DEF Laid, HeaderSize, SlotEntrySize

\* A zero page has no room.
LEMMA ZeroFull == \A data \in Tuple : ~Fits(ZeroPage, data)
<1> SUFFICES ASSUME NEW data \in Tuple PROVE ~Fits(ZeroPage, data)
  OBVIOUS
<1>1. Len(data) \in Nat
  BY HeapAssumption, LenProperties
<1>2. PdLower(ZeroPage) = 0 /\ PdUpper(ZeroPage) = 0
  BY Sizes DEF PdLower, PdUpper, ZeroPage, HeaderSize, SlotEntrySize
<1>3. FreeSpace(ZeroPage) = 0
  BY <1>2, ModSmall, Sizes DEF FreeSpace
<1> QED
  BY <1>1, <1>3 DEF Fits, SlotEntrySize

\* q is p with data in one more slot.
Grown(p, data, q) ==
  /\ Laid(q) /\ SlotCount(q) = SlotCount(p) + 1
  /\ LocateTuple(q, SlotCount(p)) = data
  /\ \A i \in 0 .. SlotCount(p) - 1 : LocateTuple(q, i) = LocateTuple(p, i)

\* InsertTuple adds a slot, and disturbs neither the other slots nor their tuples.
LEMMA InsertGrows ==
  ASSUME NEW p, Laid(p), NEW data \in Tuple, Fits(p, data)
  PROVE  Grown(p, data, InsertTuple(p, data))
<1> DEFINE q == InsertTuple(p, data)
           n == SlotCount(p)
           len == Len(data)
           low == PdLower(p)
           off == low - len
<1>1. /\ n \in Nat /\ len \in Nat /\ low \in Nat /\ off \in Int
      /\ PdUpper(p) = 2 + 2 * n /\ p \in Raw /\ low <= PageSize /\ off + len = low
  BY Sizes, HeapAssumption, LenProperties DEF Laid, Raw, Words, PdLower
<1>2. 4 + 2 * n <= off /\ off + len <= PageSize /\ len < Word
  <2>1. low - PdUpper(p) \in 0 .. Word - 1
    BY <1>1, Sizes DEF Laid
  <2>2. len + 2 <= low - PdUpper(p)
    BY <2>1, ModSmall DEF Fits, FreeSpace, SlotEntrySize
  <2> QED
    BY <1>1, <2>2, Sizes
<1>3. slotEntryAt(n) = 2 + 2 * n
  BY <1>1, <1>2, EntryAt, Sizes
<1>4. q = [w \in 0 .. PageSize - 1 |->
             CASE w = 0 -> off
               [] w = 1 -> 4 + 2 * n
               [] w = 2 + 2 * n -> off
               [] w = 3 + 2 * n -> len
               [] w >= off /\ w < off + len -> data[w - off + 1]
               [] OTHER -> p[w]]
  <2>1. PdUpper(p) + SlotEntrySize = 4 + 2 * n /\ slotEntryAt(n) + 1 = 3 + 2 * n
    BY <1>1, <1>3 DEF SlotEntrySize
  <2> QED
    BY <2>1, <1>3 DEF InsertTuple
<1> HIDE DEF q, n, len, low, off
<1>d. /\ 0 \in 0 .. PageSize - 1 /\ 1 \in 0 .. PageSize - 1
      /\ 2 + 2 * n \in 0 .. PageSize - 1 /\ 3 + 2 * n \in 0 .. PageSize - 1
      /\ 2 + 2 * n > 1
  BY <1>1, <1>2, Sizes
<1>5. /\ q[0] = off /\ q[1] = 4 + 2 * n /\ q[2 + 2 * n] = off /\ q[3 + 2 * n] = len
  <2>1. \A w \in {0, 1, 2 + 2 * n, 3 + 2 * n} : ~(w >= off /\ w < off + len)
    BY <1>1, <1>2
  <2>2. 2 + 2 * n # 0 /\ 2 + 2 * n # 1 /\ 3 + 2 * n # 0 /\ 3 + 2 * n # 1 /\ 2 + 2 * n # 3 + 2 * n
    BY <1>1
  <2>3. q[0] = off /\ q[1] = 4 + 2 * n
    BY <1>4, <1>d, <2>1, <2>2
  <2>4. q[2 + 2 * n] = off /\ q[3 + 2 * n] = len
    BY <1>4, <1>d, <2>1, <2>2
  <2> QED
    BY <2>3, <2>4
<1>6. ASSUME NEW w \in 0 .. PageSize - 1, w >= off, w < off + len
      PROVE  q[w] = data[w - off + 1]
  <2>1. w # 0 /\ w # 1 /\ w # 2 + 2 * n /\ w # 3 + 2 * n
    BY <1>1, <1>2, <1>6
  <2> QED
    BY <1>4, <1>6, <2>1
<1>7. ASSUME NEW w \in 0 .. PageSize - 1, (1 < w /\ w < 2 + 2 * n) \/ w >= off + len
      PROVE  q[w] = p[w]
  <2>1. w # 0 /\ w # 1 /\ w # 2 + 2 * n /\ w # 3 + 2 * n /\ ~(w >= off /\ w < off + len)
    BY <1>1, <1>2, <1>7
  <2> QED
    BY <1>4, <2>1
<1>8. q \in Raw
  <2>1. ASSUME NEW w \in 0 .. PageSize - 1 PROVE q[w] \in Words
    <3>1. CASE w \in {0, 1, 2 + 2 * n, 3 + 2 * n}
      BY <1>1, <1>2, <1>5, <3>1, Sizes DEF Words
    <3>2. CASE w >= off /\ w < off + len
      <4>1. w - off + 1 \in 1 .. len
        BY <1>1, <3>2
      <4> QED
        BY <1>6, <3>2, <4>1, HeapAssumption, ElementOfSeq DEF Words, len
    <3>3. CASE (1 < w /\ w < 2 + 2 * n) \/ w >= off + len
      BY <1>1, <1>7, <3>3 DEF Raw
    <3>4. CASE 3 + 2 * n < w /\ w < off
      <4>1. w # 0 /\ w # 1 /\ w # 2 + 2 * n /\ w # 3 + 2 * n /\ ~(w >= off /\ w < off + len)
        BY <1>1, <3>4
      <4> QED
        BY <1>1, <1>4, <4>1 DEF Raw
    <3> QED
      BY <1>1, <3>1, <3>2, <3>3, <3>4
  <2> QED
    BY <1>4, <2>1 DEF Raw
<1>9. PdLower(q) = off /\ PdUpper(q) = 4 + 2 * n /\ SlotCount(q) = n + 1
  <2>1. PdLower(q) = off /\ PdUpper(q) = 4 + 2 * n
    BY <1>5 DEF PdLower, PdUpper
  <2>2. n + 1 \in Nat /\ PdUpper(q) = 2 + 2 * (n + 1) /\ PdUpper(q) <= PageSize
    BY <1>1, <1>2, <2>1, Sizes
  <2> QED
    BY <2>1, <2>2, Counted
\* The old slots are as they were, and their tuples above the new one.
<1>10. ASSUME NEW i \in 0 .. n - 1
       PROVE  /\ q[2 + 2 * i] = p[2 + 2 * i] /\ q[3 + 2 * i] = p[3 + 2 * i]
              /\ p[2 + 2 * i] \in Nat /\ p[3 + 2 * i] \in Nat
              /\ low <= p[2 + 2 * i] /\ p[2 + 2 * i] + p[3 + 2 * i] <= PageSize
  <2>1. 2 + 2 * i \in 0 .. PageSize - 1 /\ 3 + 2 * i \in 0 .. PageSize - 1
    BY <1>1, <1>2, Sizes
  <2>2. 1 < 2 + 2 * i /\ 2 + 2 * i < 2 + 2 * n /\ 1 < 3 + 2 * i /\ 3 + 2 * i < 2 + 2 * n
    BY <1>1
  <2>3. p[2 + 2 * i] \in Nat /\ p[3 + 2 * i] \in Nat
    BY <1>1, <2>1 DEF Raw, Words
  <2>4. low <= p[2 + 2 * i] /\ p[2 + 2 * i] + p[3 + 2 * i] <= PageSize
    BY DEF Laid, n, low
  <2> QED
    BY <1>7, <2>1, <2>2, <2>3, <2>4
<1>11. Laid(q)
  <2>1. ASSUME NEW i \in 0 .. n
        PROVE  /\ off <= q[2 + 2 * i] /\ q[2 + 2 * i] + q[3 + 2 * i] <= PageSize
               /\ i # n => off + len <= q[2 + 2 * i]
    <3>1. CASE i = n
      BY <1>1, <1>2, <1>5, <3>1
    <3>2. CASE i # n
      <4>1. i \in 0 .. n - 1
        BY <1>1, <3>2
      <4> QED
        BY <1>1, <1>10, <4>1
    <3> QED
      BY <3>1, <3>2
  <2>2. ASSUME NEW i \in 0 .. n, NEW j \in 0 .. n, i < j
        PROVE  q[2 + 2 * j] + q[3 + 2 * j] <= q[2 + 2 * i]
    <3>1. CASE j = n
      BY <1>1, <1>5, <2>1, <2>2, <3>1
    <3>2. CASE j # n
      <4>1. i \in 0 .. n - 1 /\ j \in 0 .. n - 1
        BY <1>1, <2>2, <3>2
      <4>2. p[2 + 2 * j] + p[3 + 2 * j] <= p[2 + 2 * i]
        BY <2>2, <4>1 DEF Laid, n
      <4> QED
        BY <1>10, <4>1, <4>2
    <3> QED
      BY <3>1, <3>2
  <2>3. 0 .. SlotCount(q) - 1 = 0 .. n
    BY <1>1, <1>9
  <2>4. SlotCount(q) \in Nat /\ PdUpper(q) = 2 + 2 * SlotCount(q)
    BY <1>1, <1>9
  <2>5. PdUpper(q) <= PdLower(q) /\ PdLower(q) <= PageSize
    BY <1>1, <1>2, <1>9, Sizes
  <2> QED
    BY <1>8, <1>9, <2>1, <2>2, <2>3, <2>4, <2>5 DEF Laid
\* The new tuple is read back, and so are the old ones.
<1>12. LocateTuple(q, n) = data
  <2>1. n \in 0 .. SlotCount(q) - 1
    BY <1>1, <1>9
  <2>2. Offset(q, n) = off /\ Length(q, n) = len
    BY <1>5, <1>11, <2>1, SlotsReadable
  <2>3. \A k \in 1 .. len : q[off + k - 1] = data[k]
    <3> SUFFICES ASSUME NEW k \in 1 .. len PROVE q[off + k - 1] = data[k]
      OBVIOUS
    <3>1. /\ off + k - 1 \in 0 .. PageSize - 1 /\ off + k - 1 >= off /\ off + k - 1 < off + len
          /\ (off + k - 1) - off + 1 = k
      BY <1>1, <1>2, Sizes
    <3> QED
      BY <1>6, <3>1
  <2>4. data = [k \in 1 .. len |-> data[k]]
    BY HeapAssumption, LenProperties DEF len
  <2> QED
    BY <2>2, <2>3, <2>4 DEF LocateTuple
<1>13. ASSUME NEW i \in 0 .. n - 1 PROVE LocateTuple(q, i) = LocateTuple(p, i)
  <2> DEFINE o == p[2 + 2 * i]
             l == p[3 + 2 * i]
  <2>1. Offset(p, i) = o /\ Length(p, i) = l
    BY SlotsReadable DEF n
  <2>2. i \in 0 .. SlotCount(q) - 1
    BY <1>1, <1>9
  <2>3. Offset(q, i) = o /\ Length(q, i) = l
    BY <1>10, <1>11, <2>2, SlotsReadable
  <2>4. o \in Nat /\ l \in Nat /\ low <= o /\ o + l <= PageSize
    BY <1>10
  <2> HIDE DEF o, l
  <2>5. \A k \in 1 .. l : q[o + k - 1] = p[o + k - 1]
    <3> SUFFICES ASSUME NEW k \in 1 .. l PROVE q[o + k - 1] = p[o + k - 1]
      OBVIOUS
    <3>1. o + k - 1 \in 0 .. PageSize - 1 /\ o + k - 1 >= off + len
      BY <1>1, <2>4, Sizes DEF off
    <3> QED
      BY <1>7, <3>1
  <2> QED
    BY <2>1, <2>3, <2>5 DEF LocateTuple
<1> QED
  BY <1>9, <1>11, <1>12, <1>13 DEF Grown, q, n
-----------------------------------------------------------------------------
(* The inductive invariant.                                                *)

IsPage(p) == p = ZeroPage \/ Laid(p)
Slots(p) == IF p = ZeroPage THEN {} ELSE 0 .. SlotCount(p) - 1

\* Page p, which has the id pid, has the tuples of the ids S, as b has them.
PageHolds(p, pid, S, b) ==
  \A i \in Nat : /\ TID(pid, i) \in S <=> i \in Slots(p)
                 /\ i \in Slots(p) => b[TID(pid, i)] = LocateTuple(p, i)

Inserts == [pc : {"last", "grow", "format"}, data : Tuple, pid : Nat]
Ids == {TID(pid, i) : pid \in Nat, i \in Nat}
Shown == {<<tid, LocateTuple(p, i)>> : tid \in Ids, p \in Raw, i \in Nat}
Scans == [pc : {"fetch", "slot", "callback"}, pid : Nat, slot : Nat, n : Nat,
          seen : Seq(Shown), start : SUBSET Ids]

FileTypes ==
  /\ NumPages \in 0 .. MaxPages
  /\ DOMAIN pages = 0 .. NumPages - 1 /\ DOMAIN disk = 0 .. NumPages - 1
  /\ \A pid \in DOMAIN pages : IsPage(pages[pid]) /\ IsPage(disk[pid])
  /\ dirty \subseteq DOMAIN pages
  /\ \A t \in DOMAIN stored : \E pid \in DOMAIN pages, i \in Nat : t = TID(pid, i)
  /\ flushed \subseteq DOMAIN stored

CallTypes ==
  /\ pins \in [0 .. MaxPages - 1 -> Int]
  /\ ins = NoInsert \/ ins \in Inserts
  /\ scan = NoScan \/ scan \in Scans

\* Where the calls are: an Insert on the last page, a Scan on a page there is, and
\* an Insert within a Scan only in its callback.
Control ==
  /\ ins.pc \in {"last", "format"} => 0 < NumPages /\ ins.pid = NumPages - 1
  /\ ins.pc = "format" => pages[ins.pid] = ZeroPage
  /\ scan.pc \in {"slot", "callback"} => scan.pid < NumPages
  /\ scan.pc \in {"fetch", "slot"} => ins = NoInsert
  /\ scan.pc = "callback" /\ ins.pc = "format" => scan.pid < ins.pid

\* Pages hold what was stored, and the file what was written of it.
Contents ==
  \A pid \in DOMAIN pages : /\ PageHolds(pages[pid], pid, DOMAIN stored, stored)
                            /\ PageHolds(disk[pid], pid, flushed, stored)

HInv == FileTypes /\ CallTypes /\ Control /\ Contents /\ ChangesReported /\ PinsBalanced

-----------------------------------------------------------------------------
(* Facts about the parts of the state.                                     *)

\* What a store into the page changes.
LEMMA PutFacts ==
  \A f, k, v : /\ DOMAIN Put(f, k, v) = DOMAIN f \cup {k} /\ Put(f, k, v)[k] = v
              /\ \A x \in DOMAIN f : x # k => Put(f, k, v)[x] = f[x]
BY DEF Put

\* Two tuple ids are equal only if pages and slots are.
LEMMA TidEqual == \A p, i, q, j : TID(p, i) = TID(q, j) <=> p = q /\ i = j
BY DEF TID

\* The zero page that NewPage leaves has no layout yet.
LEMMA ZeroNotLaid == ~Laid(ZeroPage) /\ PdUpper(ZeroPage) = 0
<1>1. PdUpper(ZeroPage) = 0
  BY Sizes DEF PdUpper, ZeroPage
<1> QED
  BY <1>1 DEF Laid

\* A page is formatted if and only if it is laid out.
LEMMA FormattedIff == \A p : IsPage(p) => (IsFormatted(p) <=> Laid(p)) /\ (p # ZeroPage <=> Laid(p))
<1> SUFFICES ASSUME NEW p, IsPage(p)
             PROVE  (IsFormatted(p) <=> Laid(p)) /\ (p # ZeroPage <=> Laid(p))
  OBVIOUS
<1>1. CASE p = ZeroPage
  BY <1>1, ZeroNotLaid DEF IsFormatted
<1>2. CASE Laid(p)
  <2>1. PdUpper(p) = 2 + 2 * SlotCount(p) /\ SlotCount(p) \in Nat
    BY <1>2 DEF Laid
  <2>2. PdUpper(p) # 0
    BY <2>1
  <2> QED
    BY <1>2, <2>2, ZeroNotLaid DEF IsFormatted
<1> QED
  BY <1>1, <1>2 DEF IsPage

\* What a page holds after a tuple went into it.
LEMMA StoreHolds ==
  ASSUME NEW p, Laid(p), NEW pid, NEW b, NEW data, NEW q, Grown(p, data, q),
         PageHolds(p, pid, DOMAIN b, b)
  PROVE  LET tid == TID(pid, SlotCount(p))
             c == Put(b, tid, data)
         IN  tid \notin DOMAIN b /\ PageHolds(q, pid, DOMAIN c, c)
<1> DEFINE n == SlotCount(p)
           tid == TID(pid, n)
           c == Put(b, tid, data)
<1>1. n \in Nat /\ Slots(p) = 0 .. n - 1
  BY ZeroNotLaid DEF Laid, Slots
<1>2. Slots(q) = 0 .. n
  <2>1. q # ZeroPage /\ SlotCount(q) = n + 1
    BY ZeroNotLaid DEF Grown
  <2> QED
    BY <1>1, <2>1 DEF Slots
<1>3. tid \notin DOMAIN b
  BY <1>1 DEF PageHolds
<1>4. LocateTuple(q, n) = data /\ \A i \in 0 .. n - 1 : LocateTuple(q, i) = LocateTuple(p, i)
  BY DEF Grown
<1>5. \A i \in Nat : i # n => TID(pid, i) # tid
  BY TidEqual
<1> HIDE DEF tid, n
<1>6. DOMAIN c = DOMAIN b \cup {tid} /\ c[tid] = data /\ \A x \in DOMAIN b : x # tid => c[x] = b[x]
  BY DEF Put, c
<1> HIDE DEF c
<1>7. ASSUME NEW i \in Nat
      PROVE  /\ TID(pid, i) \in DOMAIN c <=> i \in 0 .. n
             /\ i \in 0 .. n => c[TID(pid, i)] = LocateTuple(q, i)
  <2>1. CASE i = n
    BY <1>1, <1>4, <1>6, <2>1 DEF tid
  <2>2. CASE i # n
    <3>1. i \in 0 .. n <=> i \in 0 .. n - 1
      BY <1>1, <2>2
    <3>2. TID(pid, i) \in DOMAIN b <=> i \in 0 .. n - 1
      BY <1>1 DEF PageHolds
    <3>3. i \in 0 .. n - 1 => b[TID(pid, i)] = LocateTuple(p, i)
      BY <1>1 DEF PageHolds
    <3> QED
      BY <1>4, <1>5, <1>6, <2>2, <3>1, <3>2, <3>3
  <2> QED
    BY <2>1, <2>2
<1>8. PageHolds(q, pid, DOMAIN c, c)
  BY <1>2, <1>7 DEF PageHolds
<1> QED
  BY <1>3, <1>8 DEF c, tid, n

\* Another page holds what it held, and so does the file.
LEMMA OthersHold ==
  ASSUME NEW r, NEW other, NEW S, NEW b, NEW tid, tid \notin DOMAIN b, NEW data,
         S \subseteq DOMAIN b, PageHolds(r, other, S, b)
  PROVE  LET c == Put(b, tid, data)
         IN  /\ PageHolds(r, other, S \ {tid}, c)
             /\ (\A i \in Nat : TID(other, i) # tid) => PageHolds(r, other, S \cup {tid}, c)
<1> DEFINE c == Put(b, tid, data)
<1>1. \A x \in S : x # tid /\ c[x] = b[x]
  BY PutFacts
<1> HIDE DEF c
<1>2. S \ {tid} = S
  BY <1>1
<1>3. PageHolds(r, other, S, c)
  BY <1>1 DEF PageHolds
<1>4. (\A i \in Nat : TID(other, i) # tid) => PageHolds(r, other, S \cup {tid}, c)
  BY <1>3 DEF PageHolds
<1> QED
  BY <1>2, <1>3, <1>4 DEF c

\* An empty page holds as little as a zero page.
LEMMA EmptyHolds ==
  \A pid, S, b : PageHolds(ZeroPage, pid, S, b) => PageHolds(Formatted, pid, S, b)
<1>1. Slots(ZeroPage) = {}
  BY DEF Slots
<1>2. Slots(Formatted) = {}
  BY FormattedLaid, ZeroNotLaid DEF Slots
<1> QED
  BY <1>1, <1>2 DEF PageHolds

\* A page has a count in any case, and its words.
LEMMA PageTypes == \A p : IsPage(p) => SlotCount(p) \in Nat /\ p \in Raw
<1>1. ZeroPage \in Raw
  BY Sizes DEF ZeroPage, Raw, Words
<1>2. SlotCount(ZeroPage) \in Nat
  <2>1. (0 - 2) % Word \in Nat
    BY Sizes
  <2>2. SlotCount(ZeroPage) = ((0 - 2) % Word) \div 2
    BY ZeroNotLaid DEF SlotCount, HeaderSize, SlotEntrySize
  <2> QED
    BY <2>1, <2>2
<1> QED
  BY <1>1, <1>2 DEF IsPage, Laid

-----------------------------------------------------------------------------
(* Steps that leave the pages alone.                                       *)

\* A step that changes no page.
LEMMA SamePages ==
  ASSUME HInv, UNCHANGED <<pages, disk, dirty, stored, flushed>>
  PROVE  NumPages' = NumPages /\ FileTypes' /\ Contents' /\ ChangesReported'
<1>1. NumPages' = NumPages
  BY DEF NumPages
<1>2. FileTypes'
  BY <1>1 DEF HInv, FileTypes
<1>3. Contents'
  BY DEF HInv, Contents
<1>4. ChangesReported'
  BY DEF HInv, ChangesReported
<1> QED
  BY <1>1, <1>2, <1>3, <1>4

\* The invariant holds of an empty heap.
LEMMA InitHolds == ASSUME PagesCounted PROVE Init => HInv
<1> SUFFICES ASSUME Init PROVE HInv
  OBVIOUS
<1>1. DOMAIN pages = {} /\ DOMAIN disk = {} /\ DOMAIN stored = {}
  BY DEF Init
<1>2. NumPages = 0
  BY <1>1 DEF NumPages, PagesCounted, Card
<1>3. FileTypes
  BY <1>1, <1>2, HeapAssumption DEF Init, FileTypes
<1>4. CallTypes
  BY DEF Init, CallTypes
<1>5. Control
  BY DEF Init, Control, NoInsert, NoScan
<1>6. Contents /\ ChangesReported
  BY <1>1 DEF Contents, ChangesReported
<1>7. PinsBalanced
  BY DEF Init, PinsBalanced, NoInsert, NoScan, Holds
<1> QED
  BY <1>3, <1>4, <1>5, <1>6, <1>7 DEF HInv

\* A call begins.
LEMMA InsertHolds == ASSUME HInv, NEW data \in Tuple, Insert(data) PROVE HInv'
<1>1. NumPages' = NumPages /\ FileTypes' /\ Contents' /\ ChangesReported'
  BY SamePages DEF Insert
<1>2. ins = NoInsert /\ ins.pc = "idle" /\ scan.pc \in {"idle", "callback"} /\ scan' = scan
  BY DEF Insert, CallerRuns, NoInsert
<1>3. NumPages \in 0 .. MaxPages
  BY DEF HInv, FileTypes
<1>4. pins \in [0 .. MaxPages - 1 -> Int] /\ (scan = NoScan \/ scan \in Scans)
  BY DEF HInv, CallTypes
<1>5. CASE NumPages > 0
  <2>1. /\ ins' = [pc |-> "last", data |-> data, pid |-> NumPages - 1]
        /\ pins' = [pins EXCEPT ![NumPages - 1] = @ + 1]
    BY <1>5 DEF Insert, Pin
  <2>2. ins'.pc = "last" /\ ins'.pid = NumPages - 1 /\ ins' \in Inserts
    BY <1>3, <1>5, <2>1 DEF Inserts
  <2>3. CallTypes'
    <3>1. pins' \in [0 .. MaxPages - 1 -> Int]
      BY <1>3, <1>4, <1>5, <2>1, HeapAssumption
    <3> QED
      BY <1>2, <1>4, <2>2, <3>1 DEF CallTypes
  <2>4. Control'
    BY <1>1, <1>2, <1>5, <2>2 DEF HInv, Control
  <2>5. PinsBalanced'
    BY <1>2, <1>3, <1>4, <1>5, <2>1, <2>2 DEF HInv, PinsBalanced, Holds
  <2> QED
    BY <1>1, <2>3, <2>4, <2>5 DEF HInv
<1>6. CASE ~(NumPages > 0)
  <2>1. ins' = [pc |-> "grow", data |-> data, pid |-> 0] /\ pins' = pins
    BY <1>6 DEF Insert
  <2>2. ins'.pc = "grow" /\ ins' \in Inserts
    BY <2>1 DEF Inserts
  <2>3. CallTypes'
    BY <1>2, <1>4, <2>1, <2>2 DEF CallTypes
  <2>4. Control'
    BY <1>1, <1>2, <2>2 DEF HInv, Control
  <2>5. PinsBalanced'
    BY <1>2, <2>1, <2>2 DEF HInv, PinsBalanced, Holds
  <2> QED
    BY <1>1, <2>3, <2>4, <2>5 DEF HInv
<1> QED
  BY <1>5, <1>6

\* The last page is full: its pin is given back.
LEMMA LastPageFullHolds == ASSUME HInv, LastPageFull PROVE HInv'
<1>1. NumPages' = NumPages /\ FileTypes' /\ Contents' /\ ChangesReported'
  BY SamePages DEF LastPageFull
<1>2. ins.pc = "last" /\ ins' = [ins EXCEPT !.pc = "grow"] /\ scan' = scan
      /\ pins' = [pins EXCEPT ![ins.pid] = @ - 1]
  BY DEF LastPageFull, ReleaseFull, Unpin
<1>3. NumPages \in 0 .. MaxPages /\ 0 < NumPages /\ ins.pid = NumPages - 1
  BY <1>2 DEF HInv, FileTypes, Control
<1>4. pins \in [0 .. MaxPages - 1 -> Int] /\ ins \in Inserts /\ (scan = NoScan \/ scan \in Scans)
  BY <1>2 DEF HInv, CallTypes, NoInsert
<1>5. ins' \in Inserts /\ ins'.pc = "grow"
  BY <1>2, <1>4 DEF Inserts
<1>6. CallTypes'
  <2>1. pins' \in [0 .. MaxPages - 1 -> Int]
    BY <1>2, <1>3, <1>4, HeapAssumption
  <2> QED
    BY <1>2, <1>4, <1>5, <2>1 DEF CallTypes
<1>7. scan.pc \notin {"fetch", "slot"}
  BY <1>2 DEF HInv, Control, NoInsert
<1>8. Control'
  BY <1>1, <1>2, <1>5, <1>7 DEF HInv, Control
<1>9. PinsBalanced'
  BY <1>2, <1>3, <1>4, <1>5 DEF HInv, PinsBalanced, Holds
<1> QED
  BY <1>1, <1>6, <1>8, <1>9 DEF HInv

\* Insert: NewPage fails.
LEMMA NewPageFailsHolds == ASSUME HInv, NewPageFails PROVE HInv'
<1>1. NumPages' = NumPages /\ FileTypes' /\ Contents' /\ ChangesReported'
  BY SamePages DEF NewPageFails
<1>2. ins.pc = "grow" /\ ins' = NoInsert /\ ins'.pc = "idle" /\ scan' = scan /\ pins' = pins
  BY DEF NewPageFails, NoInsert
<1>3. CallTypes'
  BY <1>2 DEF HInv, CallTypes
<1>4. Control'
  BY <1>1, <1>2 DEF HInv, Control
<1>5. PinsBalanced'
  BY <1>2 DEF HInv, PinsBalanced, Holds
<1> QED
  BY <1>1, <1>3, <1>4, <1>5 DEF HInv

-----------------------------------------------------------------------------
(* Steps that change pages.                                                *)

\* Insert: NewPage grows the file by a zero page.
LEMMA NewPageHolds == ASSUME PagesCounted, HInv, NewPage PROVE HInv'
<1> DEFINE n == NumPages
<1>1. /\ ins.pc = "grow" /\ n < MaxPages /\ scan' = scan /\ dirty' = dirty
      /\ stored' = stored /\ flushed' = flushed
      /\ pages' = Put(pages, n, ZeroPage) /\ disk' = Put(disk, n, ZeroPage)
      /\ pins' = [pins EXCEPT ![n] = @ + 1]
      /\ ins' = [ins EXCEPT !.pc = "format", !.pid = n]
  BY DEF NewPage, Pin
<1>2. n \in Nat /\ DOMAIN pages = 0 .. n - 1 /\ DOMAIN disk = 0 .. n - 1 /\ n \notin DOMAIN pages
  BY HeapAssumption DEF HInv, FileTypes
<1> HIDE DEF n
<1>3. /\ DOMAIN pages' = DOMAIN pages \cup {n} /\ DOMAIN disk' = DOMAIN disk \cup {n}
      /\ pages'[n] = ZeroPage /\ disk'[n] = ZeroPage
      /\ \A pid \in DOMAIN pages : pages'[pid] = pages[pid] /\ disk'[pid] = disk[pid]
  BY <1>1, <1>2 DEF Put
<1>4. DOMAIN pages' = 0 .. n /\ DOMAIN disk' = 0 .. n
  BY <1>2, <1>3
<1>5. NumPages' = n + 1
  <2>1. Cardinality(0 .. n) = n + 1
    BY <1>2 DEF PagesCounted, Card
  <2> QED
    BY <1>4, <2>1 DEF NumPages
<1>6. FileTypes'
  <2>1. \A pid \in DOMAIN pages' : IsPage(pages'[pid]) /\ IsPage(disk'[pid])
    BY <1>3 DEF HInv, FileTypes, IsPage
  <2>2. /\ \A t \in DOMAIN stored : \E pid \in DOMAIN pages', i \in Nat : t = TID(pid, i)
        /\ flushed \subseteq DOMAIN stored /\ dirty \subseteq DOMAIN pages'
    BY <1>3 DEF HInv, FileTypes
  <2>3. NumPages' \in 0 .. MaxPages /\ 0 .. n = 0 .. NumPages' - 1
    BY <1>1, <1>2, <1>5, HeapAssumption
  <2> QED
    BY <1>1, <1>4, <2>1, <2>2, <2>3 DEF FileTypes
<1>7. ins \in Inserts /\ (scan = NoScan \/ scan \in Scans) /\ pins \in [0 .. MaxPages - 1 -> Int]
  BY <1>1 DEF HInv, CallTypes, NoInsert
<1>8. ins' \in Inserts /\ ins'.pc = "format" /\ ins'.pid = n
  BY <1>1, <1>2, <1>7 DEF Inserts
<1>9. CallTypes'
  <2>1. pins' \in [0 .. MaxPages - 1 -> Int]
    BY <1>1, <1>2, <1>7, HeapAssumption
  <2> QED
    BY <1>1, <1>7, <1>8, <2>1 DEF CallTypes
<1>10. Control'
  <2>1. scan.pc \notin {"fetch", "slot"}
    BY <1>1 DEF HInv, Control, NoInsert
  <2>2. scan.pc = "callback" => scan.pid < n /\ scan.pid \in Nat
    BY <1>7 DEF HInv, Control, n, NoScan, Scans
  <2> QED
    BY <1>1, <1>2, <1>3, <1>5, <1>8, <2>1, <2>2 DEF Control
<1>11. Contents'
  <2>1. PageHolds(ZeroPage, n, DOMAIN stored, stored) /\ PageHolds(ZeroPage, n, flushed, stored)
    <3>1. \A i \in Nat : TID(n, i) \notin DOMAIN stored /\ TID(n, i) \notin flushed
      BY <1>2, TidEqual DEF HInv, FileTypes
    <3> QED
      BY <3>1 DEF PageHolds, Slots
  <2>2. ASSUME NEW pid \in DOMAIN pages
        PROVE  /\ PageHolds(pages'[pid], pid, DOMAIN stored, stored)
               /\ PageHolds(disk'[pid], pid, flushed, stored)
    BY <1>3 DEF HInv, Contents
  <2> QED
    BY <1>1, <1>3, <2>1, <2>2 DEF Contents
<1>12. ChangesReported'
  BY <1>1, <1>3 DEF HInv, ChangesReported
<1>13. PinsBalanced'
  <2>1. scan.pc \in {"slot", "callback"} => scan.pid # n
    BY <1>2, <1>7 DEF HInv, Control, n, NoScan, Scans
  <2> QED
    BY <1>1, <1>2, <1>7, <1>8, <2>1, HeapAssumption DEF HInv, PinsBalanced, Holds
<1> QED
  BY <1>6, <1>9, <1>10, <1>11, <1>12, <1>13 DEF HInv

\* A page becomes q, and is reported.
LEMMA Replaced ==
  ASSUME HInv, NEW pid \in DOMAIN pages, NEW q, Laid(q), Changed(pid, q), disk' = disk,
         \A t \in DOMAIN stored' : \E x \in DOMAIN pages, i \in Nat : t = TID(x, i),
         flushed' \subseteq DOMAIN stored'
  PROVE  /\ NumPages' = NumPages /\ FileTypes' /\ ChangesReported'
         /\ DOMAIN pages' = DOMAIN pages /\ pages'[pid] = q
         /\ \A other \in DOMAIN pages : other # pid => pages'[other] = pages[other]
<1>1. pages' = Put(pages, pid, q) /\ dirty' = dirty \cup {pid}
  BY DEF Changed
<1>2. /\ DOMAIN pages' = DOMAIN pages /\ pages'[pid] = q
      /\ \A other \in DOMAIN pages : other # pid => pages'[other] = pages[other]
  BY <1>1 DEF Put
<1>3. NumPages' = NumPages
  BY <1>2 DEF NumPages
<1>4. FileTypes'
  <2>1. \A x \in DOMAIN pages' : IsPage(pages'[x]) /\ IsPage(disk'[x])
    BY <1>2 DEF HInv, FileTypes, IsPage
  <2> QED
    BY <1>1, <1>2, <1>3, <2>1 DEF HInv, FileTypes
<1>5. ChangesReported'
  BY <1>1, <1>2 DEF HInv, ChangesReported
<1> QED
  BY <1>2, <1>3, <1>4, <1>5

\* A tuple went into page pid, which had been like p.
LEMMA TupleStored ==
  ASSUME HInv, NEW pid \in DOMAIN pages, NEW p, Laid(p), NEW q, Grown(p, ins.data, q),
         PageHolds(p, pid, DOMAIN stored, stored),
         Changed(pid, q), Stored(pid, p), disk' = disk
  PROVE  NumPages' = NumPages /\ FileTypes' /\ Contents' /\ ChangesReported'
<1> DEFINE tid == TID(pid, SlotCount(p))
<1>1. SlotCount(p) \in Nat /\ Laid(q)
  BY DEF Laid, Grown
<1>2. stored' = Put(stored, tid, ins.data) /\ flushed' = flushed \ {tid}
  BY DEF Stored
<1>3. tid \notin DOMAIN stored /\ PageHolds(q, pid, DOMAIN stored', stored')
  BY <1>2, StoreHolds
<1>4. \A other \in DOMAIN pages : other # pid => \A i \in Nat : TID(other, i) # tid
  BY TidEqual
<1>5. \A t \in DOMAIN stored \cup {tid} : \E x \in DOMAIN pages, i \in Nat : t = TID(x, i)
  BY <1>1 DEF HInv, FileTypes
<1> HIDE DEF tid
<1>6. DOMAIN stored' = DOMAIN stored \cup {tid}
  BY <1>2 DEF Put
<1>7. flushed \subseteq DOMAIN stored /\ flushed' \subseteq DOMAIN stored'
  BY <1>2, <1>6 DEF HInv, FileTypes
<1>8. /\ NumPages' = NumPages /\ FileTypes' /\ ChangesReported'
      /\ DOMAIN pages' = DOMAIN pages /\ pages'[pid] = q
      /\ \A other \in DOMAIN pages : other # pid => pages'[other] = pages[other]
  BY <1>1, <1>5, <1>6, <1>7, Replaced
<1>9. ASSUME NEW x \in DOMAIN pages PROVE PageHolds(disk[x], x, flushed', stored')
  <2>1. PageHolds(disk[x], x, flushed, stored)
    BY DEF HInv, Contents
  <2> QED
    BY <1>2, <1>3, <1>7, <2>1, OthersHold
<1>10. ASSUME NEW x \in DOMAIN pages, x # pid PROVE PageHolds(pages'[x], x, DOMAIN stored', stored')
  <2>1. PageHolds(pages'[x], x, DOMAIN stored, stored)
    BY <1>8, <1>10 DEF HInv, Contents
  <2>2. \A i \in Nat : TID(x, i) # tid
    BY <1>4, <1>10
  <2>3. PageHolds(pages'[x], x, DOMAIN stored \cup {tid}, Put(stored, tid, ins.data))
    BY <1>3, <2>1, <2>2, OthersHold
  <2> QED
    BY <1>2, <1>6, <2>3
<1>11. Contents'
  BY <1>3, <1>8, <1>9, <1>10 DEF Contents
<1> QED
  BY <1>8, <1>11

\* An Insert returns, and unpins its page.
LEMMA InsertReturns ==
  ASSUME HInv, ins.pc \in {"last", "format"}, Unpin(ins.pid), ins' = NoInsert, scan' = scan,
         NumPages' = NumPages
  PROVE  CallTypes' /\ Control' /\ PinsBalanced'
<1>1. pins' = [pins EXCEPT ![ins.pid] = @ - 1] /\ ins'.pc = "idle"
  BY DEF Unpin, NoInsert
<1>2. NumPages \in 0 .. MaxPages /\ 0 < NumPages /\ ins.pid = NumPages - 1
  BY DEF HInv, FileTypes, Control
<1>3. pins \in [0 .. MaxPages - 1 -> Int] /\ (scan = NoScan \/ scan \in Scans)
  BY DEF HInv, CallTypes
<1>4. CallTypes'
  <2>1. pins' \in [0 .. MaxPages - 1 -> Int]
    BY <1>1, <1>2, <1>3, HeapAssumption
  <2> QED
    BY <1>3, <2>1 DEF CallTypes
<1>5. Control'
  BY <1>1 DEF HInv, Control
<1>6. PinsBalanced'
  <2> DEFINE S(pid) == Holds(scan.pc \in {"slot", "callback"} /\ scan.pid = pid)
  <2> SUFFICES ASSUME NEW pid \in DOMAIN pins
               PROVE  pins'[pid] = Holds(ins'.pc \in {"last", "format"} /\ ins'.pid = pid) + S(pid)
    BY <1>1, <1>3 DEF PinsBalanced
  <2>1. Holds(ins'.pc \in {"last", "format"} /\ ins'.pid = pid) = 0
    BY <1>1 DEF Holds
  <2>2. S(pid) \in Int
    BY DEF Holds
  <2>3. pins[pid] = Holds(ins.pid = pid) + S(pid)
    BY DEF HInv, PinsBalanced
  <2> HIDE DEF S
  <2>4. CASE pid = ins.pid
    <3>1. pins[pid] = 1 + S(pid)
      BY <2>3, <2>4 DEF Holds
    <3>2. pins'[pid] = pins[pid] - 1
      BY <1>1, <2>4
    <3> QED
      BY <2>1, <2>2, <3>1, <3>2
  <2>5. CASE pid # ins.pid
    <3>1. pins[pid] = 0 + S(pid)
      BY <2>3, <2>5 DEF Holds
    <3>2. pins'[pid] = pins[pid]
      BY <1>1, <2>5
    <3> QED
      BY <2>1, <3>1, <3>2
  <2> QED
    BY <2>4, <2>5
<1> QED
  BY <1>4, <1>5, <1>6

\* The tuple fits the last page, which is therefore not a zero page.
LEMMA InsertLastHolds == ASSUME HInv, InsertLast PROVE HInv'
<1> DEFINE p == pages[ins.pid]
<1>1. /\ ins.pc = "last" /\ Fits(p, ins.data) /\ Changed(ins.pid, InsertTuple(p, ins.data))
      /\ Stored(ins.pid, p) /\ Unpin(ins.pid) /\ ins' = NoInsert /\ disk' = disk /\ scan' = scan
  BY DEF InsertLast
<1>2. ins.pid \in DOMAIN pages
  BY <1>1 DEF HInv, FileTypes, Control
<1>3. ins.data \in Tuple
  BY <1>1 DEF HInv, CallTypes, NoInsert, Inserts
<1>4. Laid(p)
  BY <1>1, <1>2, <1>3, ZeroFull DEF HInv, FileTypes, IsPage
<1>5. PageHolds(p, ins.pid, DOMAIN stored, stored)
  BY <1>2 DEF HInv, Contents
<1> HIDE DEF p
<1>6. Grown(p, ins.data, InsertTuple(p, ins.data))
  BY <1>1, <1>3, <1>4, InsertGrows
<1>7. NumPages' = NumPages /\ FileTypes' /\ Contents' /\ ChangesReported'
  BY <1>1, <1>2, <1>4, <1>5, <1>6, TupleStored
<1> QED
  BY <1>1, <1>7, InsertReturns DEF HInv

\* The new page, which was zero, is formatted, and the tuple fits or does not.
LEMMA InsertFreshHolds == ASSUME HInv, InsertFresh PROVE HInv'
<1>1. /\ ins.pc = "format" /\ Unpin(ins.pid) /\ ins' = NoInsert /\ disk' = disk /\ scan' = scan
  BY DEF InsertFresh
<1>2. ins.pid \in DOMAIN pages /\ pages[ins.pid] = ZeroPage
  BY <1>1 DEF HInv, FileTypes, Control
<1>3. ins.data \in Tuple
  BY <1>1 DEF HInv, CallTypes, NoInsert, Inserts
<1>4. PageHolds(Formatted, ins.pid, DOMAIN stored, stored)
  BY <1>2, EmptyHolds DEF HInv, Contents
<1>5. NumPages' = NumPages /\ FileTypes' /\ Contents' /\ ChangesReported'
  <2>1. CASE Fits(Formatted, ins.data)
    <3>1. Changed(ins.pid, InsertTuple(Formatted, ins.data)) /\ Stored(ins.pid, Formatted)
      BY <2>1 DEF InsertFresh
    <3>2. Grown(Formatted, ins.data, InsertTuple(Formatted, ins.data))
      BY <1>3, <2>1, FormattedLaid, InsertGrows
    <3> QED
      BY <1>1, <1>2, <1>4, <3>1, <3>2, FormattedLaid, TupleStored
  <2>2. CASE ~Fits(Formatted, ins.data)
    <3>1. Changed(ins.pid, Formatted) /\ stored' = stored /\ flushed' = flushed
      BY <2>2 DEF InsertFresh, ReleaseEmpty
    <3>2. /\ NumPages' = NumPages /\ FileTypes' /\ ChangesReported'
          /\ DOMAIN pages' = DOMAIN pages /\ pages'[ins.pid] = Formatted
          /\ \A other \in DOMAIN pages : other # ins.pid => pages'[other] = pages[other]
      <4>1. /\ \A t \in DOMAIN stored' : \E x \in DOMAIN pages, i \in Nat : t = TID(x, i)
            /\ flushed' \subseteq DOMAIN stored'
        BY <3>1 DEF HInv, FileTypes
      <4> QED
        BY <1>1, <1>2, <3>1, <4>1, FormattedLaid, Replaced
    <3>3. Contents'
      BY <1>1, <1>4, <3>1, <3>2 DEF HInv, Contents
    <3> QED
      BY <3>2, <3>3
  <2> QED
    BY <2>1, <2>2
<1> QED
  BY <1>1, <1>5, InsertReturns DEF HInv

\* A dirty page is written, and what it holds is in the file.
LEMMA WriteBackHolds == ASSUME HInv, NEW pid \in DOMAIN pages, WriteBack(pid) PROVE HInv'
<1>1. /\ disk' = [disk EXCEPT ![pid] = pages[pid]] /\ dirty' = dirty \ {pid}
      /\ flushed' = flushed \cup {t \in DOMAIN stored : t[1] = pid}
      /\ UNCHANGED <<pages, pins, ins, scan, stored>>
  BY DEF WriteBack
<1>2. /\ DOMAIN disk' = DOMAIN disk /\ disk'[pid] = pages[pid]
      /\ \A x \in DOMAIN pages : x # pid => disk'[x] = disk[x]
  BY <1>1 DEF HInv, FileTypes
<1>3. NumPages' = NumPages
  BY <1>1 DEF NumPages
<1>4. FileTypes'
  <2>1. \A x \in DOMAIN pages : IsPage(disk'[x])
    BY <1>2 DEF HInv, FileTypes
  <2> QED
    BY <1>1, <1>2, <1>3, <2>1 DEF HInv, FileTypes
<1>5. CallTypes' /\ Control' /\ PinsBalanced'
  BY <1>1, <1>3 DEF HInv, CallTypes, Control, PinsBalanced
<1>6. ChangesReported'
  BY <1>1, <1>2 DEF HInv, ChangesReported
<1>7. Contents'
  <2>1. \A x, i : TID(x, i)[1] = x
    BY DEF TID
  <2>2. ASSUME NEW x \in DOMAIN pages PROVE PageHolds(disk'[x], x, flushed', stored)
    <3>1. PageHolds(pages[x], x, DOMAIN stored, stored) /\ PageHolds(disk[x], x, flushed, stored)
      BY DEF HInv, Contents
    <3>2. flushed \subseteq DOMAIN stored
      BY DEF HInv, FileTypes
    <3>3. CASE x = pid
      <4>1. \A i \in Nat : TID(x, i) \in flushed' <=> TID(x, i) \in DOMAIN stored
        BY <1>1, <2>1, <3>2, <3>3
      <4> QED
        BY <1>2, <3>1, <3>3, <4>1 DEF PageHolds
    <3>4. CASE x # pid
      <4>1. \A i \in Nat : TID(x, i) \in flushed' <=> TID(x, i) \in flushed
        BY <1>1, <2>1, <3>4
      <4> QED
        BY <1>2, <3>1, <3>4, <4>1 DEF PageHolds
    <3> QED
      BY <3>3, <3>4
  <2> QED
    BY <1>1, <2>2 DEF HInv, Contents
<1> QED
  BY <1>4, <1>5, <1>6, <1>7 DEF HInv

\* A restart leaves what is in the file.
LEMMA RestartHolds == ASSUME HInv, Restart PROVE HInv'
<1>1. /\ pages' = disk /\ disk' = disk /\ dirty' = {} /\ pins' = [pid \in DOMAIN pins |-> 0]
      /\ ins' = NoInsert /\ scan' = NoScan /\ ins'.pc = "idle" /\ scan'.pc = "idle"
      /\ stored' = [t \in flushed |-> stored[t]] /\ flushed' = flushed
  BY DEF Restart, NoInsert, NoScan
<1>2. DOMAIN disk = DOMAIN pages /\ DOMAIN stored' = flushed /\ \A t \in flushed : stored'[t] = stored[t]
  BY <1>1 DEF HInv, FileTypes
<1>3. NumPages' = NumPages
  BY <1>1, <1>2 DEF NumPages
<1>4. FileTypes'
  BY <1>1, <1>2, <1>3 DEF HInv, FileTypes
<1>5. CallTypes' /\ Control' /\ ChangesReported'
  BY <1>1 DEF HInv, CallTypes, Control, ChangesReported
<1>6. PinsBalanced'
  BY <1>1 DEF PinsBalanced, Holds
<1>7. Contents'
  <2>1. ASSUME NEW x \in DOMAIN pages PROVE PageHolds(disk[x], x, flushed, stored')
    <3>1. PageHolds(disk[x], x, flushed, stored)
      BY DEF HInv, Contents
    <3> QED
      BY <1>2, <3>1 DEF PageHolds
  <2> QED
    BY <1>1, <1>2, <2>1 DEF Contents
<1> QED
  BY <1>4, <1>5, <1>6, <1>7 DEF HInv

-----------------------------------------------------------------------------
(* A Scan's steps.                                                         *)

\* A Scan begins, or ends without a pin.
LEMMA ScanUnpinnedHolds == ASSUME HInv, Scan \/ ScanFetchFails \/ ScanDone PROVE HInv'
<1>1. pins' = pins /\ ins' = ins /\ UNCHANGED <<pages, disk, dirty, stored, flushed>>
  BY DEF Scan, ScanFetchFails, ScanDone, unchangedByScan
<1>2. NumPages' = NumPages /\ FileTypes' /\ Contents' /\ ChangesReported'
  BY <1>1, SamePages
<1>3. scan.pc \in {"idle", "fetch"} /\ scan'.pc \in {"idle", "fetch"} /\ ins = NoInsert
  <2>1. CASE Scan
    BY <2>1 DEF Scan, NoScan
  <2>2. CASE ScanFetchFails
    BY <2>2 DEF ScanFetchFails, NoScan, HInv, Control
  <2>3. CASE ScanDone
    BY <2>3 DEF ScanDone, NoScan, HInv, Control
  <2> QED
    BY <2>1, <2>2, <2>3
<1>4. scan' = NoScan \/ scan' \in Scans
  <2>1. CASE Scan
    <3>1. DOMAIN stored \in SUBSET Ids
      BY DEF HInv, FileTypes, Ids
    <3>2. scan' = [pc |-> "fetch", pid |-> 0, slot |-> 0, n |-> 0, seen |-> <<>>, start |-> DOMAIN stored]
      BY <2>1 DEF Scan
    <3>3. <<>> \in Seq(Shown)
      OBVIOUS
    <3> QED
      BY <3>1, <3>2, <3>3 DEF Scans
  <2>2. CASE ScanFetchFails \/ ScanDone
    BY <2>2 DEF ScanFetchFails, ScanDone
  <2> QED
    BY <2>1, <2>2
<1>5. CallTypes'
  BY <1>1, <1>4 DEF HInv, CallTypes
<1>6. Control'
  BY <1>1, <1>2, <1>3 DEF HInv, Control, NoInsert
<1>7. PinsBalanced'
  BY <1>1, <1>3 DEF HInv, PinsBalanced, Holds
<1> QED
  BY <1>2, <1>5, <1>6, <1>7 DEF HInv

\* A Scan pins its next page.
LEMMA ScanFetchHolds == ASSUME HInv, ScanFetch PROVE HInv'
<1>1. /\ ins' = ins /\ UNCHANGED <<pages, disk, dirty, stored, flushed>>
      /\ scan.pc = "fetch" /\ scan.pid < NumPages /\ pins' = [pins EXCEPT ![scan.pid] = @ + 1]
      /\ scan' = [scan EXCEPT !.pc = "slot", !.slot = 0, !.n = SlotCount(pages[scan.pid])]
  BY DEF ScanFetch, unchangedByScan, Pin
<1>2. NumPages' = NumPages /\ FileTypes' /\ Contents' /\ ChangesReported'
  BY <1>1, SamePages
<1>3. scan \in Scans /\ ins = NoInsert /\ pins \in [0 .. MaxPages - 1 -> Int]
  BY <1>1 DEF HInv, CallTypes, Control, NoScan
<1>4. scan.pid \in 0 .. MaxPages - 1 /\ SlotCount(pages[scan.pid]) \in Nat
  <2>1. scan.pid \in 0 .. NumPages - 1 /\ NumPages \in 0 .. MaxPages
    BY <1>1, <1>3 DEF HInv, FileTypes, Scans
  <2> QED
    BY <2>1, PageTypes, HeapAssumption DEF HInv, FileTypes
<1>5. scan' \in Scans /\ scan'.pc = "slot" /\ scan'.pid = scan.pid
  BY <1>1, <1>3, <1>4 DEF Scans
<1>6. CallTypes'
  <2>1. pins' \in [0 .. MaxPages - 1 -> Int]
    BY <1>1, <1>3, <1>4, HeapAssumption
  <2> QED
    BY <1>1, <1>3, <1>5, <2>1 DEF CallTypes
<1>7. Control'
  BY <1>1, <1>2, <1>3, <1>5 DEF Control, NoInsert
<1>8. PinsBalanced'
  BY <1>1, <1>3, <1>4, <1>5, HeapAssumption DEF HInv, PinsBalanced, Holds
<1> QED
  BY <1>2, <1>6, <1>7, <1>8 DEF HInv

\* A Scan enters its callback, or is back from it.
LEMMA ScanOnPageHolds == ASSUME HInv, ScanSlot \/ CallbackReturns PROVE HInv'
<1>1. pins' = pins /\ ins' = ins /\ UNCHANGED <<pages, disk, dirty, stored, flushed>>
  BY DEF ScanSlot, CallbackReturns, unchangedByScan
<1>2. NumPages' = NumPages /\ FileTypes' /\ Contents' /\ ChangesReported'
  BY <1>1, SamePages
<1>3. scan.pc \in {"slot", "callback"} /\ ins = NoInsert /\ scan \in Scans
  BY DEF ScanSlot, CallbackReturns, HInv, Control, CallTypes, NoScan
<1>4. scan' \in Scans /\ scan'.pc \in {"slot", "callback"} /\ scan'.pid = scan.pid
  <2>1. CASE ScanSlot
    <3> DEFINE seen == <<TID(scan.pid, scan.slot), LocateTuple(pages[scan.pid], scan.slot)>>
    <3>1. scan' = [scan EXCEPT !.pc = "callback", !.seen = Append(@, seen)]
      BY <2>1 DEF ScanSlot
    <3>2. pages[scan.pid] \in Raw /\ scan.slot \in Nat /\ scan.pid \in Nat
      BY <1>3, PageTypes DEF HInv, FileTypes, Control, Scans
    <3>3. seen \in Shown
      BY <3>2 DEF Shown, Ids
    <3> HIDE DEF seen
    <3>4. Append(scan.seen, seen) \in Seq(Shown)
      BY <1>3, <3>3, AppendProperties DEF Scans
    <3> QED
      BY <1>3, <3>1, <3>4 DEF Scans
  <2>2. CASE CallbackReturns
    <3> DEFINE slot == scan.slot + 1
    <3>1. scan' = [scan EXCEPT !.pc = "slot", !.slot = slot]
      BY <2>2 DEF CallbackReturns
    <3>2. slot \in Nat
      BY <1>3 DEF Scans
    <3> HIDE DEF slot
    <3> QED
      BY <1>3, <3>1, <3>2 DEF Scans
  <2> QED
    BY <2>1, <2>2
<1>5. CallTypes'
  BY <1>1, <1>4 DEF HInv, CallTypes
<1>6. Control'
  BY <1>1, <1>2, <1>3, <1>4 DEF HInv, Control, NoInsert
<1>7. PinsBalanced'
  BY <1>1, <1>3, <1>4 DEF HInv, PinsBalanced, Holds
<1> QED
  BY <1>2, <1>5, <1>6, <1>7 DEF HInv

\* A Scan leaves its page.
LEMMA ScanLeavesHolds == ASSUME HInv, CallbackFails \/ PageDone PROVE HInv'
<1>1. /\ ins' = ins /\ UNCHANGED <<pages, disk, dirty, stored, flushed>>
      /\ pins' = [pins EXCEPT ![scan.pid] = @ - 1]
  BY DEF CallbackFails, PageDone, unchangedByScan, Unpin
<1>2. NumPages' = NumPages /\ FileTypes' /\ Contents' /\ ChangesReported'
  BY <1>1, SamePages
<1>3. /\ scan.pc \in {"slot", "callback"} /\ ins = NoInsert /\ scan \in Scans
      /\ pins \in [0 .. MaxPages - 1 -> Int]
  BY DEF CallbackFails, PageDone, HInv, Control, CallTypes, NoScan
<1>4. scan.pid \in 0 .. MaxPages - 1
  BY <1>3, HeapAssumption DEF HInv, FileTypes, Control, Scans
<1>5. scan'.pc \in {"idle", "fetch"} /\ (scan' = NoScan \/ scan' \in Scans)
  <2>1. CASE CallbackFails
    BY <2>1 DEF CallbackFails, NoScan
  <2>2. CASE PageDone
    <3> DEFINE pid == scan.pid + 1
    <3>1. scan' = [scan EXCEPT !.pc = "fetch", !.pid = pid]
      BY <2>2 DEF PageDone, nextPage
    <3>2. pid \in Nat
      BY <1>3 DEF Scans
    <3> HIDE DEF pid
    <3> QED
      BY <1>3, <3>1, <3>2 DEF Scans
  <2> QED
    BY <2>1, <2>2
<1>6. CallTypes'
  <2>1. pins' \in [0 .. MaxPages - 1 -> Int]
    BY <1>1, <1>3, <1>4, HeapAssumption
  <2> QED
    BY <1>1, <1>3, <1>5, <2>1 DEF CallTypes
<1>7. Control'
  BY <1>1, <1>2, <1>3, <1>5 DEF Control, NoInsert
<1>8. PinsBalanced'
  <2>1. ins.pc = "idle" /\ ins'.pc = "idle"
    BY <1>1, <1>3 DEF NoInsert
  <2>2. \A pid \in 0 .. MaxPages - 1 : pins[pid] = Holds(scan.pid = pid)
    BY <1>3, <2>1 DEF HInv, PinsBalanced, Holds
  <2>3. \A pid \in 0 .. MaxPages - 1 : pins'[pid] = 0
    BY <1>1, <1>3, <1>4, <2>2, HeapAssumption DEF Holds
  <2>4. DOMAIN pins' = 0 .. MaxPages - 1
    BY <1>1, <1>3
  <2> QED
    BY <1>5, <2>1, <2>3, <2>4 DEF PinsBalanced, Holds
<1> QED
  BY <1>2, <1>6, <1>7, <1>8 DEF HInv

-----------------------------------------------------------------------------
(* The theorems.                                                           *)

\* Every step keeps the invariant.
LEMMA NextHolds == ASSUME PagesCounted, HInv, [Next]_vars PROVE HInv'
<1>1. CASE UNCHANGED vars
  <2>1. UNCHANGED <<pages, disk, dirty, stored, flushed>> /\ UNCHANGED <<pins, ins, scan>>
    BY <1>1 DEF vars
  <2>2. NumPages' = NumPages /\ FileTypes' /\ Contents' /\ ChangesReported'
    BY <2>1, SamePages
  <2>3. CallTypes' /\ Control' /\ PinsBalanced'
    BY <2>1, <2>2 DEF HInv, CallTypes, Control, PinsBalanced
  <2> QED
    BY <2>2, <2>3 DEF HInv
<1>2. CASE \E data \in Tuple : Insert(data)
  BY <1>2, InsertHolds
<1>3. CASE InsertLast \/ LastPageFull \/ NewPage \/ NewPageFails \/ InsertFresh
  BY <1>3, InsertLastHolds, LastPageFullHolds, NewPageHolds, NewPageFailsHolds, InsertFreshHolds
<1>4. CASE Scan \/ ScanFetch \/ ScanFetchFails \/ ScanSlot \/ CallbackReturns
  BY <1>4, ScanUnpinnedHolds, ScanFetchHolds, ScanOnPageHolds
<1>5. CASE CallbackFails \/ PageDone \/ ScanDone
  BY <1>5, ScanLeavesHolds, ScanUnpinnedHolds
<1>6. CASE \E pid \in DOMAIN pages : WriteBack(pid)
  BY <1>6, WriteBackHolds
<1>7. CASE Exit \/ ScanPanics
  BY <1>7, RestartHolds DEF Exit, ScanPanics
<1> QED
  BY <1>1, <1>2, <1>3, <1>4, <1>5, <1>6, <1>7 DEF Next

-----------------------------------------------------------------------------
(* What a Scan shows.                                                      *)

\* The tuple id a Scan is at: it has shown what is before it.
At == TID(scan.pid, IF scan.pc = "callback" THEN scan.slot + 1
                    ELSE IF scan.pc = "slot" THEN scan.slot ELSE 0)

OnPage == scan.pc \in {"slot", "callback"}

Scanned ==
  scan # NoScan =>
    /\ \A i, j \in DOMAIN scan.seen : i < j => Before(scan.seen[i][1], scan.seen[j][1])
    /\ \A i \in DOMAIN scan.seen : LET tid == scan.seen[i][1] IN
         /\ Before(tid, At) /\ tid[1] \in DOMAIN pages
         /\ IsFormatted(pages[tid[1]]) => tid \in DOMAIN stored /\ stored[tid] = scan.seen[i][2]
    /\ \A t \in scan.start :
         /\ t \in DOMAIN stored
         /\ Before(t, At) => \E i \in DOMAIN scan.seen : scan.seen[i][1] = t
         /\ OnPage /\ t[1] = scan.pid => t[2] < scan.n
    /\ OnPage /\ IsFormatted(pages[scan.pid]) => scan.n <= SlotCount(pages[scan.pid])

\* What steps of others leave to a Scan: tuples, and slots of the pages behind it.
Kept ==
  scan # NoScan =>
    /\ \A x \in DOMAIN pages : x \in DOMAIN pages'
    /\ \A t \in DOMAIN stored : t \in DOMAIN stored' /\ stored'[t] = stored[t]
    /\ \A x \in DOMAIN pages : x <= scan.pid /\ IsFormatted(pages'[x]) =>
         IsFormatted(pages[x]) /\ SlotCount(pages[x]) <= SlotCount(pages'[x])

\* A step that moves no tuple leaves what a Scan has shown.
LEMMA KeptScanned == ASSUME HInv, HInv', Scanned, Kept, scan' = scan PROVE Scanned'
<1> SUFFICES ASSUME scan # NoScan PROVE Scanned'
  BY DEF Scanned
<1>1. At' = At /\ OnPage' = OnPage /\ At[1] = scan.pid
  BY DEF At, OnPage, TID
<1>2. scan \in Scans
  BY DEF HInv, CallTypes
<1>3. ASSUME NEW i \in DOMAIN scan.seen
      PROVE  LET tid == scan.seen[i][1] IN
               /\ Before(tid, At) /\ tid[1] \in DOMAIN pages'
               /\ IsFormatted(pages'[tid[1]]) => tid \in DOMAIN stored' /\ stored'[tid] = scan.seen[i][2]
  <2> DEFINE tid == scan.seen[i][1]
  <2>1. Before(tid, At) /\ tid[1] \in DOMAIN pages
    BY DEF Scanned
  <2>2. tid[1] <= scan.pid
    <3>1. tid[1] \in Nat /\ scan.pid \in Nat
      <4>1. DOMAIN pages \subseteq Nat
        BY DEF HInv, FileTypes
      <4> QED
        BY <1>2, <2>1, <4>1 DEF Scans
    <3>2. tid[1] < scan.pid \/ tid[1] = scan.pid
      BY <1>1, <2>1 DEF Before
    <3> QED
      BY <3>1, <3>2
  <2>3. IsFormatted(pages[tid[1]]) => tid \in DOMAIN stored /\ stored[tid] = scan.seen[i][2]
    BY DEF Scanned
  <2> HIDE DEF tid
  <2> QED
    BY <2>1, <2>2, <2>3 DEF Kept, tid
<1>4. ASSUME NEW t \in scan.start
      PROVE  /\ t \in DOMAIN stored'
             /\ Before(t, At) => \E i \in DOMAIN scan.seen : scan.seen[i][1] = t
             /\ OnPage /\ t[1] = scan.pid => t[2] < scan.n
  BY DEF Scanned, Kept
<1>5. ASSUME OnPage, IsFormatted(pages'[scan.pid]) PROVE scan.n <= SlotCount(pages'[scan.pid])
  <2>1. scan.pid \in DOMAIN pages /\ scan.pid <= scan.pid
    <3>1. scan.pid < NumPages
      BY <1>5 DEF HInv, Control, OnPage
    <3>2. NumPages \in Nat /\ DOMAIN pages = 0 .. NumPages - 1
      BY HeapAssumption DEF HInv, FileTypes
    <3>3. scan.pid \in Nat
      BY <1>2 DEF Scans
    <3> QED
      BY <3>1, <3>2, <3>3
  <2>2. IsFormatted(pages[scan.pid]) /\ SlotCount(pages[scan.pid]) <= SlotCount(pages'[scan.pid])
    BY <1>5, <2>1 DEF Kept
  <2>3. scan.n <= SlotCount(pages[scan.pid])
    BY <1>5, <2>2 DEF Scanned
  <2>4. /\ SlotCount(pages[scan.pid]) \in Nat /\ SlotCount(pages'[scan.pid]) \in Nat /\ scan.n \in Nat
    <3>1. scan.pid \in DOMAIN pages'
      BY <2>1 DEF Kept
    <3>2. IsPage(pages[scan.pid]) /\ IsPage(pages'[scan.pid])
      BY <2>1, <3>1 DEF HInv, FileTypes
    <3> QED
      BY <1>2, <3>2, PageTypes DEF Scans
  <2> QED
    BY <2>2, <2>3, <2>4
<1>6. \A i, j \in DOMAIN scan.seen : i < j => Before(scan.seen[i][1], scan.seen[j][1])
  BY DEF Scanned
<1> QED
  BY <1>1, <1>3, <1>4, <1>5, <1>6 DEF Scanned

\* Steps that leave the pages and the tuples alone.
LEMMA KeptSame == ASSUME HInv, pages' = pages, stored' = stored PROVE Kept
<1>1. \A x \in DOMAIN pages : SlotCount(pages[x]) <= SlotCount(pages[x])
  BY PageTypes DEF HInv, FileTypes
<1> QED
  BY <1>1 DEF Kept

\* A new page moves no tuple.
LEMMA KeptNewPage == ASSUME HInv, NewPage PROVE Kept
<1>1. NumPages \notin DOMAIN pages
  BY HeapAssumption DEF HInv, FileTypes
<1>2. pages' = Put(pages, NumPages, ZeroPage) /\ stored' = stored
  BY DEF NewPage
<1>3. \A x \in DOMAIN pages : x \in DOMAIN pages' /\ pages'[x] = pages[x]
  BY <1>1, <1>2 DEF Put
<1>4. \A x \in DOMAIN pages : SlotCount(pages[x]) <= SlotCount(pages[x])
  BY PageTypes DEF HInv, FileTypes
<1> QED
  BY <1>2, <1>3, <1>4 DEF Kept

\* A tuple went into a page that was formatted, or is ahead of the Scan.
LEMMA KeptStored ==
  ASSUME HInv, NEW p, Laid(p), NEW q, Grown(p, ins.data, q), ins.pid \in DOMAIN pages,
         PageHolds(p, ins.pid, DOMAIN stored, stored), Changed(ins.pid, q), Stored(ins.pid, p),
         scan # NoScan => p = pages[ins.pid] \/ scan.pid < ins.pid
  PROVE  Kept
<1> DEFINE tid == TID(ins.pid, SlotCount(p))
<1>1. tid \notin DOMAIN stored
  BY StoreHolds
<1>2. stored' = Put(stored, tid, ins.data)
  BY DEF Stored
<1> HIDE DEF tid
<1>3. \A t \in DOMAIN stored : t \in DOMAIN stored' /\ stored'[t] = stored[t]
  BY <1>1, <1>2 DEF Put
<1>4. /\ DOMAIN pages' = DOMAIN pages /\ pages'[ins.pid] = q
      /\ \A x \in DOMAIN pages : x # ins.pid => pages'[x] = pages[x]
  BY DEF Changed, Put
<1>5. SlotCount(p) \in Nat /\ SlotCount(p) <= SlotCount(q) /\ IsFormatted(p)
  <2>1. SlotCount(p) \in Nat /\ SlotCount(q) = SlotCount(p) + 1
    BY DEF Laid, Grown
  <2> QED
    BY <2>1, FormattedIff DEF IsPage
<1>6. ASSUME scan # NoScan, NEW x \in DOMAIN pages, x <= scan.pid, IsFormatted(pages'[x])
      PROVE  IsFormatted(pages[x]) /\ SlotCount(pages[x]) <= SlotCount(pages'[x])
  <2>1. CASE x = ins.pid
    <3>1. scan \in Scans /\ x \in 0 .. NumPages - 1 /\ NumPages \in 0 .. MaxPages
      BY <1>6 DEF HInv, FileTypes, CallTypes
    <3>2. scan.pid \in Nat
      BY <3>1 DEF Scans
    <3>3. x \in Nat
      BY <3>1
    <3>4. p = pages[ins.pid]
      BY <1>6, <2>1, <3>2, <3>3
    <3> QED
      BY <1>4, <1>5, <2>1, <3>4
  <2>2. CASE x # ins.pid
    <3>1. SlotCount(pages[x]) \in Nat
      BY PageTypes DEF HInv, FileTypes
    <3>2. pages'[x] = pages[x]
      BY <1>4, <2>2
    <3> QED
      BY <1>6, <3>1, <3>2
  <2> QED
    BY <2>1, <2>2
<1> QED
  BY <1>3, <1>4, <1>6 DEF Kept

\* An insert into the last page moves no tuple.
LEMMA KeptInsertLast == ASSUME HInv, InsertLast PROVE Kept
<1> DEFINE p == pages[ins.pid]
<1>1. /\ ins.pc = "last" /\ Fits(p, ins.data) /\ Changed(ins.pid, InsertTuple(p, ins.data))
      /\ Stored(ins.pid, p)
  BY DEF InsertLast
<1>2. ins.pid \in DOMAIN pages /\ ins.data \in Tuple
  BY <1>1 DEF HInv, FileTypes, Control, CallTypes, NoInsert, Inserts
<1>3. Laid(p) /\ PageHolds(p, ins.pid, DOMAIN stored, stored)
  BY <1>1, <1>2, ZeroFull DEF HInv, FileTypes, IsPage, Contents
<1>4. p = pages[ins.pid]
  OBVIOUS
<1> HIDE DEF p
<1>5. Grown(p, ins.data, InsertTuple(p, ins.data))
  BY <1>1, <1>2, <1>3, InsertGrows
<1> QED
  BY <1>1, <1>2, <1>3, <1>4, <1>5, KeptStored

\* An insert into a new page moves no tuple.
LEMMA KeptInsertFresh == ASSUME HInv, InsertFresh PROVE Kept
<1>1. ins.pc = "format"
  BY DEF InsertFresh
<1>2. ins.pid \in DOMAIN pages /\ pages[ins.pid] = ZeroPage /\ ins.data \in Tuple
  <2>1. ins \in Inserts
    BY <1>1 DEF HInv, CallTypes, NoInsert
  <2>2. 0 < NumPages /\ ins.pid = NumPages - 1 /\ pages[ins.pid] = ZeroPage
    BY <1>1 DEF HInv, Control
  <2>3. NumPages \in Nat /\ DOMAIN pages = 0 .. NumPages - 1
    BY HeapAssumption DEF HInv, FileTypes
  <2>4. ins.pid \in DOMAIN pages
    BY <2>2, <2>3
  <2> QED
    BY <2>1, <2>2, <2>4 DEF Inserts
<1>3. scan # NoScan => scan.pid \in Nat /\ scan.pid < ins.pid
  <2> SUFFICES ASSUME scan # NoScan PROVE scan.pid \in Nat /\ scan.pid < ins.pid
    OBVIOUS
  <2>1. scan \in Scans
    BY DEF HInv, CallTypes
  <2>2. scan.pid \in Nat /\ scan.pc \in {"fetch", "slot", "callback"}
    BY <2>1 DEF Scans
  <2>3. ins # NoInsert
    BY <1>1 DEF NoInsert
  <2>4. scan.pc = "callback"
    BY <2>2, <2>3 DEF HInv, Control
  <2>5. scan.pid < ins.pid
    BY <1>1, <2>4 DEF HInv, Control
  <2> QED
    BY <2>2, <2>5
<1>4. CASE Fits(Formatted, ins.data)
  <2>1. Changed(ins.pid, InsertTuple(Formatted, ins.data)) /\ Stored(ins.pid, Formatted)
    BY <1>4 DEF InsertFresh
  <2>2. PageHolds(Formatted, ins.pid, DOMAIN stored, stored)
    BY <1>2, EmptyHolds DEF HInv, Contents
  <2>3. Grown(Formatted, ins.data, InsertTuple(Formatted, ins.data))
    BY <1>2, <1>4, FormattedLaid, InsertGrows
  <2> QED
    BY <1>2, <1>3, <2>1, <2>2, <2>3, FormattedLaid, KeptStored
<1>5. CASE ~Fits(Formatted, ins.data)
  <2>1. Changed(ins.pid, Formatted) /\ stored' = stored
    BY <1>5 DEF InsertFresh, ReleaseEmpty
  <2>2. DOMAIN pages' = DOMAIN pages /\ \A x \in DOMAIN pages : x # ins.pid => pages'[x] = pages[x]
    BY <1>2, <2>1 DEF Changed, Put
  <2>3. \A x \in DOMAIN pages : x \in Nat /\ SlotCount(pages[x]) \in Nat
    <3>1. DOMAIN pages \subseteq Nat /\ \A x \in DOMAIN pages : IsPage(pages[x])
      BY DEF HInv, FileTypes
    <3> QED
      BY <3>1, PageTypes
  <2>4. ASSUME scan # NoScan, NEW x \in DOMAIN pages, x <= scan.pid
        PROVE  pages'[x] = pages[x] /\ SlotCount(pages[x]) <= SlotCount(pages[x])
    BY <1>2, <1>3, <2>2, <2>3, <2>4
  <2> QED
    BY <2>1, <2>2, <2>4 DEF Kept
<1> QED
  BY <1>4, <1>5

\* A Scan begins: nothing is before the first tuple id.
LEMMA ScanScanned == ASSUME HInv, Scan PROVE Scanned'
<1>1. scan' = [pc |-> "fetch", pid |-> 0, slot |-> 0, n |-> 0, seen |-> <<>>, start |-> DOMAIN stored]
      /\ stored' = stored
  BY DEF Scan, unchangedByScan
<1>2. /\ DOMAIN scan'.seen = {} /\ scan'.start = DOMAIN stored /\ scan'.pc = "fetch" /\ scan'.pid = 0
  BY <1>1
<1>3. At' = TID(0, 0) /\ ~OnPage'
  BY <1>2 DEF At, OnPage
<1>4. \A t \in DOMAIN stored : ~Before(t, At')
  <2>1. \A x, i \in Nat : ~Before(TID(x, i), TID(0, 0))
    BY DEF Before, TID
  <2> QED
    BY <1>3, <2>1 DEF HInv, FileTypes
<1> QED
  BY <1>1, <1>2, <1>3, <1>4 DEF Scanned

\* The next page: its count bounds the tuple ids of the page.
LEMMA ScanFetchScanned == ASSUME HInv, Scanned, ScanFetch PROVE Scanned'
<1>1. /\ pages' = pages /\ stored' = stored /\ scan.pc = "fetch" /\ scan.pid < NumPages
      /\ scan' = [scan EXCEPT !.pc = "slot", !.slot = 0, !.n = SlotCount(pages[scan.pid])]
  BY DEF ScanFetch, unchangedByScan
<1>2. scan \in Scans /\ scan # NoScan
  BY <1>1 DEF HInv, CallTypes, NoScan
<1>3. /\ scan'.seen = scan.seen /\ scan'.start = scan.start /\ scan'.pid = scan.pid
      /\ scan'.n = SlotCount(pages[scan.pid]) /\ scan'.pc = "slot" /\ scan'.slot = 0
  BY <1>1, <1>2 DEF Scans
<1>4. At' = At
  BY <1>1, <1>3 DEF At
<1>5. scan.pid \in DOMAIN pages /\ SlotCount(pages[scan.pid]) \in Nat
  BY <1>1, <1>2, PageTypes DEF HInv, FileTypes, Scans
<1>6. ASSUME NEW t \in scan.start, t[1] = scan.pid PROVE t[2] < SlotCount(pages[scan.pid])
  <2>1. PICK x \in DOMAIN pages, i \in Nat : t = TID(x, i)
    BY <1>2 DEF Scanned, HInv, FileTypes
  <2>2. t[1] = x /\ t[2] = i
    BY <2>1 DEF TID
  <2>3. t \in DOMAIN stored /\ x = scan.pid
    BY <1>2, <1>6, <2>2 DEF Scanned
  <2>4. i \in Slots(pages[scan.pid])
    BY <2>1, <2>3 DEF HInv, Contents, PageHolds
  <2> QED
    BY <1>5, <2>2, <2>4 DEF Slots
<1>7. SlotCount(pages[scan.pid]) <= SlotCount(pages[scan.pid])
  BY <1>5
<1> QED
  BY <1>1, <1>2, <1>3, <1>4, <1>6, <1>7 DEF Scanned

\* Back from the callback, the Scan is where it was.
LEMMA CallbackReturnsScanned == ASSUME HInv, Scanned, CallbackReturns PROVE Scanned'
<1> DEFINE slot == scan.slot + 1
<1>1. /\ pages' = pages /\ stored' = stored /\ scan.pc = "callback"
      /\ scan' = [scan EXCEPT !.pc = "slot", !.slot = slot]
  BY DEF CallbackReturns, unchangedByScan
<1>2. scan \in Scans /\ scan # NoScan
  BY <1>1 DEF HInv, CallTypes, NoScan
<1>3. At = TID(scan.pid, slot)
  BY <1>1 DEF At
<1> HIDE DEF slot
<1>4. /\ scan'.seen = scan.seen /\ scan'.start = scan.start /\ scan'.pid = scan.pid
      /\ scan'.n = scan.n /\ scan'.pc = "slot" /\ scan'.slot = slot
  BY <1>1, <1>2 DEF Scans
<1>5. At' = At /\ OnPage' /\ OnPage
  BY <1>1, <1>3, <1>4 DEF At, OnPage
<1> QED
  BY <1>1, <1>2, <1>4, <1>5 DEF Scanned

\* The page is done: the tuple ids of its slots are all behind the Scan.
LEMMA PageDoneScanned == ASSUME HInv, Scanned, PageDone PROVE Scanned'
<1> DEFINE pid == scan.pid + 1
<1>1. /\ pages' = pages /\ stored' = stored /\ scan.pc = "slot" /\ scan.slot >= scan.n
      /\ scan' = [scan EXCEPT !.pc = "fetch", !.pid = pid]
  BY DEF PageDone, unchangedByScan, nextPage
<1>2. scan \in Scans /\ scan # NoScan
  BY <1>1 DEF HInv, CallTypes, NoScan
<1>3. pid \in Nat /\ scan.pid \in Nat /\ scan.pid < pid /\ scan.slot \in Nat /\ scan.n \in Nat
  BY <1>2 DEF Scans
<1>4. \A x \in Nat : x < pid => x <= scan.pid
  BY <1>3
<1> HIDE DEF pid
<1>5. /\ scan'.seen = scan.seen /\ scan'.start = scan.start /\ scan'.pid = pid /\ scan'.pc = "fetch"
  BY <1>1, <1>2 DEF Scans
<1>6. At = TID(scan.pid, scan.slot) /\ At' = TID(pid, 0) /\ OnPage /\ ~OnPage'
  BY <1>1, <1>5 DEF At, OnPage
<1>7. At[1] = scan.pid /\ At[2] = scan.slot /\ At'[1] = pid /\ At'[2] = 0
  BY <1>6 DEF TID
<1>8. ASSUME NEW i \in DOMAIN scan.seen PROVE Before(scan.seen[i][1], At')
  <2>1. Before(scan.seen[i][1], At) /\ scan.seen[i][1][1] \in Nat
    <3>1. Before(scan.seen[i][1], At) /\ scan.seen[i][1][1] \in DOMAIN pages
      BY <1>2 DEF Scanned
    <3>2. DOMAIN pages \subseteq Nat
      BY DEF HInv, FileTypes
    <3> QED
      BY <3>1, <3>2
  <2> QED
    BY <1>3, <1>7, <2>1 DEF Before
<1>9. ASSUME NEW t \in scan.start, Before(t, At') PROVE Before(t, At)
  <2>1. t[1] = scan.pid => t[2] < scan.n
    BY <1>2, <1>6 DEF Scanned
  <2>2. t[1] \in Nat /\ t[2] \in Nat
    <3>1. PICK x \in Nat, i \in Nat : t = TID(x, i)
      BY <1>2 DEF Scans, Ids
    <3> QED
      BY <3>1 DEF TID
  <2>3. t[1] < pid
    BY <1>7, <1>9, <2>2 DEF Before
  <2> QED
    BY <1>1, <1>3, <1>4, <1>7, <2>1, <2>2, <2>3 DEF Before
<1> QED
  BY <1>1, <1>2, <1>5, <1>6, <1>8, <1>9 DEF Scanned

\* A slot is shown: its tuple id is the one the Scan was at.
LEMMA ScanSlotScanned == ASSUME HInv, Scanned, ScanSlot PROVE Scanned'
<1> DEFINE data == LocateTuple(pages[scan.pid], scan.slot)
           e == <<At, data>>
           k == Len(scan.seen) + 1
<1>1. /\ pages' = pages /\ stored' = stored /\ scan.pc = "slot" /\ scan.slot < scan.n
      /\ At = TID(scan.pid, scan.slot)
      /\ scan' = [scan EXCEPT !.pc = "callback", !.seen = Append(scan.seen, e)]
  BY DEF ScanSlot, unchangedByScan, At
<1>2. scan \in Scans /\ scan # NoScan /\ OnPage
  BY <1>1 DEF HInv, CallTypes, NoScan, OnPage
<1>3. scan.pid \in DOMAIN pages /\ scan.pid \in Nat /\ scan.slot \in Nat /\ scan.n \in Nat
  BY <1>1, <1>2 DEF HInv, FileTypes, Control, Scans
<1>4. At[1] = scan.pid /\ At[2] = scan.slot /\ e[1] = At /\ e[2] = data
  BY <1>1 DEF TID
<1>5. IsFormatted(pages[scan.pid]) => At \in DOMAIN stored /\ stored[At] = data
  <2> SUFFICES ASSUME IsFormatted(pages[scan.pid]) PROVE At \in DOMAIN stored /\ stored[At] = data
    OBVIOUS
  <2>1. Laid(pages[scan.pid]) /\ pages[scan.pid] # ZeroPage
    BY <1>3, FormattedIff DEF HInv, FileTypes
  <2>2. SlotCount(pages[scan.pid]) \in Nat /\ scan.n <= SlotCount(pages[scan.pid])
    BY <1>2, <2>1 DEF Scanned, Laid
  <2>3. scan.slot \in Slots(pages[scan.pid])
    BY <1>1, <1>3, <2>1, <2>2 DEF Slots
  <2> QED
    BY <1>1, <1>3, <2>3 DEF HInv, Contents, PageHolds
<1>6. scan.seen \in Seq(Shown) /\ k \in Nat /\ 1 <= k /\ DOMAIN scan.seen = 1 .. k - 1
  BY <1>2 DEF Scans
<1> HIDE DEF data, e
<1>7. LET s == Append(scan.seen, e)
      IN  DOMAIN s = 1 .. k /\ s[k] = e /\ \A i \in 1 .. k - 1 : s[i] = scan.seen[i]
  BY <1>6
<1> HIDE DEF k
<1>8. /\ DOMAIN scan'.seen = 1 .. k /\ scan'.seen[k] = e
      /\ \A i \in 1 .. k - 1 : scan'.seen[i] = scan.seen[i]
      /\ scan'.start = scan.start /\ scan'.pid = scan.pid
      /\ scan'.n = scan.n /\ scan'.pc = "callback" /\ scan'.slot = scan.slot
  BY <1>1, <1>2, <1>7 DEF Scans
<1>9. At' = TID(scan.pid, scan.slot + 1) /\ OnPage'
  BY <1>8 DEF At, OnPage
<1>10. At'[1] = scan.pid /\ At'[2] = scan.slot + 1
  BY <1>9 DEF TID
<1>11. \A i \in 1 .. k : i = k \/ i \in 1 .. k - 1
  BY <1>6
<1>12. Before(At, At')
  BY <1>3, <1>4, <1>10 DEF Before
<1>13. ASSUME NEW i \in 1 .. k
       PROVE  LET tid == scan'.seen[i][1] IN
                /\ Before(tid, At') /\ tid[1] \in DOMAIN pages
                /\ IsFormatted(pages[tid[1]]) => tid \in DOMAIN stored /\ stored[tid] = scan'.seen[i][2]
  <2>1. CASE i = k
    BY <1>3, <1>4, <1>5, <1>8, <1>12, <2>1
  <2>2. CASE i \in 1 .. k - 1
    <3> DEFINE tid == scan.seen[i][1]
    <3>1. /\ Before(tid, At) /\ tid[1] \in DOMAIN pages
          /\ IsFormatted(pages[tid[1]]) => tid \in DOMAIN stored /\ stored[tid] = scan.seen[i][2]
      BY <1>2, <1>6, <2>2 DEF Scanned
    <3>2. tid \in Ids
      BY <1>6, <2>2 DEF Shown
    <3>3. tid[1] \in Nat /\ tid[2] \in Nat
      BY <3>2 DEF Ids, TID
    <3>4. scan'.seen[i] = scan.seen[i]
      BY <1>8, <2>2
    <3> HIDE DEF tid
    <3>5. Before(tid, At')
      BY <1>3, <1>4, <1>10, <3>1, <3>3 DEF Before
    <3> QED
      BY <3>1, <3>4, <3>5 DEF tid
  <2> QED
    BY <1>11, <2>1, <2>2
<1>14. ASSUME NEW i \in 1 .. k, NEW j \in 1 .. k, i < j
       PROVE  Before(scan'.seen[i][1], scan'.seen[j][1])
  <2>1. i \in 1 .. k - 1
    BY <1>6, <1>14
  <2>2. CASE j = k
    BY <1>2, <1>4, <1>6, <1>8, <2>1, <2>2 DEF Scanned
  <2>3. CASE j \in 1 .. k - 1
    BY <1>2, <1>6, <1>8, <1>14, <2>1, <2>3 DEF Scanned
  <2> QED
    BY <1>11, <2>2, <2>3
<1>15. ASSUME NEW t \in scan.start, Before(t, At') PROVE \E i \in 1 .. k : scan'.seen[i][1] = t
  <2>1. PICK x \in Nat, y \in Nat : t = TID(x, y)
    BY <1>2 DEF Scans, Ids
  <2>2. t[1] = x /\ t[2] = y
    BY <2>1 DEF TID
  <2>3. Before(t, At) \/ (x = scan.pid /\ y = scan.slot)
    BY <1>3, <1>4, <1>10, <1>15, <2>2 DEF Before
  <2>4. CASE Before(t, At)
    <3>1. PICK i \in 1 .. k - 1 : scan.seen[i][1] = t
      BY <1>2, <1>6, <2>4 DEF Scanned
    <3>2. i \in 1 .. k
      BY <1>6
    <3> QED
      BY <1>8, <3>1, <3>2
  <2>5. CASE x = scan.pid /\ y = scan.slot
    <3>1. t = At /\ k \in 1 .. k
      BY <1>1, <1>6, <2>1, <2>5
    <3> QED
      BY <1>4, <1>8, <3>1
  <2> QED
    BY <2>3, <2>4, <2>5
<1>16. ASSUME NEW t \in scan.start
       PROVE  t \in DOMAIN stored /\ (t[1] = scan.pid => t[2] < scan.n)
  BY <1>2 DEF Scanned
<1>17. IsFormatted(pages[scan.pid]) => scan.n <= SlotCount(pages[scan.pid])
  BY <1>2 DEF Scanned
<1>18. (\A i, j \in DOMAIN scan.seen : i < j => Before(scan.seen[i][1], scan.seen[j][1]))'
  BY <1>8, <1>14
<1>19. (\A i \in DOMAIN scan.seen : LET tid == scan.seen[i][1] IN
          /\ Before(tid, At) /\ tid[1] \in DOMAIN pages
          /\ IsFormatted(pages[tid[1]]) => tid \in DOMAIN stored /\ stored[tid] = scan.seen[i][2])'
  BY <1>1, <1>8, <1>13
<1>20. (\A t \in scan.start :
          /\ t \in DOMAIN stored
          /\ Before(t, At) => \E i \in DOMAIN scan.seen : scan.seen[i][1] = t
          /\ OnPage /\ t[1] = scan.pid => t[2] < scan.n)'
  BY <1>1, <1>8, <1>15, <1>16
<1>21. (OnPage /\ IsFormatted(pages[scan.pid]) => scan.n <= SlotCount(pages[scan.pid]))'
  BY <1>1, <1>8, <1>17
<1> QED
  BY <1>18, <1>19, <1>20, <1>21 DEF Scanned

\* Every step keeps what is known of a Scan.
LEMMA NextScanned == ASSUME HInv, HInv', Scanned, [Next]_vars PROVE Scanned'
<1>1. CASE UNCHANGED vars
  BY <1>1, KeptSame, KeptScanned DEF vars
<1>2. CASE (\E data \in Tuple : Insert(data)) \/ LastPageFull \/ NewPageFails
  <2>1. pages' = pages /\ stored' = stored /\ scan' = scan
    BY <1>2 DEF Insert, LastPageFull, NewPageFails
  <2> QED
    BY <2>1, KeptSame, KeptScanned
<1>3. CASE InsertLast \/ NewPage \/ InsertFresh
  <2>1. scan' = scan
    BY <1>3 DEF InsertLast, NewPage, InsertFresh
  <2> QED
    BY <1>3, <2>1, KeptInsertLast, KeptNewPage, KeptInsertFresh, KeptScanned
<1>4. CASE Scan \/ ScanFetch \/ ScanSlot \/ CallbackReturns \/ PageDone
  BY <1>4, ScanScanned, ScanFetchScanned, ScanSlotScanned, CallbackReturnsScanned, PageDoneScanned
<1>5. CASE ScanFetchFails \/ CallbackFails \/ ScanDone \/ Exit \/ ScanPanics
  <2>1. scan' = NoScan
    BY <1>5 DEF ScanFetchFails, CallbackFails, ScanDone, Exit, ScanPanics, Restart
  <2> QED
    BY <2>1 DEF Scanned, NoScan
<1>6. CASE \E pid \in DOMAIN pages : WriteBack(pid)
  <2>1. pages' = pages /\ stored' = stored /\ scan' = scan
    BY <1>6 DEF WriteBack
  <2> QED
    BY <2>1, KeptSame, KeptScanned
<1> QED
  BY <1>1, <1>2, <1>3, <1>4, <1>5, <1>6 DEF Next

-----------------------------------------------------------------------------
(* The theorems.                                                           *)

\* What the size of a set is, spelled out.
Count(S) == LET CS[T \in SUBSET S] == IF T = {} THEN 0 ELSE 1 + CS[T \ {CHOOSE x : x \in T}]
            IN  CS[S]

\* The size of a set, with the recursion of its definition spelled out.
LEMMA CardForm == \A S : Card(S) = Count(S)
  BY DEF Card, Cardinality, Count

LOCAL INSTANCE FiniteSetTheorems

\* Sizes here and in the library are the same.
LEMMA CardSame == \A S : Card(S) = Cardinality(S)
  BY CardForm DEF Count, Cardinality

\* The pages 0 .. n are n + 1.
LEMMA PagesCountedHolds == PagesCounted
  BY CardSame, FS_EmptySet, FS_Interval DEF PagesCounted

\* HInv holds in every reachable state.
LEMMA HeapInvariant == Spec => []HInv
<1>1. Init => HInv
  BY InitHolds, PagesCountedHolds
<1>2. HInv /\ [Next]_vars => HInv'
  BY NextHolds, PagesCountedHolds
<1> QED
  BY <1>1, <1>2, PTL DEF Spec

\* The parts of a formatted page never run into each other (InsertTuple and the
\* slot directory it writes), whatever the page's size and the tuples.
THEOREM Layout == Spec => []LayoutSound
<1>1. HInv => LayoutSound
  <2> SUFFICES ASSUME HInv, NEW pid \in DOMAIN pages, IsFormatted(pages[pid])
               PROVE  LET p == pages[pid] IN
                 /\ HeaderSize <= PdUpper(p) /\ PdUpper(p) <= PdLower(p) /\ PdLower(p) <= PageSize
                 /\ \A i \in SlotsOf(p) :
                      /\ PdLower(p) <= Offset(p, i) /\ Offset(p, i) + Length(p, i) <= PageSize
                      /\ \A j \in SlotsOf(p) : i < j => Offset(p, j) + Length(p, j) <= Offset(p, i)
    BY DEF LayoutSound
  <2> DEFINE p == pages[pid]
  <2>1. Laid(p)
    BY FormattedIff DEF HInv, FileTypes
  <2> HIDE DEF p
  <2>2. HeaderSize <= PdUpper(p) /\ PdUpper(p) <= PdLower(p) /\ PdLower(p) <= PageSize
    BY <2>1 DEF Laid, HeaderSize
  <2>3. \A i \in SlotsOf(p) :
          /\ Offset(p, i) = p[2 + 2 * i] /\ Length(p, i) = p[3 + 2 * i]
          /\ PdLower(p) <= Offset(p, i) /\ Offset(p, i) + Length(p, i) <= PageSize
    BY <2>1, SlotsReadable DEF SlotsOf
  <2>4. \A i, j \in SlotsOf(p) : i < j => p[2 + 2 * j] + p[3 + 2 * j] <= p[2 + 2 * i]
    BY <2>1 DEF Laid, SlotsOf
  <2>5. \A i, j \in SlotsOf(p) : i < j => Offset(p, j) + Length(p, j) <= Offset(p, i)
    BY <2>3, <2>4
  <2> QED
    BY <2>2, <2>3, <2>5 DEF p
<1> QED
  BY <1>1, HeapInvariant, PTL

\* Every tuple id that Insert returned is answered by Get with the bytes that were
\* inserted, across later inserts and, once its page is written, restarts; and
\* formatted pages hold no other tuples.
THEOREM Contained == Spec => []PagesHoldStored
<1>1. HInv => PagesHoldStored
  <2> SUFFICES ASSUME HInv PROVE PagesHoldStored
    OBVIOUS
  <2>1. ASSUME NEW tid \in DOMAIN stored PROVE Found(tid) /\ Get(tid) = stored[tid]
    <3>1. PICK pid \in DOMAIN pages, i \in Nat : tid = TID(pid, i)
      BY DEF HInv, FileTypes
    <3>2. tid[1] = pid /\ tid[2] = i
      BY <3>1 DEF TID
    <3>3. i \in Slots(pages[pid]) /\ stored[tid] = LocateTuple(pages[pid], i)
      BY <3>1 DEF HInv, Contents, PageHolds
    <3>4. Laid(pages[pid]) /\ i \in 0 .. SlotCount(pages[pid]) - 1
      BY <3>3 DEF Slots, HInv, FileTypes, IsPage
    <3>5. Readable(pages[pid], i) /\ i < SlotCount(pages[pid])
      <4>1. SlotCount(pages[pid]) \in Nat
        BY <3>4 DEF Laid
      <4> QED
        BY <3>4, <4>1, SlotsReadable
    <3>6. pid < NumPages
      BY DEF HInv, FileTypes
    <3> QED
      BY <3>2, <3>3, <3>5, <3>6 DEF Found, Get
  <2>2. ASSUME NEW pid \in DOMAIN pages, IsFormatted(pages[pid]), NEW i \in SlotsOf(pages[pid])
        PROVE  TID(pid, i) \in DOMAIN stored
    <3>1. Laid(pages[pid])
      BY <2>2, FormattedIff DEF HInv, FileTypes
    <3>2. pages[pid] # ZeroPage /\ SlotCount(pages[pid]) \in Nat
      BY <3>1, ZeroNotLaid DEF Laid
    <3>3. i \in Nat /\ i \in Slots(pages[pid])
      BY <3>2 DEF SlotsOf, Slots
    <3> QED
      BY <3>3 DEF HInv, Contents, PageHolds
  <2> QED
    BY <2>1, <2>2 DEF PagesHoldStored
<1> QED
  BY <1>1, HeapInvariant, PTL

\* No change is lost on the pool: a page that differs from the file was unpinned
\* dirty, a page that was only formatted included.
THEOREM Reported == Spec => []ChangesReported
<1>1. HInv => ChangesReported
  BY DEF HInv
<1> QED
  BY <1>1, HeapInvariant, PTL

\* Insert and Scan give back each pin they take, on every way out.
THEOREM Balanced == Spec => []PinsBalanced
<1>1. HInv => PinsBalanced
  BY DEF HInv
<1> QED
  BY <1>1, HeapInvariant, PTL

\* A Scan shows tuples in physical order, each once and with the bytes stored, and
\* at its end has shown every tuple there was at its beginning, whatever its
\* callback inserted meanwhile.
THEOREM ScansExact == Spec => []ScanExact
<1>1. Init => Scanned
  BY DEF Init, Scanned
<1>2. HInv /\ Scanned => ScanExact
  <2> SUFFICES ASSUME HInv, Scanned, scan # NoScan
               PROVE  /\ \A i, j \in DOMAIN scan.seen : i < j => Before(scan.seen[i][1], scan.seen[j][1])
                      /\ \A i \in DOMAIN scan.seen : LET tid == scan.seen[i][1] IN
                           IsFormatted(pages[tid[1]]) => tid \in DOMAIN stored /\ stored[tid] = scan.seen[i][2]
                      /\ scan.pc = "fetch" /\ scan.pid >= NumPages =>
                           scan.start \subseteq {scan.seen[i][1] : i \in DOMAIN scan.seen}
    BY DEF ScanExact
  <2>1. ASSUME scan.pc = "fetch", scan.pid >= NumPages, NEW t \in scan.start
        PROVE  \E i \in DOMAIN scan.seen : scan.seen[i][1] = t
    <3>1. PICK x \in DOMAIN pages, i \in Nat : t = TID(x, i)
      BY DEF Scanned, HInv, FileTypes
    <3>2. t[1] = x /\ At[1] = scan.pid
      BY <3>1 DEF TID, At
    <3>3. x < scan.pid
      <4>1. NumPages \in Nat /\ x \in 0 .. NumPages - 1
        BY HeapAssumption DEF HInv, FileTypes
      <4>2. scan \in Scans
        BY DEF HInv, CallTypes
      <4>3. scan.pid \in Nat
        BY <4>2 DEF Scans
      <4> QED
        BY <2>1, <4>1, <4>3
    <3>4. Before(t, At)
      BY <3>2, <3>3 DEF Before
    <3> QED
      BY <3>4 DEF Scanned
  <2> QED
    BY <2>1 DEF Scanned
<1>3. HInv /\ HInv' /\ Scanned /\ [Next]_vars => Scanned'
  BY NextScanned
<1> QED
  BY <1>1, <1>2, <1>3, HeapInvariant, PTL DEF Spec
=============================================================================
