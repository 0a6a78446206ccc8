----------------------------- MODULE SlottedPage -----------------------------
(***************************************************************************)
(* The slotted page (internal/storage/page).  A page is an array of words: *)
(* the header words pd_lower and pd_upper, the slot directory (an offset   *)
(* and a length word per entry), free space, and the tuples from the end   *)
(* of the page downwards.  The sizes are constants of the model; a word    *)
(* is a uint16 scaled down with them, and wraps at Word.  The other header *)
(* fields are not read by this code, and a slot's flag is never set.       *)
(***************************************************************************)
EXTENDS Integers, Sequences

CONSTANTS PageSize, \* words of a page
          Word      \* a uint16 is below Word

HeaderSize == 2
SlotEntrySize == 2

ASSUME PageAssumption ==
  /\ PageSize \in Nat /\ HeaderSize + SlotEntrySize <= PageSize
  /\ Word \in Nat /\ 2 * PageSize <= Word

PdLower(p) == p[0]
PdUpper(p) == p[1]

\* NewPage: a zeroed frame.
ZeroPage == [w \in 0 .. PageSize - 1 |-> 0]

\* Init: an empty directory, and no tuples.
Formatted == [ZeroPage EXCEPT ![0] = PageSize, ![1] = HeaderSize]

\* Mutant: slots are counted from one.
SlotCountFromOne(p) == ((PdUpper(p) - HeaderSize) % Word) \div SlotEntrySize + 1
\* A page on which pd_upper was never set has a garbage count: it underflows.
SlotCount(p) == ((PdUpper(p) - HeaderSize) % Word) \div SlotEntrySize

slotEntryAt(i) == (HeaderSize + i * SlotEntrySize) % Word

\* Go's bounds checks on the slices of slotEntryAt and LocateTupleByEntry.
InPage(from, to) == from <= to /\ to <= PageSize
Offset(p, i) == p[slotEntryAt(i)]
Length(p, i) == p[slotEntryAt(i) + 1]
Readable(p, i) ==
  /\ InPage(slotEntryAt(i), slotEntryAt(i) + SlotEntrySize)
  /\ InPage(Offset(p, i), (Offset(p, i) + Length(p, i)) % Word)

\* The bytes of slot i's tuple.
LocateTuple(p, i) == [k \in 1 .. Length(p, i) |-> p[Offset(p, i) + k - 1]]

FreeSpace(p) == (PdLower(p) - PdUpper(p)) % Word

\* Mutant: the slot of the new tuple is not counted.
FitsWithoutSlot(p, data) == Len(data) <= FreeSpace(p)
\* Compared as ints: neither side wraps.
Fits(p, data) == Len(data) + SlotEntrySize <= FreeSpace(p)

\* The page after a tuple that fits was inserted; its slot is the old SlotCount.
InsertTuple(p, data) ==
  LET off == PdLower(p) - Len(data)
      at == slotEntryAt(SlotCount(p))
  IN  [w \in 0 .. PageSize - 1 |->
         CASE w = 0 -> off
           [] w = 1 -> PdUpper(p) + SlotEntrySize
           [] w = at -> off
           [] w = at + 1 -> Len(data)
           [] w >= off /\ w < off + Len(data) -> data[w - off + 1]
           [] OTHER -> p[w]]
=============================================================================
