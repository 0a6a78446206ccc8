-------------------------------- MODULE Tuple --------------------------------
(***************************************************************************)
(* The packed structures of internal/storage/page: the slot entry and the  *)
(* tuple header, as views over bytes.  Their fields keep the order and the *)
(* way they straddle bytes; widths are scaled with ByteBits.  A setter     *)
(* yields the bytes after it, or Error where it returns one.               *)
(***************************************************************************)
EXTENDS Bits

CONSTANT flagsBitLen   \* bits of the header's flags: 6 of 16 in the code

-----------------------------------------------------------------------------
(* SlotEntry: offset | length | flag, in four bytes.                       *)

offsetBitLen == maxBitLength - 1
lengthBitPos == offsetBitLen
lengthBitLen == maxBitLength - 1
flagBitPos == lengthBitPos + lengthBitLen

SlotEntrySize == 4
Offset(slot) == ReadBits(slot, 0, offsetBitLen)
SetOffset(slot, val) == WriteBits(slot, 0, offsetBitLen, val)
Length(slot) == ReadBits(slot, lengthBitPos, lengthBitLen)
SetLength(slot, val) == WriteBits(slot, lengthBitPos, lengthBitLen, val)
Flag(slot) == ReadBits(slot, flagBitPos, 2)
SetFlag(slot, val) == WriteBits(slot, flagBitPos, 2, val)

-----------------------------------------------------------------------------
(* TupleHeader: t_xmin, t_xmax, flags | col_count, t_hoff, one byte unused. *)
(* A transaction id takes one byte here.                                   *)

TupleHeaderSize == 6
flagsBitPos == 2 * ByteBits
colCountBitPos == flagsBitPos + flagsBitLen
colCountBitLen == maxBitLength - flagsBitLen
maxColumns == 2 ^ colCountBitLen - 1

\* A bitmap for the most columns still leaves t_hoff in its byte (12 + 128).
ASSUME HoffAssumption ==
  /\ flagsBitLen \in 1 .. ByteBits - 1
  /\ TupleHeaderSize + (maxColumns + ByteBits - 1) \div ByteBits < 2 ^ ByteBits

TxMin(t) == t[1]
SetTxMin(t, xid) == [t EXCEPT ![1] = xid]
TxMax(t) == t[2]
SetTxMax(t, xid) == [t EXCEPT ![2] = xid]
Flags(t) == ReadBits(t, flagsBitPos, flagsBitLen)
SetFlags(t, val) == WriteBits(t, flagsBitPos, flagsBitLen, val)
FlagHasNull == 1
HasNull(t) == Flags(t) % 2 = FlagHasNull
ColumnCount(t) == ReadBits(t, colCountBitPos, colCountBitLen)
SetColumnCount(t, val) == WriteBits(t, colCountBitPos, colCountBitLen, val)
Hoff(t) == t[5]
SetHoff(t, off) == [t EXCEPT ![5] = off]
=============================================================================
