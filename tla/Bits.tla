-------------------------------- MODULE Bits ---------------------------------
(***************************************************************************)
(* The bit helpers of internal/util/bits.go: a run of bits at any offset   *)
(* of a byte slice, most significant bit first.  A byte has ByteBits bits  *)
(* (8 in the code) and a uint16 is two bytes.  Slices are sequences; bit   *)
(* and byte positions are the code's, from 0.                              *)
(***************************************************************************)
EXTENDS Integers, SequencesExt

CONSTANTS ByteBits,
          Error     \* an error was returned in place of a value

ASSUME ByteAssumption == ByteBits \in Nat \ {0, 1}

maxBitLength == 2 * ByteBits
Uint16 == 2 ^ maxBitLength     \* arithmetic on a uint16 is modulo this

\* Compared in uint32: the sum does not wrap.
RangeOK(bytes, offset, length) ==
  /\ length \in 1 .. maxBitLength
  /\ offset + length <= Len(bytes) * ByteBits

startByte(offset) == offset \div ByteBits
\* Mutant: the sum is a uint16, and one is subtracted after widening it.
endByteWidened(offset, length) == (((offset + length) % Uint16) - 1) \div ByteBits
endByte(offset, length) == ((offset + length - 1) % Uint16) \div ByteBits

\* Go's bounds check on the window.
WindowInside(bytes, offset, length) ==
  /\ startByte(offset) <= endByte(offset, length)
  /\ endByte(offset, length) < Len(bytes)

window(bytes, offset, length) ==
  SubSeq(bytes, startByte(offset) + 1, endByte(offset, length) + 1)

\* Up to three bytes as one number, which a uint32 holds.
windowVal(w) == FoldLeft(LAMBDA val, byte : val * 2 ^ ByteBits + byte, 0, w)

\* The bits of the window that follow the target.
tail(w, offset, length) == Len(w) * ByteBits - (offset % ByteBits) - length

\* The value of the target bits in the window.
Target(w, offset, length) ==
  (windowVal(w) \div 2 ^ tail(w, offset, length)) % 2 ^ length

ReadBits(bytes, offset, length) ==
  IF RangeOK(bytes, offset, length)
  THEN Target(window(bytes, offset, length), offset, length)
  ELSE Error

\* Mutant: the old value is not cleared but added to.
MergedUncleared(w, offset, length, val) ==
  windowVal(w) + val * 2 ^ tail(w, offset, length)
\* The target bits cleared, and the new value merged in.
Merged(w, offset, length, val) ==
  windowVal(w) + (val - Target(w, offset, length)) * 2 ^ tail(w, offset, length)

\* The slice after the write, or an error; written back from the window's end.
WriteBits(bytes, offset, length, val) ==
  LET w == window(bytes, offset, length)
      new == Merged(w, offset, length, val)
      last == endByte(offset, length)
  IN  IF RangeOK(bytes, offset, length) /\ val < 2 ^ length
      THEN [i \in DOMAIN bytes |->
              IF i - 1 \in startByte(offset) .. last
              THEN (new \div 2 ^ (ByteBits * (last - (i - 1)))) % 2 ^ ByteBits
              ELSE bytes[i]]
      ELSE Error

\* encoding/binary, big-endian: n bytes of a number, and back.
PutUint(n, val) == [i \in 1 .. n |-> (val \div 2 ^ (ByteBits * (n - i))) % 2 ^ ByteBits]
Uint(bytes) == windowVal(bytes)
=============================================================================
