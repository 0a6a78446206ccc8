------------------------------- MODULE Record --------------------------------
(***************************************************************************)
(* The row codec (internal/record) over the tuple header, and what later   *)
(* happens to the bytes it made: the transaction fields are stamped into   *)
(* the header and a slot entry is written for the tuple.                   *)
(*                                                                         *)
(* A value is NULL, an integer or a text (a sequence of bytes); an int64   *)
(* is scaled to IntBytes bytes, in two's complement.                       *)
(***************************************************************************)
EXTENDS Tuple, FiniteSets

CONSTANTS NULL,
          IntBytes,   \* bytes of an int64
          Input,      \* the <<schema, row>> pairs that Encode is called with
          Xid,        \* the transaction ids that are stamped
          Place       \* the page offsets that tuples are placed at

IntVal(n) == [type |-> "int", int |-> n]
TextVal(s) == [type |-> "text", text |-> s]

VARIABLES
  schema, row, \* the arguments of Encode
  pc,          \* "row", then "encoded" or "refused"
  data,        \* the tuple's bytes
  slot,        \* the bytes of its slot entry
  fields       \* what the setters were last called with

vars == <<schema, row, pc, data, slot, fields>>

Zeros(n) == [i \in 1 .. n |-> 0]
NoFields == [xmin |-> 0, xmax |-> 0, hints |-> 0, offset |-> 0, length |-> 0, flag |-> 0]

Init ==
  /\ \E in \in Input : schema = in[1] /\ row = in[2]
  /\ pc = "row" /\ data = <<>>
  /\ slot = Zeros(SlotEntrySize) /\ fields = NoFields

-----------------------------------------------------------------------------
(* Encode.                                                                 *)

\* The checks of Encode's first loop; a type that is neither is refused.
Valid(col, v) ==
  IF v = NULL THEN col.nullable
  ELSE /\ v.type = col.type /\ col.type \in {"int", "text"}
       /\ v.type = "text" => Len(v.text) < Uint16

\* Mutant: the prefix is taken to be a uint32.
SizeWide(v) == IF v.type = "int" THEN IntBytes ELSE 4 + Len(v.text)
\* The bytes a column takes that is not NULL.
Size(v) == IF v.type = "int" THEN IntBytes ELSE 2 + Len(v.text)

\* What the second loop writes for it.
ColumnData(v) ==
  IF v.type = "int" THEN PutUint(IntBytes, v.int % 2 ^ (ByteBits * IntBytes))
                    ELSE PutUint(2, Len(v.text)) \o v.text

\* The bytes of the null bitmap, which is left out when no column is NULL.
bitmapSize(n, hasNull) == IF hasNull THEN (n + ByteBits - 1) \div ByteBits ELSE 0

\* Bit i of the bitmap is bit i % 8 of byte i / 8, from the least significant.
Bitmap(r, size) ==
  [b \in 1 .. size |->
     FoldLeft(LAMBDA acc, k : acc + 2 ^ k, 0,
              SelectSeq([k \in 1 .. ByteBits |-> k - 1],
                LAMBDA k : LET i == (b - 1) * ByteBits + k + 1
                           IN  i <= Len(r) /\ r[i] = NULL))]

\* The header; the column count is cut to a uint16 and then checked.
Header(n, hoff, hasNull) ==
  LET counted == SetColumnCount(Zeros(TupleHeaderSize), n % Uint16)
      placed == SetHoff(counted, hoff % 2 ^ ByteBits)
  IN  IF counted = Error THEN Error
      ELSE IF hasNull THEN SetFlags(placed, FlagHasNull) ELSE placed

Encode(cols, r) ==
  LET hasNull == NULL \in ToSet(r)
      size == bitmapSize(Len(cols), hasNull)
      header == Header(Len(cols), TupleHeaderSize + size, hasNull)
      present == SelectSeq(r, LAMBDA v : v # NULL)
      dataLen == FoldLeft(LAMBDA n, v : n + Size(v), 0, present)
      body == FlattenSeq([i \in DOMAIN present |-> ColumnData(present[i])])
  IN  IF Len(r) = Len(cols) /\ (\A i \in DOMAIN r : Valid(cols[i], r[i])) /\ header # Error
      THEN header \o Bitmap(r, size)
           \o [i \in 1 .. dataLen |-> IF i <= Len(body) THEN body[i] ELSE 0]
      ELSE Error

-----------------------------------------------------------------------------
(* Decode.                                                                 *)

\* Mutant: the bits of the bitmap are counted from the most significant.
IsNullMsb(t, i) ==
  HasNull(t) /\ (t[TupleHeaderSize + (i - 1) \div ByteBits + 1]
                 \div 2 ^ (ByteBits - 1 - ((i - 1) % ByteBits))) % 2 = 1
IsNull(t, i) ==
  HasNull(t) /\ (t[TupleHeaderSize + (i - 1) \div ByteBits + 1]
                 \div 2 ^ ((i - 1) % ByteBits)) % 2 = 1

\* Column i, with the row so far and the position after it; Error ends the walk.
DecodeColumn(cols, t, acc, i) ==
  LET pos == acc.pos
      n == Uint(SubSeq(t, pos + 1, pos + 2))
      int == Uint(SubSeq(t, pos + 1, pos + IntBytes))
      w == ByteBits * IntBytes
      Take(v, end) == [pos |-> end, row |-> Append(acc.row, v)]
  IN  CASE acc = Error -> Error
        [] acc # Error /\ IsNull(t, i) -> Take(NULL, pos)
        [] OTHER ->
             CASE cols[i].type = "int" /\ pos + IntBytes <= Len(t) ->
                    Take(IntVal(IF int < 2 ^ (w - 1) THEN int ELSE int - 2 ^ w), pos + IntBytes)
               [] cols[i].type = "text" /\ pos + 2 <= Len(t) /\ pos + 2 + n <= Len(t) ->
                    Take(TextVal(SubSeq(t, pos + 3, pos + 2 + n)), pos + 2 + n)
               [] OTHER -> Error

Decode(cols, t) ==
  LET hoff == TupleHeaderSize + bitmapSize(Len(cols), HasNull(t))
      walk == FoldLeft(LAMBDA acc, i : DecodeColumn(cols, t, acc, i),
                       [pos |-> hoff, row |-> <<>>], [i \in DOMAIN cols |-> i])
  IN  IF \/ Len(t) < TupleHeaderSize
         \/ ColumnCount(t) # Len(cols) \/ Hoff(t) # hoff \/ Len(t) < hoff
         \/ walk = Error
      THEN Error
      ELSE walk.row
-----------------------------------------------------------------------------
(* The callers.                                                            *)

EncodeRow ==
  LET t == Encode(schema, row)
  IN  /\ pc = "row"
      /\ IF t = Error THEN pc' = "refused" /\ UNCHANGED data
                      ELSE pc' = "encoded" /\ data' = t
      /\ UNCHANGED <<schema, row, slot, fields>>

\* A transaction id is stamped into the header.
StampXmin(x) ==
  /\ pc = "encoded"
  /\ data' = SetTxMin(data, x) /\ fields' = [fields EXCEPT !.xmin = x]
  /\ UNCHANGED <<schema, row, pc, slot>>

StampXmax(x) ==
  /\ pc = "encoded"
  /\ data' = SetTxMax(data, x) /\ fields' = [fields EXCEPT !.xmax = x]
  /\ UNCHANGED <<schema, row, pc, slot>>

\* The hint bits are set, next to HasNull; a value too wide is refused.
StampHints(h) ==
  LET t == SetFlags(data, 2 * h + (IF HasNull(data) THEN 1 ELSE 0))
  IN  /\ pc = "encoded" /\ t # Error
      /\ data' = t /\ fields' = [fields EXCEPT !.hints = h]
      /\ UNCHANGED <<schema, row, pc, slot>>

\* The entry of a tuple placed at offset off (InsertTuple's two setters).
PlaceTuple(off) ==
  LET at == SetOffset(slot, off)
  IN  /\ pc = "encoded" /\ at # Error
      /\ SetLength(at, Len(data)) # Error
      /\ slot' = SetLength(at, Len(data))
      /\ fields' = [fields EXCEPT !.offset = off, !.length = Len(data)]
      /\ UNCHANGED <<schema, row, pc, data>>

FlagSlot(f) ==
  /\ pc = "encoded" /\ SetFlag(slot, f) # Error
  /\ slot' = SetFlag(slot, f) /\ fields' = [fields EXCEPT !.flag = f]
  /\ UNCHANGED <<schema, row, pc, data>>

Next ==
  \/ EncodeRow
  \/ \E x \in Xid : StampXmin(x) \/ StampXmax(x)
  \/ \E h \in 0 .. 2 ^ flagsBitLen : StampHints(h)
  \/ \E off \in Place : PlaceTuple(off)
  \/ \E f \in 0 .. 4 : FlagSlot(f)

Spec == Init /\ [][Next]_vars

-----------------------------------------------------------------------------
(* Properties.                                                             *)

\* What the record layer's documents promise to store: a value per column, of its
\* type or NULL where allowed, texts of at most 65535 bytes, 1023 columns.
Storable ==
  /\ Len(row) = Len(schema) /\ Len(schema) <= maxColumns
  /\ \A i \in DOMAIN row :
       \/ row[i] = NULL /\ schema[i].nullable
       \/ /\ row[i] # NULL /\ row[i].type = schema[i].type
          /\ row[i].type = "text" => Len(row[i].text) <= Uint16 - 1

\* Encode refuses exactly the rows that are not storable, and Decode gives back
\* the row it took, whatever was stamped into the tuple since.  Schemas of 2^16
\* columns or more are excluded: there Encode cuts the count before checking it.
RoundTrip ==
  Len(schema) < Uint16 =>
    /\ pc = "refused" => ~Storable
    /\ pc = "encoded" => Storable /\ Decode(schema, data) = row

\* "rejects bytes that ... are truncated": no proper prefix of a tuple decodes,
\* nor does the tuple under a schema with a column more or less.
TruncationRejected ==
  pc = "encoded" =>
    /\ \A n \in 0 .. Len(data) - 1 : Decode(schema, SubSeq(data, 1, n)) = Error
    /\ Decode(Append(schema, [type |-> "text", nullable |-> TRUE]), data) = Error
    /\ schema # <<>> => Decode(Front(schema), data) = Error

\* Fields that share a byte are independent: each getter answers what its setter
\* was last given, in the header and in the slot entry.
FieldsIndependent ==
  /\ <<Offset(slot), Length(slot), Flag(slot)>> = <<fields.offset, fields.length, fields.flag>>
  /\ pc = "encoded" =>
       /\ <<TxMin(data), TxMax(data), Flags(data) \div 2>> = <<fields.xmin, fields.xmax, fields.hints>>
       /\ ColumnCount(data) = Len(row) % Uint16
       /\ HasNull(data) = (NULL \in ToSet(row))

\* Bit i of a slice, and the number that a run of bits spells.
Bit(bytes, i) == (bytes[i \div ByteBits + 1] \div 2 ^ (ByteBits - 1 - (i % ByteBits))) % 2
Spelled(bytes, offset, length) ==
  FoldLeft(LAMBDA val, i : 2 * val + Bit(bytes, i), 0, [k \in 1 .. length |-> offset + k - 1])

\* ReadBits answers what the bits spell for every range inside a slice of at most
\* a page (2^16 bits), up to its last bit, and its window stays inside the slice.
BitsAgree ==
  pc = "encoded" /\ fields = NoFields /\ Len(data) * ByteBits <= Uint16 =>
    \A offset \in 0 .. Uint16 - 1, length \in 0 .. maxBitLength + 1 :
      RangeOK(data, offset, length) =>
        /\ WindowInside(data, offset, length)
        /\ ReadBits(data, offset, length) = Spelled(data, offset, length)
=============================================================================
