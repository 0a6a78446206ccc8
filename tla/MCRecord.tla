------------------------------ MODULE MCRecord ------------------------------
(* Record for TLC: bytes of 4 bits, so that a uint16 is 0 .. 255, a header *)
(* counts 31 columns and a page has 64 bytes.                              *)
EXTENDS Record

Column == [type : {"int", "text", "unknown"}, nullable : BOOLEAN]
Values == {NULL, IntVal(-128), IntVal(-1), TextVal(<<>>), TextVal(<<15, 1>>)}

\* Every schema of at most two columns, with every row and rows of another length.
Small == {<<s, r>> : s \in UNION {[1 .. n -> Column] : n \in 0 .. 2},
                     r \in UNION {[1 .. n -> Values] : n \in 0 .. 2}}

Of(type, n) == [i \in 1 .. n |-> [type |-> type, nullable |-> TRUE]]

\* NULL in every third column, in the last and from the 32nd on; the counts around
\* a byte of the bitmap, around the width of col_count, and where a uint16 wraps.
Wide ==
  {<<Of("int", n), [i \in 1 .. n |-> IF i % 3 = 0 \/ i = n \/ i > 31 THEN NULL ELSE IntVal(i - 100)]>> :
     n \in {3, 4, 5, 8, 9, 31, 32, 255, 257}}
  \cup {<<Of("int", n), [i \in 1 .. n |-> IntVal(-i)]>> : n \in {3, 31, 32}}

\* Texts around the end of a page and around the longest that a uint16 counts.
Long == {<<Of("text", 1), <<TextVal([i \in 1 .. n |-> i % 16])>>>> : n \in {55, 56, 255, 256}}

Inputs == Small \cup Wide \cup Long
=============================================================================
