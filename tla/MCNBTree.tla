------------------------------ MODULE MCNBTree ------------------------------
(* NBTree for TLC.                                                         *)
EXTENDS NBTreeLeaves

CONSTANTS a, b

\* Neighbouring keys have different TIDs.  In ascending order the five keys
\* make a tree of three levels.
FiveKeys == {<<1, a>>, <<2, b>>, <<3, a>>, <<4, b>>, <<5, a>>}
\* An inner range, and an empty one.
Ranges == {<<2, 4>>, <<4, 2>>}

=============================================================================
