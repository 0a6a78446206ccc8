---------------------------- MODULE NBTreeLeaves ----------------------------
(***************************************************************************)
(* The B+Tree's leaves in the order of the tree, against the order of the  *)
(* chain that Scan follows.                                                *)
(***************************************************************************)
EXTENDS NBTree, SequencesExt

\* The leaves under p from left to right, each with its depth.
Leaves(p) ==
  LET under[q \in DOMAIN nodes] ==
        IF nodes[q].leaf THEN <<[pid |-> q, depth |-> 0]>>
        ELSE LET below == FlattenSeq([i \in DOMAIN nodes[q].kids |-> under[nodes[q].kids[i]]])
             IN  [i \in DOMAIN below |-> [below[i] EXCEPT !.depth = @ + 1]]
  IN  under[p]

\* The tree and the chain tell one story: every leaf is at the same depth, the
\* next pointers visit the leaves from left to right and end, and the keys
\* along them are strictly increasing.
LeafChainOrdered ==
  Sound =>
    LET ls == Leaves(root)
        keys == FlattenSeq([i \in DOMAIN ls |-> nodes[ls[i].pid].keys])
    IN  /\ \A i \in DOMAIN ls :
             /\ ls[i].depth = ls[1].depth
             /\ nodes[ls[i].pid].next = IF i = Len(ls) THEN invalidPID ELSE ls[i + 1].pid
        /\ \A i \in 1 .. Len(keys) - 1 : keys[i] < keys[i + 1]

=============================================================================
