------------------------------ MODULE MCCatalog ------------------------------
(* Catalog for TLC: table and index names are interchangeable.             *)
EXTENDS Catalog, TLC

Symmetry == Permutations(Name) \cup Permutations(IndexName)
=============================================================================
