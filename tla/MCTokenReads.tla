---------------------------- MODULE MCTokenReads ----------------------------
(***************************************************************************)
(* TokenReads for TLC.  Contracts and symbols are interchangeable: neither *)
(* Init, Next nor a property tells one from another.                       *)
(***************************************************************************)
EXTENDS TokenReads

Symmetry == Permutations(Contracts) \cup Permutations(Symbols)
=============================================================================
