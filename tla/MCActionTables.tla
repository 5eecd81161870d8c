--------------------------- MODULE MCActionTables ---------------------------
(***************************************************************************)
(* ActionTables for TLC.  The specification treats all ABIs but the        *)
(* built-in one, all voters, producers, proposals, requests and symbols    *)
(* alike, so states that differ by a permutation of them are one.          *)
(***************************************************************************)
EXTENDS ActionTables, TLC

Symmetry ==
  Permutations(Abis) \cup Permutations(Voters) \cup Permutations(Producers)
    \cup Permutations(Proposals) \cup Permutations(Requests) \cup Permutations(Symbols)
=============================================================================
