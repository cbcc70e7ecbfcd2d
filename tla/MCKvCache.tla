------------------------------ MODULE MCKvCache ------------------------------
(***************************************************************************)
(* Instances of KvCache for TLC.                                           *)
(***************************************************************************)
EXTENDS KvCache

\* The first position, and everything behind it.
MCRanges == {<<0, 1>>, <<1, Infinity>>}

OneBack  == {-1}
BothWays == {-1, 1}
Symmetry == Permutations(SeqId)
=============================================================================
