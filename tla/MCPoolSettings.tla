---------------------------- MODULE MCPoolSettings ----------------------------
(***************************************************************************)
(* Small instances of PoolSettings.                                        *)
(***************************************************************************)
EXTENDS PoolSettings, TLC

Symmetry == Permutations(Gets) \union Permutations(Edits) \union Permutations(Entries)
=============================================================================
