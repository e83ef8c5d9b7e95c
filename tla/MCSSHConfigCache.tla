--------------------------- MODULE MCSSHConfigCache ---------------------------
(***************************************************************************)
(* A small instance of SSHConfigCache.                                     *)
(***************************************************************************)
EXTENDS SSHConfigCache, TLC

Symmetry == Permutations(Calls) \union Permutations(Aliases)
=============================================================================
