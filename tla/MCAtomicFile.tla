---------------------------- MODULE MCAtomicFile ----------------------------
(***************************************************************************)
(* Values for the constants of AtomicFile: a short and a long content.     *)
(***************************************************************************)
EXTENDS AtomicFile, TLC

CONSTANTS short, long

MCLength == short :> 1 @@ long :> 2

Symmetry == Permutations(Inodes) \union Permutations(Writers)

=============================================================================
