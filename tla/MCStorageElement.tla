-------------------------- MODULE MCStorageElement --------------------------
(***************************************************************************)
(* Values for the constants of StorageElement that a configuration file    *)
(* cannot write down, shared by the standalone runs.                       *)
(***************************************************************************)
EXTENDS StorageElement, TLC

CONSTANTS n1, w1, w2, f1, f2, f3

MCHome2 == w1 :> n1 @@ w2 :> n1

\* One byte ...
MCSize1 == f1 :> 1
\* ... and more than the capacity holds.
MCSize3 == f1 :> 2 @@ f2 :> 2 @@ f3 :> 1

Symmetry == Permutations(Workers)

=============================================================================
