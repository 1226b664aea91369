----------------------------- MODULE MCFileCache -----------------------------
(***************************************************************************)
(* FileCache with model values for TLC.                                    *)
(***************************************************************************)
EXTENDS FileCache, TLC

CONSTANTS s1, q1

MCAt == [r \in Readers |-> q1]

=============================================================================
