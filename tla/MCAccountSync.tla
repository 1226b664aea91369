---------------------------- MODULE MCAccountSync ----------------------------
(***************************************************************************)
(* AccountSync with model values for TLC.                                  *)
(***************************************************************************)
EXTENDS AccountSync, TLC

CONSTANTS t1

=============================================================================
