--------------------------- MODULE MCRegistrySync ---------------------------
(***************************************************************************)
(* RegistrySync with model values for TLC.                                 *)
(***************************************************************************)
EXTENDS RegistrySync

CONSTANTS s1, s2

=============================================================================
