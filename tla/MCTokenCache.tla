---------------------------- MODULE MCTokenCache ----------------------------
(***************************************************************************)
(* TokenCache for model checking.                                          *)
(***************************************************************************)
EXTENDS TokenCache

=============================================================================
