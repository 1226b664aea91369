----------------------------- MODULE MCReplica -----------------------------
(***************************************************************************)
(* Values for the constants of Replica: a request goroutine per process.   *)
(***************************************************************************)
EXTENDS Replica, TLC

CONSTANTS n1, n2, w1, w2, f1

MCHome == w1 :> n1 @@ w2 :> n2

MCSize == f1 :> 1

=============================================================================
