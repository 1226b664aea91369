---------------------------- MODULE StorageModes ----------------------------
(***************************************************************************)
(* The mode state machine of a Storage Element (domain/mode): the four     *)
(* operating modes, the transitions between them and the file operations   *)
(* each of them allows.  Constant-level definitions only; the current mode *)
(* of a process is a variable of StorageElement.                           *)
(***************************************************************************)

Modes == {"edit", "rw", "ro", "ar"}

Operations == {"upload", "download", "delete", "update", "list"}

validTransitions == {<<"rw", "ro">>, <<"ro", "ar">>, <<"ro", "rw">>}

needsConfirmation == {<<"ro", "rw">>}

\* TransitionTo succeeds: the pair is in the matrix and, where the code asks
\* for it, the request carries confirm: true.
TransitionAllowed(from, to, confirm) ==
  /\ <<from, to>> \in validTransitions
  /\ <<from, to>> \in needsConfirmation => confirm

allowedOperations ==
  [m \in Modes |->
     CASE m = "edit" -> Operations
       [] m = "rw"   -> Operations \ {"delete"}
       [] m = "ro"   -> {"download", "list"}
       [] m = "ar"   -> {"list"}]

CanPerform(m, op) == op \in allowedOperations[m]

=============================================================================
