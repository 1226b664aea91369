----------------------------- MODULE AtomicCell -----------------------------
(***************************************************************************)
(* What the writers of attr.json, mode.json and the WAL entries can rely   *)
(* on: a cell that a write replaces in one step or leaves alone, as long   *)
(* as no two writes overlap.  Writes that overlap leave Anything, until a  *)
(* write that overlaps with none.  A power failure may bring back what was *)
(* replaced since the last time the directory was flushed.                 *)
(***************************************************************************)
CONSTANTS Writers, Values, Absent, NoValue, Anything

VARIABLES
  cell,      \* the value read by everyone
  past,      \* replaced values that a power failure may bring back
  pending    \* the value each writer is writing, or NoValue

vars == <<cell, past, pending>>

Nothing == [w \in Writers |-> NoValue]

Init == cell = Absent /\ past = {} /\ pending = Nothing

Writing == {w \in Writers : pending[w] # NoValue}

BeginAlone(w, v) ==
  /\ Writing = {}
  /\ pending' = [pending EXCEPT ![w] = v]
  /\ UNCHANGED <<cell, past>>

\* From here on nobody can tell what the writers under way will leave.
BeginBeside(w) ==
  /\ w \notin Writing /\ Writing # {}
  /\ pending' = [u \in Writers |->
                   IF u \in Writing \union {w} THEN Anything ELSE NoValue]
  /\ UNCHANGED <<cell, past>>

Replace(v) == cell' = v /\ past' = past \union {cell}

Take(w) ==
  /\ w \in Writing
  /\ Replace(pending[w])
  /\ pending' = [pending EXCEPT ![w] = NoValue]

Abandon(w) ==
  /\ w \in Writing
  /\ pending' = [pending EXCEPT ![w] = NoValue]
  /\ UNCHANGED <<cell, past>>

Remove(w) == w \notin Writing /\ Replace(Absent) /\ UNCHANGED pending

Flush == past' = {} /\ UNCHANGED <<cell, pending>>

Crash == pending' = Nothing /\ UNCHANGED <<cell, past>>

PowerLoss ==
  /\ cell' \in past \union {cell}
  /\ past' = {}
  /\ pending' = Nothing

Next ==
  \/ \E w \in Writers : \/ \E v \in Values : BeginAlone(w, v)
                        \/ BeginBeside(w)
                        \/ Take(w) \/ Abandon(w) \/ Remove(w)
  \/ Flush \/ Crash \/ PowerLoss

Spec == Init /\ [][Next]_vars

=============================================================================
