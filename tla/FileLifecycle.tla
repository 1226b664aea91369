---------------------------- MODULE FileLifecycle ----------------------------
(***************************************************************************)
(* What a Storage Element promises about every file, however many processes*)
(* serve it and whatever fails: a file is born by one upload, is kept from *)
(* the moment its attr.json is written, can be acknowledged from then on,  *)
(* is given up only after a DELETE, and never comes back.  Steps of        *)
(* requests, daemons and restarts are forgotten, and so is what clients    *)
(* are shown of a file whose DELETE was accepted while it lasts.           *)
(***************************************************************************)
CONSTANTS Files, Nodes

VARIABLES
  stage,     \* how far each file has come
  known,     \* the files each process has in its index
  serving,   \* the processes that are running
  promised,  \* the uploads each process has answered 201
  muddled    \* files that two operations have worked on at the same time

vars == <<stage, known, serving, promised, muddled>>

\* "lost": the upload came to nothing.  "doomed": a DELETE was accepted.
\* "gone": the data are removed.
Stages == {"new", "coming", "lost", "kept", "doomed", "gone"}

In(S) == {f \in Files : stage[f] \in S}

Init ==
  /\ stage = [f \in Files |-> "new"]
  /\ known = [n \in Nodes |-> {}]
  /\ serving = {}
  /\ promised = [n \in Nodes |-> {}]
  /\ muddled = {}

Become(f, from, to) ==
  /\ stage[f] = from
  /\ stage' = [stage EXCEPT ![f] = to]
  /\ UNCHANGED <<known, serving, promised>>

Begin(f)   == Become(f, "new", "coming") /\ UNCHANGED muddled
Keep(f)    == Become(f, "coming", "kept") /\ UNCHANGED muddled
GiveUp(f)  == Become(f, "coming", "lost") /\ UNCHANGED muddled
Collect(f) == Become(f, "doomed", "gone") /\ UNCHANGED muddled

\* A process accepts a DELETE of a file it knows, perhaps while another
\* operation works on it.
Doom(n, f) ==
  /\ n \in serving /\ f \in known[n]
  /\ Become(f, "kept", "doomed")
  /\ muddled' \in {muddled, muddled \union {f}}

\* Operations on files that are there meet.
Muddle(S) ==
  /\ S \subseteq In({"kept", "doomed", "gone"})
  /\ muddled' = muddled \union S
  /\ UNCHANGED <<stage, known, serving, promised>>

\* A process comes to know a file only when it is kept, or was ...
Learn(n, f) ==
  /\ n \in serving /\ f \in In({"kept", "doomed", "gone"})
  /\ known' = [known EXCEPT ![n] = @ \union {f}]
  /\ UNCHANGED <<stage, serving, promised, muddled>>

\* ... and while it runs it forgets one only when there is nothing left of it.
Forget(n, f) ==
  /\ n \in serving /\ f \in In({"gone"})
  /\ known' = [known EXCEPT ![n] = @ \ {f}]
  /\ UNCHANGED <<stage, serving, promised, muddled>>

\* A process that starts, or looks at the directory, knows all there is, but
\* perhaps not what was muddled.
Scan(n, S) ==
  /\ In({"kept", "doomed"}) \ muddled \subseteq S
  /\ S \subseteq In({"kept", "doomed", "gone"})
  /\ known' = [known EXCEPT ![n] = S]
  /\ serving' = serving \union {n}
  /\ UNCHANGED <<stage, promised, muddled>>

\* An upload is acknowledged by a process that can answer for the file, but for
\* what others have done to it meanwhile.
Promise(n, f) ==
  /\ n \in serving
  /\ f \in known[n] \union In({"gone"}) \union (muddled \intersect In({"kept", "doomed"}))
  /\ promised' = [promised EXCEPT ![n] = @ \union {f}]
  /\ UNCHANGED <<stage, known, serving, muddled>>

\* A process that dies takes along uploads that were coming, and nothing else.
Die(n, S) ==
  /\ n \in serving
  /\ S \subseteq In({"coming"})
  /\ serving' = serving \ {n}
  /\ known' = [known EXCEPT ![n] = {}]
  /\ stage' = [f \in Files |-> IF f \in S THEN "lost" ELSE stage[f]]
  /\ UNCHANGED <<promised, muddled>>

Next ==
  \/ \E f \in Files : Begin(f) \/ Keep(f) \/ GiveUp(f) \/ Collect(f)
  \/ \E n \in Nodes, f \in Files :
       Doom(n, f) \/ Learn(n, f) \/ Forget(n, f) \/ Promise(n, f)
  \/ \E n \in Nodes, S \in SUBSET Files : Scan(n, S) \/ Die(n, S)
  \/ \E S \in SUBSET Files : Muddle(S)

Spec == Init /\ [][Next]_vars

-----------------------------------------------------------------------------

Promises == [Nodes -> SUBSET Files]

\* What a process knows has been there.
KnownWasKept == \A n \in Nodes : known[n] \subseteq In({"kept", "doomed", "gone"})

\* What a client that was answered 201 can rely on: its file has been kept, and
\* while there is anything left of it the process that answered, whenever it
\* runs, knows it, unless two operations on it have met (Upload, main,
\* BuildFromDir, deleteFiles).
Reliable ==
  \A n \in Nodes : \A f \in promised[n] :
    /\ f \in In({"kept", "doomed", "gone"})
    /\ n \in serving => f \in known[n] \union In({"gone"}) \union muddled

=============================================================================
