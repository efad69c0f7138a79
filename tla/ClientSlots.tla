----------------------------- MODULE ClientSlots -----------------------------
(***************************************************************************)
(* What the event loop promises about the slots of its clients, whatever   *)
(* descriptors, batches and maps it uses to keep the promise: a slot       *)
(* serves one connection at a time, one request of it at a time, with at   *)
(* most one CGI job; the job is over when its verdict is known and when    *)
(* the connection goes; nothing happens to two slots in one step.          *)
(***************************************************************************)
CONSTANT Slots

VARIABLES
  phase,  \* what the slot is doing
  jobs    \* slots with a CGI child that has not been reaped

Phases == {"free", "idle", "reading", "answering", "cgi", "decided"}

Init ==
  /\ phase = [s \in Slots |-> "free"]
  /\ jobs = {}

Move(s, from, to) ==
  /\ phase[s] \in from
  /\ phase' = [phase EXCEPT ![s] = to]

\* A connection is given the slot.
Connect(s) == Move(s, {"free"}, "idle") /\ UNCHANGED jobs

\* Bytes of a request arrive; the last ones complete it or prove it wrong.
Read(s) == Move(s, {"idle", "reading"}, "reading") /\ UNCHANGED jobs
Ask(s) == Move(s, {"idle", "reading"}, "answering") /\ UNCHANGED jobs

\* The answer needs a CGI; the CGI ends, is found wrong or runs out of time.
Start(s) ==
  /\ Move(s, {"answering", "decided"}, "cgi")
  /\ s \notin jobs
  /\ jobs' = jobs \cup {s}
Decide(s) == Move(s, {"cgi"}, "decided") /\ jobs' = jobs \ {s}

\* The verdict of the CGI, or the request itself, is turned into an answer.
Answer(s) == Move(s, {"answering", "decided"}, "answering") /\ UNCHANGED jobs
Finish(s) == Move(s, {"answering", "decided"}, "idle") /\ UNCHANGED jobs

\* The connection goes at any time, and its job with it.
Close(s) == Move(s, Phases \ {"free"}, "free") /\ jobs' = jobs \ {s}

Next ==
  \E s \in Slots : \/ Connect(s) \/ Read(s) \/ Ask(s) \/ Start(s)
                   \/ Decide(s) \/ Answer(s) \/ Finish(s) \/ Close(s)

Spec == Init /\ [][Next]_<<phase, jobs>>
=============================================================================
