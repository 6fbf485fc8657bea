----------------------------- MODULE AgentStream -----------------------------
(***************************************************************************)
(* What the worker may rely on about one run of an agent: a stream that    *)
(* ends once, with an outcome that stays, and one process, which the       *)
(* worker watches through the stream or, when there is no stream yet or    *)
(* none any more, does not.                                                *)
(***************************************************************************)
VARIABLES
  stream, \* "unopened", "open", "over"
  agent,  \* the process: "none", "watched", "stray", "gone"
  outcome \* what the stream ended with; "none" until then

vars == <<stream, agent, outcome>>

Outcomes == {"completed", "failed", "cancelled", "timeout"}

Init == stream = "unopened" /\ agent = "none" /\ outcome = "none"

(* The process is there before anybody has the stream that shows it. *)
Launch ==
  /\ agent = "none" /\ outcome = "none"
  /\ agent' = "stray"
  /\ UNCHANGED <<stream, outcome>>

Open ==
  /\ stream = "unopened" /\ agent # "none"
  /\ stream' = "open"
  /\ agent' = IF agent = "stray" THEN "watched" ELSE agent
  /\ UNCHANGED outcome

Exits == agent \in {"watched", "stray"} /\ agent' = "gone" /\ UNCHANGED <<stream, outcome>>

Unwatched == IF agent = "watched" THEN "stray" ELSE agent

(* There is no stream for the worker, or no worker for the stream. *)
Drop == stream # "over" /\ stream' = "over" /\ agent' = Unwatched /\ UNCHANGED outcome

End ==
  /\ stream # "over" /\ agent # "none"
  /\ stream' = "over" /\ agent' = Unwatched
  /\ outcome' \in Outcomes

Next == Launch \/ Open \/ Exits \/ Drop \/ End

Spec == Init /\ [][Next]_vars
=============================================================================
