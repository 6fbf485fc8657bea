----------------------------- MODULE TaskStatus -----------------------------
(***************************************************************************)
(* The statuses of an agent task and the table of moves between them that  *)
(* packages/agents declares.  Every module about tasks extends this one.   *)
(***************************************************************************)

(* The task_status enum of the database. *)
TaskStatuses ==
  { "draft", "queued", "running", "needs_review", "approved", "integrating",
    "needs_rebase", "checks_failed", "done", "failed", "cancelled" }

(* TASK_TRANSITIONS: from each status, the statuses it may move to. *)
Transitions ==
  [ draft         |-> {"queued", "cancelled"},
    queued        |-> {"running", "cancelled", "draft"},
    running       |-> {"needs_review", "failed", "cancelled"},
    needs_review  |-> {"approved", "queued", "cancelled"},
    approved      |-> {"integrating", "cancelled"},
    integrating   |-> {"done", "needs_rebase", "checks_failed", "failed"},
    needs_rebase  |-> {"queued", "cancelled"},
    checks_failed |-> {"queued", "approved", "cancelled"},
    done          |-> {},
    failed        |-> {"queued", "cancelled"},
    cancelled     |-> {"queued"} ]

(* canTransition, for a status that need not be a row's: a task that has
   no row (not created yet, or deleted) moves nowhere through the table. *)
CanTransition(from, to) == from \in TaskStatuses /\ to \in Transitions[from]

=============================================================================
