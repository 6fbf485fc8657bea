------------------------------ MODULE TaskRuns ------------------------------
(***************************************************************************)
(* The life of agent tasks: the control plane queues, cancels, requeues    *)
(* and deletes them (apps/web/src/lib/tasks.ts) while worker processes     *)
(* claim and run them (claimNextTask, runTask, startDueRuns and            *)
(* recoverStaleRuns of apps/worker/src/processor.ts).  All of them share   *)
(* only the database: each database statement is one atomic step, and      *)
(* anything may happen between two of them.                                *)
(*                                                                         *)
(* A run is one call of runTask, from the claim that starts it to the      *)
(* settling of its promise; it keeps its identity after its worker died,   *)
(* because its agent_runs row and its agent process may outlive it.        *)
(***************************************************************************)
EXTENDS Integers, FiniteSets, TaskStatus

CONSTANTS
  Tasks,           \* the tasks, numbered in the order of their createdAt
  Workers,         \* the worker processes
  Slots,           \* WORKER_MAX_CONCURRENT_RUNS
  CandidateLimit,  \* queued tasks one scan looks at (20 in the code)
  Overlap,         \* the pairs of distinct tasks of one workspace whose scopes overlap
  Block,           \* whether policy.overlap is `block` (else `warn`)
  AutoIntegrate,   \* whether policy.integration is `auto` (else `human`)
  Closed,          \* the tasks of soft-deleted workspaces
  Deletable,       \* bound: the tasks that an owner may delete
  MaxRuns,         \* bound: runs over all
  MaxQueueings,    \* bound: times a task is queued
  MaxFaults        \* bound: crashes, failed statements and live runs gone stale, together

ASSUME TaskRunsAssumption ==
  /\ Tasks \subseteq Nat \ {0}
  /\ 0 \notin Workers
  /\ Slots \in Nat \ {0}
  /\ CandidateLimit \in Nat \ {0}
  /\ Overlap \subseteq Tasks \X Tasks
  /\ Block \in BOOLEAN /\ AutoIntegrate \in BOOLEAN
  /\ MaxRuns \in Nat /\ MaxQueueings \in Nat /\ MaxFaults \in Nat

VARIABLES
  task,      \* the status column of each task's row
  queueing,  \* how often each task has been queued so far
  run,       \* the runs
  scan,      \* each worker's claimNextTask in progress
  sweep,     \* each worker's recoverStaleRuns in progress
  deleting,  \* the tasks deleteTask has checked and not deleted yet
  merging,   \* the tasks an integration in progress has claimed
  faults     \* crashes, failed statements and live runs gone stale so far

vars == <<task, queueing, run, scan, sweep, deleting, merging, faults>>

Runs == 1..MaxRuns
NoTask == 0
NoRun == 0

(* Where a run is: about to write its row; connecting, making the worktree
   and reading the credential; consuming the agent's events; committing
   leftovers; between the writes of its outcome; in the catch block; or over:
   returned, rejected by a write that failed, or gone with its worker. *)
OnTrack == {"claimed", "preparing", "streaming", "committing", "recorded", "deciding", "announcing"}
InCatch == {"failing", "noting", "closing"}
Finished == {"ended", "lost", "dead"}

Run == [ task     : Tasks \cup {NoTask},
         worker   : Workers \cup {0},
         queueing : 0..MaxQueueings,
         at       : {"unused"} \cup OnTrack \cup InCatch \cup Finished,
         row      : {"none", "running", "over"},         \* `over`: ended, or deleted with its task
         stale    : BOOLEAN,                             \* heartbeatAt is older than STALE_RUN_MS
         agent    : {"none", "watched", "stray"},         \* its process, if it has one
         outcome  : {"completed", "failed", "cancelled"} ]

Unused == [ task |-> NoTask, worker |-> 0, queueing |-> 0, at |-> "unused",
            row |-> "none", stale |-> FALSE, agent |-> "none", outcome |-> "failed" ]

NoScan == [left |-> {}, pick |-> NoTask]
NoSweep == [left |-> {}, half |-> NoRun]

TypeOK ==
  /\ task \in [Tasks -> TaskStatuses \cup {"unborn", "deleted"}]
  /\ queueing \in [Tasks -> 0..MaxQueueings]
  /\ run \in [Runs -> Run]
  /\ scan \in [Workers -> [left : SUBSET Tasks, pick : Tasks \cup {NoTask}]]
  /\ sweep \in [Workers -> [left : SUBSET Runs, half : Runs \cup {NoRun}]]
  /\ deleting \subseteq Tasks
  /\ merging \subseteq Tasks
  /\ faults \in 0..MaxFaults

Init ==
  /\ task = [t \in Tasks |-> "unborn"]
  /\ queueing = [t \in Tasks |-> 0]
  /\ run = [r \in Runs |-> Unused]
  /\ scan = [w \in Workers |-> NoScan]
  /\ sweep = [w \in Workers |-> NoSweep]
  /\ deleting = {}
  /\ merging = {}
  /\ faults = 0

-----------------------------------------------------------------------------
(* Shared vocabulary. *)

InUse(r) == run[r].at # "unused"
Alive(r) == run[r].at \in OnTrack \cup InCatch
RunsOf(w) == {r \in Runs : run[r].worker = w /\ Alive(r)}
Current(r) == run[r].queueing = queueing[run[r].task]

(* An UPDATE by id: it finds no row once the task is deleted. *)
SetStatus(t, s) == IF task[t] = "deleted" THEN task ELSE [task EXCEPT ![t] = s]

(* Mistaken: the guarded update is forgotten. *)
FailNothing(t) == task

(* An UPDATE guarded by status = 'running'. *)
FailIfRunning(t) == IF task[t] = "running" THEN [task EXCEPT ![t] = "failed"] ELSE task

(* The run's row leaves `running`; staleness only matters until then. *)
RowOver(x) == [x EXCEPT !.row = "over", !.stale = FALSE]

(* The promise settles; the coroutine's locals go with it. *)
Settled(x, how) == [x EXCEPT !.at = how, !.outcome = "failed"]

RunUnchanged == UNCHANGED <<queueing, scan, sweep, deleting, merging, faults>>

-----------------------------------------------------------------------------
(* The control plane.  transition() reads the row, checks the table and      *)
(* updates WHERE status is still what it read: one atomic step.              *)

WebUnchanged == UNCHANGED <<run, scan, sweep, merging, faults>>

Create(t) ==
  /\ task[t] = "unborn"
  /\ \A u \in Tasks : u < t => task[u] # "unborn"
  /\ queueing[t] < MaxQueueings
  /\ task' = [task EXCEPT ![t] = "queued"]
  /\ queueing' = [queueing EXCEPT ![t] = @ + 1]
  /\ UNCHANGED deleting /\ WebUnchanged

Approve(t) ==
  /\ CanTransition(task[t], "approved")
  /\ task' = [task EXCEPT ![t] = "approved"]
  /\ UNCHANGED <<queueing, deleting>> /\ WebUnchanged

Cancel(t) ==
  /\ CanTransition(task[t], "cancelled")
  /\ task' = [task EXCEPT ![t] = "cancelled"]
  /\ UNCHANGED <<queueing, deleting>> /\ WebUnchanged

Requeue(t) ==
  /\ CanTransition(task[t], "queued")
  /\ queueing[t] < MaxQueueings
  /\ task' = [task EXCEPT ![t] = "queued"]
  /\ queueing' = [queueing EXCEPT ![t] = @ + 1]
  /\ UNCHANGED deleting /\ WebUnchanged

(* deleteTask checks the status it read and then deletes whatever is there. *)
DeleteCheck(t) ==
  /\ t \in Deletable
  /\ task[t] \notin {"unborn", "deleted", "running", "integrating"}
  /\ deleting' = deleting \cup {t}
  /\ UNCHANGED <<task, queueing>> /\ WebUnchanged

(* The runs' rows go with the task's: they reference it ON DELETE CASCADE. *)
DeleteRow(t) ==
  /\ t \in deleting
  /\ task' = [task EXCEPT ![t] = "deleted"]
  /\ deleting' = deleting \ {t}
  /\ run' = [r \in Runs |-> IF run[r].task = t /\ run[r].row = "running" THEN RowOver(run[r]) ELSE run[r]]
  /\ UNCHANGED <<queueing, scan, sweep, merging, faults>>

(* Integration, summarised: it claims an approved task by compare-and-set and
   later writes its verdict by id, or hands the task back. *)
MergeStart(t) ==
  /\ task[t] = "approved"
  /\ task' = [task EXCEPT ![t] = "integrating"]
  /\ merging' = merging \cup {t}
  /\ UNCHANGED <<queueing, run, scan, sweep, deleting, faults>>

MergeEnd(t) ==
  /\ t \in merging
  /\ \/ \E s \in {"done", "needs_rebase", "checks_failed", "failed"} : task' = SetStatus(t, s)
     \/ task' = IF task[t] = "integrating" THEN [task EXCEPT ![t] = "approved"] ELSE task
  /\ merging' = merging \ {t}
  /\ UNCHANGED <<queueing, run, scan, sweep, deleting, faults>>

Web(t) ==
  \/ Create(t) \/ Approve(t) \/ Cancel(t) \/ Requeue(t)
  \/ DeleteCheck(t) \/ DeleteRow(t)
  \/ MergeStart(t) \/ MergeEnd(t)

-----------------------------------------------------------------------------
(* A worker's tick: recoverStaleRuns, then startDueRuns, which calls         *)
(* claimNextTask while the worker has a free slot.                           *)

Idle(w) == scan[w] = NoScan /\ sweep[w] = NoSweep

(* Mistaken: the limit is taken from the agent_runs table (countOwnRunningRuns). *)
FreeSlotsByRows(w) == Slots - Cardinality({r \in Runs : run[r].worker = w /\ run[r].row = "running"})

FreeSlots(w) == Slots - Cardinality(RunsOf(w))

(* The oldest queued tasks, at most CandidateLimit of them. *)
Candidates ==
  LET queued == {t \in Tasks : task[t] = "queued"}
  IN  {t \in queued : Cardinality({u \in queued : u < t}) < CandidateLimit}

ScanStart(w) ==
  /\ Idle(w)
  /\ FreeSlots(w) > 0
  /\ Candidates # {}
  /\ scan' = [scan EXCEPT ![w].left = Candidates]
  /\ UNCHANGED <<task, queueing, run, sweep, deleting, merging, faults>>

Overlapping(t, u) == t = u \/ <<t, u>> \in Overlap \/ <<u, t>> \in Overlap

Blocked(t) ==
  Block /\ \E u \in Tasks : task[u] \in {"running", "integrating"} /\ Overlapping(t, u)

(* Mistaken: the task of a deleted workspace ends the scan. *)
ScanStops(w) ==
  \E t \in scan[w].left :
    /\ scan[w].pick = NoTask
    /\ \A u \in scan[w].left : t <= u
    /\ scan' = [scan EXCEPT ![w] =
                  [left |-> IF t \in Closed THEN {} ELSE @.left \ {t},
                   pick |-> IF t \in Closed \/ Blocked(t) THEN NoTask ELSE t]]
    /\ UNCHANGED <<task, queueing, run, sweep, deleting, merging, faults>>

(* The next candidate is passed over, or becomes the one to claim. *)
ScanCheck(w) ==
  \E t \in scan[w].left :
    /\ scan[w].pick = NoTask
    /\ \A u \in scan[w].left : t <= u
    /\ scan' = [scan EXCEPT ![w] =
                  [left |-> @.left \ {t}, pick |-> IF t \in Closed \/ Blocked(t) THEN NoTask ELSE t]]
    /\ UNCHANGED <<task, queueing, run, sweep, deleting, merging, faults>>

Fresh(r) == run[r].at = "unused" /\ \A q \in Runs : q < r => run[q].at # "unused"

(* Mistaken: the update names the task and not its status. *)
AnyStatus(t) == TRUE

(* The WHERE clause of the claiming update. *)
StillQueued(t) == task[t] = "queued"

(* The compare-and-set on status = 'queued'; a loser goes on with its scan. *)
ScanClaim(w) ==
  LET t == scan[w].pick IN
    /\ t # NoTask
    /\ \/ /\ StillQueued(t)
          /\ \E r \in Runs :
               /\ Fresh(r)
               /\ run' = [run EXCEPT ![r] = [Unused EXCEPT !.task = t, !.worker = w,
                                                           !.queueing = queueing[t], !.at = "claimed"]]
          /\ task' = [task EXCEPT ![t] = "running"]
          /\ scan' = [scan EXCEPT ![w] = NoScan]
       \/ /\ ~StillQueued(t)
          /\ scan' = [scan EXCEPT ![w].pick = NoTask]
          /\ UNCHANGED <<task, run>>
    /\ UNCHANGED <<queueing, sweep, deleting, merging, faults>>

(* Time passes without a heartbeat.  The interval that writes them runs while
   the events are consumed and only then; a run silent for so long without
   being over counts as a fault. *)
GoStale(r) ==
  /\ run[r].row = "running" /\ ~run[r].stale
  /\ run[r].at # "streaming"
  /\ Alive(r) => faults < MaxFaults
  /\ run' = [run EXCEPT ![r].stale = TRUE]
  /\ faults' = IF Alive(r) THEN faults + 1 ELSE faults
  /\ UNCHANGED <<task, queueing, scan, sweep, deleting, merging>>

(* Mistaken: a worker takes its own rows for runs it is still holding. *)
StaleRowsOfOthers(w) == {r \in Runs : run[r].row = "running" /\ run[r].stale /\ run[r].worker # w}

(* The rows recoverStaleRuns selects. *)
StaleRows(w) == {r \in Runs : run[r].row = "running" /\ run[r].stale}

SweepRead(w) ==
  /\ Idle(w)
  /\ StaleRows(w) # {}
  /\ sweep' = [sweep EXCEPT ![w].left = StaleRows(w)]
  /\ UNCHANGED <<task, queueing, run, scan, deleting, merging, faults>>

(* The two updates recoverStaleRuns makes for each run it read. *)
SweepRun(w) ==
  /\ sweep[w].half = NoRun
  /\ \E r \in sweep[w].left :
       /\ run' = [run EXCEPT ![r] = RowOver(@)]
       /\ sweep' = [sweep EXCEPT ![w] = [left |-> @.left \ {r}, half |-> r]]
  /\ UNCHANGED <<task, queueing, scan, deleting, merging, faults>>

SweepTask(w) ==
  /\ sweep[w].half # NoRun
  /\ task' = FailIfRunning(run[sweep[w].half].task)
  /\ sweep' = [sweep EXCEPT ![w].half = NoRun]
  /\ UNCHANGED <<queueing, run, scan, deleting, merging, faults>>

(* A statement of the tick fails: the tick is over, the runs go on. *)
TickFails(w) ==
  /\ faults < MaxFaults
  /\ ~Idle(w)
  /\ scan' = [scan EXCEPT ![w] = NoScan]
  /\ sweep' = [sweep EXCEPT ![w] = NoSweep]
  /\ faults' = faults + 1
  /\ UNCHANGED <<task, queueing, run, deleting, merging>>

-----------------------------------------------------------------------------
(* runTask. *)

(* The INSERT of the run's row, refused by the foreign key if the task has
   been deleted since the claim; it stands before the try block. *)
InsertRun(r) ==
  /\ run[r].at = "claimed"
  /\ run' = [run EXCEPT ![r] = IF task[@.task] = "deleted"
                               THEN Settled(@, "lost")
                               ELSE [@ EXCEPT !.at = "preparing", !.row = "running"]]
  /\ UNCHANGED task /\ RunUnchanged

(* connect, worktree, brief, credential; then runtime.start and the first
   heartbeat. *)
StartAgent(r) ==
  /\ run[r].at = "preparing"
  /\ run' = [run EXCEPT ![r].at = "streaming", ![r].agent = "watched", ![r].stale = FALSE]
  /\ UNCHANGED task /\ RunUnchanged

(* The interval's callback; one still in flight when the stream ends may
   finish while the work is being committed. *)
Beat(r) ==
  /\ run[r].at \in {"streaming", "committing"}
  /\ run' = [run EXCEPT ![r].stale = FALSE,
                        ![r].outcome = IF task[run[r].task] = "cancelled" THEN "cancelled" ELSE @]
  /\ UNCHANGED task /\ RunUnchanged

(* The event stream ends: with the agent's exit, or without one when the
   stream was lost or the exit notification did not come (the agent is then
   a stray).  A cancellation outranks what the agent reported; `timeout` is
   told apart from `failed` nowhere and counts as one. *)
StreamEnds(r) ==
  /\ run[r].at = "streaming"
  /\ \E end \in {<<"none", "completed">>, <<"none", "failed">>, <<"stray", "failed">>} :
       run' = [run EXCEPT ![r].at = "committing", ![r].agent = end[1],
                          ![r].outcome = IF @ = "cancelled" THEN @ ELSE end[2]]
  /\ UNCHANGED task /\ RunUnchanged

(* commitAll, and the final update of the run's row. *)
RecordRun(r) ==
  /\ run[r].at = "committing"
  /\ run' = [run EXCEPT ![r] = [RowOver(@) EXCEPT !.at = "recorded"]]
  /\ UNCHANGED task /\ RunUnchanged

(* The task's status is read again... *)
ReadStatus(r) ==
  /\ run[r].at = "recorded"
  /\ run' = [run EXCEPT ![r].at = "deciding",
                        ![r].outcome = IF task[run[r].task] = "cancelled" THEN "cancelled" ELSE @]
  /\ UNCHANGED task /\ RunUnchanged

(* Mistaken: the run's outcome is stored as the task's status. *)
OutcomeAsStatus(outcome) == outcome

NextStatus(outcome) ==
  CASE outcome = "cancelled" -> "cancelled"
    [] outcome = "completed" -> IF AutoIntegrate THEN "approved" ELSE "needs_review"
    [] OTHER                 -> "failed"

(* ... and then written by id, whatever it has become. *)
WriteStatus(r) ==
  /\ run[r].at = "deciding"
  /\ task' = SetStatus(run[r].task, NextStatus(run[r].outcome))
  /\ run' = [run EXCEPT ![r].at = "announcing", ![r].outcome = "failed"]
  /\ RunUnchanged

(* The task.run_finished event, and the return. *)
Announce(r) ==
  /\ run[r].at = "announcing"
  /\ run' = [run EXCEPT ![r] = Settled(@, "ended")]
  /\ UNCHANGED task /\ RunUnchanged

(* Any statement of the try block may throw. *)
Throw(r) ==
  /\ run[r].at \in OnTrack \ {"claimed"}
  /\ run' = [run EXCEPT ![r].at = "failing", ![r].outcome = "failed"]
  /\ UNCHANGED task /\ RunUnchanged

(* Mistaken: the catch block only records the failure. *)
LeaveAgent(r) ==
  /\ run[r].at = "failing"
  /\ run' = [run EXCEPT ![r].at = "noting"]
  /\ UNCHANGED task /\ RunUnchanged

(* The catch block stops an agent whose stream has not ended, before any
   write; a kill that fails is ignored. *)
CancelAgent(r) ==
  /\ run[r].at = "failing"
  /\ \E a \in IF run[r].agent = "watched" THEN {"none", "stray"} ELSE {run[r].agent} :
       run' = [run EXCEPT ![r].at = "noting", ![r].agent = a]
  /\ UNCHANGED task /\ RunUnchanged

NoteFailure(r) ==
  /\ run[r].at = "noting"
  /\ run' = [run EXCEPT ![r] = [RowOver(@) EXCEPT !.at = "closing"]]
  /\ UNCHANGED task /\ RunUnchanged

FailTask(r) ==
  /\ run[r].at = "closing"
  /\ task' = FailIfRunning(run[r].task)
  /\ run' = [run EXCEPT ![r] = Settled(@, "ended")]
  /\ RunUnchanged

RunStep(r) ==
  \/ InsertRun(r) \/ StartAgent(r) \/ StreamEnds(r) \/ RecordRun(r)
  \/ ReadStatus(r) \/ WriteStatus(r) \/ Announce(r)
  \/ Throw(r) \/ CancelAgent(r) \/ NoteFailure(r) \/ FailTask(r)

(* A write outside the try block fails: nothing handles it. *)
LoseRun(r) ==
  /\ faults < MaxFaults
  /\ run[r].at \in {"claimed", "noting", "closing"}
  /\ run' = [run EXCEPT ![r] = Settled(@, "lost")]
  /\ faults' = faults + 1
  /\ UNCHANGED <<task, queueing, scan, sweep, deleting, merging>>

(* A stray agent exits, is stopped by the retries of stopLostProcess, or by
   the orchestrator, which kills an agent whose caller disconnected. *)
StrayStops(r) ==
  /\ run[r].agent = "stray"
  /\ run' = [run EXCEPT ![r].agent = "none"]
  /\ UNCHANGED task /\ RunUnchanged

(* The worker process dies with everything it holds in memory; it starts
   again with nothing. *)
Crash(w) ==
  /\ faults < MaxFaults
  /\ run' = [r \in Runs |->
               IF r \in RunsOf(w)
               THEN Settled([run[r] EXCEPT !.agent = IF @ = "watched" THEN "stray" ELSE @], "dead")
               ELSE run[r]]
  /\ scan' = [scan EXCEPT ![w] = NoScan]
  /\ sweep' = [sweep EXCEPT ![w] = NoSweep]
  /\ faults' = faults + 1
  /\ UNCHANGED <<task, queueing, deleting, merging>>

-----------------------------------------------------------------------------
Worker(w) ==
  \/ ScanStart(w) \/ ScanCheck(w) \/ ScanClaim(w)
  \/ SweepRead(w) \/ SweepRun(w) \/ SweepTask(w)
  \/ TickFails(w) \/ Crash(w)

RunMoves(r) == RunStep(r) \/ Beat(r) \/ GoStale(r) \/ LoseRun(r) \/ StrayStops(r)

Next ==
  \/ \E t \in Tasks : Web(t)
  \/ \E w \in Workers : Worker(w)
  \/ \E r \in Runs : RunMoves(r)

Spec == Init /\ [][Next]_vars

(* Fairness.  Promises settle and timers fire: a run that can take its next
   step takes it (a stream ends at the latest at the run's deadline).  A
   worker polls for ever: a scan or a sweep it has begun goes on, and each
   tick sweeps before it claims, so a sweep is not kept waiting by scans that
   claim nothing, which is strong fairness.  Time passes, so a row nobody
   refreshes goes stale.  Users, faults, heartbeats and integrations are
   never obliged to happen. *)
Fairness ==
  /\ \A r \in Runs : WF_vars(RunStep(r)) /\ WF_vars(GoStale(r))
  /\ \A w \in Workers :
       /\ WF_vars(ScanStart(w) \/ ScanCheck(w) \/ ScanClaim(w))
       /\ SF_vars(SweepRead(w))
       /\ WF_vars(SweepRun(w) \/ SweepTask(w))

FairSpec == Spec /\ Fairness

-----------------------------------------------------------------------------
(* What is claimed of it. *)

(* Two runs are never started for the same queueing of a task: claiming is a
   compare-and-set, and only a requeue makes a task claimable again. *)
ClaimedOnce ==
  \A q, r \in Runs :
    InUse(q) /\ InUse(r) /\ run[q].task = run[r].task /\ run[q].queueing = run[r].queueing => q = r

(* A task reads `running` only while the run of its latest queueing has not
   come to a regular end: whatever older runs, sweeps, cancellations and
   requeues do meanwhile, runTask returns only when its task has left `running`. *)
RunningIsOwned ==
  \A t \in Tasks : task[t] = "running" =>
    \E r \in Runs : InUse(r) /\ run[r].task = t /\ Current(r) /\ run[r].at # "ended"

(* RunSlots: a worker never holds more runs than its limit, although it
   claims tasks before their rows exist and runs may outlive their rows. *)
SlotBound == \A w \in Workers : Cardinality(RunsOf(w)) <= Slots

(* No agent is left being watched by nobody: once a run is over its agent has
   been told to stop, or had already been lost. *)
NoWatchedAgentLeft == \A r \in Runs : run[r].at \in Finished => run[r].agent # "watched"

(* Every claim takes an open ticket of its own (TicketQueue). *)
Queue == INSTANCE TicketQueue WITH
  Tickets <- Tasks \X (1..MaxQueueings),
  Takers  <- Runs,
  issued  <- {k \in Tasks \X (1..MaxQueueings) : k[2] <= queueing[k[1]]},
  open    <- {k \in Tasks \X (1..MaxQueueings) : task[k[1]] = "queued" /\ k[2] = queueing[k[1]]},
  holders <- [k \in Tasks \X (1..MaxQueueings) |->
                {r \in Runs : InUse(r) /\ run[r].task = k[1] /\ run[r].queueing = k[2]}]

ImplementsTicketQueue == Queue!TicketSpec

(* Without faults no task stays `running`. *)
RunningSettles == \A t \in Tasks : task[t] = "running" ~> (task[t] # "running" \/ faults > 0)

(* Without faults no queued task of a live workspace is passed over for ever:
   it is claimed, or withdrawn by its user, unless overlapping tasks keep
   blocking it. *)
QueuedIsTaken ==
  \A t \in Tasks \ Closed :
    task[t] = "queued" ~> (task[t] # "queued" \/ Blocked(t) \/ faults > 0)

(* A task whose worker died in the middle of its run is failed by the
   recovery, so that it can be requeued (one crash and no other fault). *)
OrphansAreRecovered ==
  \A r \in Runs, t \in Tasks :
    run[r].at = "dead" /\ run[r].row = "running" /\ run[r].task = t /\ Current(r)
      ~> task[t] # "running"

(* What the documentation says and the code does not keep. *)

(* A crash never strands a task: while it reads `running`, the run of its
   latest queueing is alive or has left a row for recoverStaleRuns to find. *)
RunningIsRecoverable ==
  \A t \in Tasks : task[t] = "running" =>
    \E r \in Runs : InUse(r) /\ run[r].task = t /\ Current(r) /\ (Alive(r) \/ run[r].row = "running")

(* No concurrent transition clobbers a cancellation: a cancelled task is
   queued again, or deleted, and becomes nothing else. *)
CancelSticks ==
  [][\A t \in Tasks : task[t] = "cancelled" => task'[t] \in {"cancelled", "queued", "deleted"}]_vars
=============================================================================
