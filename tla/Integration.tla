---------------------------- MODULE Integration ----------------------------
(***************************************************************************)
(* Integrating approved tasks into the main tree of one workspace          *)
(* (integrateApprovedTask, claimAndIntegrate and recoverStaleIntegrations  *)
(* of apps/worker/src/processor.ts, integration-lease.ts, and integrateTask *)
(* and PerKeyMutex of packages/agents/src/integration.ts).                 *)
(*                                                                         *)
(* A job is one call of integrateApprovedTask.  Within a worker process    *)
(* jobs take turns on a mutex; between processes a lease in the database   *)
(* is to keep them apart.  A process that stops forgets its mutex and its  *)
(* set of claims and never comes back under the same id; its lease and the *)
(* status of the task it was integrating stay behind.                      *)
(***************************************************************************)
EXTENDS Integers, Sequences, FiniteSets, TaskStatus

CONSTANTS
  Tasks,      \* the tasks of the workspace
  Workers,    \* the worker processes there are over time
  MaxAlive,   \* worker processes at one time
  Term,       \* the lease's term (INTEGRATION_LEASE_MS), in ticks
  Slow,       \* whether an integration may take longer than a lease
  MaxJobs,    \* bound: jobs at one time
  MaxCrashes, \* bound: worker processes that die
  MaxFailures,\* bound: database statements of jobs that fail
  MaxFaults   \* bound: both together

ASSUME IntegrationAssumption ==
  /\ "none" \notin Workers \cup Tasks
  /\ MaxAlive \in Nat \ {0}
  /\ Term \in Nat \ {0}
  /\ Slow \in BOOLEAN
  /\ MaxJobs \in Nat \ {0}
  /\ MaxCrashes \in Nat /\ MaxFailures \in Nat /\ MaxFaults \in Nat

VARIABLES
  status,  \* each task's status column; `away` stands for draft to needs_review
  fresh,   \* ticks until the claim of a task is older than a lease
  lease,   \* the workspace's integrationLockedBy and, in ticks, integrationLockedUntil
  tip,     \* each task's branch: has it commits of its own, is it behind the base,
           \* has the integration in progress checked what it contains, and is its
           \* worktree in the middle of a rebase, before or behind the first commit,
           \* and is that because something was cut off
  proc,    \* each worker process: not started yet, up, or gone
  job,     \* the integrations in progress
  line,    \* each worker's PerKeyMutex: its jobs in the order in which they asked for it
  ours,    \* each worker's integratingHere
  sweep,   \* each worker's recoverStaleIntegrations: the rows it has read
  failures,\* statements that failed so far
  contested \* history: the tasks claimed while somebody was about to write what
           \* they had decided before

dbVars == <<status, fresh, lease>>
memVars == <<job, line, ours, sweep>>
procVars == <<proc, failures, contested>>
vars == <<dbVars, tip, memVars, procVars>>

Jobs == 1..MaxJobs
Nothing == "none"
Statuses == {"away", "approved", "integrating", "needs_rebase", "checks_failed", "done", "failed", "cancelled"}
Results == {"integrated", "nothing_to_integrate", "conflict", "checks_failed", "error"}

(* Where a job is.  While it works, or is about to hand the task back, it has
   the task's claim; from `leased` to `releasing` it also has the main tree. *)
Working == {"waiting", "leased", "rebasing", "stopped", "checking", "merging", "recording"}
Claiming == Working \cup {"refused"}
InTree == {"leased", "rebasing", "stopped", "checking", "merging", "recording", "recorded", "failing", "releasing"}
Places == {"unused", "marked", "refused"} \cup Working \cup InTree

Job == [ task   : Tasks \cup {Nothing},
         worker : Workers \cup {Nothing},
         at     : Places,
         result : Results ]
NoJob == [task |-> Nothing, worker |-> Nothing, at |-> "unused", result |-> "error"]

FreeLease == [by |-> Nothing, left |-> 0]
Rebasings == {"no", "started", "half"}

TypeOK ==
  /\ status \in [Tasks -> Statuses]
  /\ fresh \in [Tasks -> 0..Term]
  /\ lease \in [by : Workers \cup {Nothing}, left : 0..Term]
  /\ tip \in [Tasks -> [ahead : BOOLEAN, behind : BOOLEAN, checked : BOOLEAN, rebasing : Rebasings, cut : BOOLEAN]]
  /\ proc \in [Workers -> {"new", "up", "gone"}]
  /\ job \in [Jobs -> Job]
  /\ line \in [Workers -> Seq(Jobs)]
  /\ ours \in [Workers -> SUBSET Tasks]
  /\ sweep \in [Workers -> SUBSET Tasks]
  /\ failures \in 0..MaxFailures
  /\ contested \subseteq Tasks

Init ==
  /\ status = [t \in Tasks |-> "away"]
  /\ fresh = [t \in Tasks |-> 0]
  /\ lease = FreeLease
  /\ tip = [t \in Tasks |-> [ahead |-> FALSE, behind |-> FALSE, checked |-> FALSE, rebasing |-> "no", cut |-> FALSE]]
  /\ proc = [w \in Workers |-> "new"]
  /\ job = [j \in Jobs |-> NoJob]
  /\ line = [w \in Workers |-> <<>>]
  /\ ours = [w \in Workers |-> {}]
  /\ sweep = [w \in Workers |-> {}]
  /\ failures = 0
  /\ contested = {}

At(j, place) == job[j].at = place
Go(j, place) == job' = [job EXCEPT ![j].at = place]
Conclude(j, result) == job' = [job EXCEPT ![j].at = "recording", ![j].result = result]

(* A status written with updatedAt = now; its age matters to claims only. *)
SetStatus(t, s) ==
  /\ status' = [status EXCEPT ![t] = s]
  /\ fresh' = [fresh EXCEPT ![t] = IF s = "integrating" THEN Term ELSE 0]

Claimed(t) == \E j \in Jobs : job[j].task = t /\ job[j].at \in Claiming

(* Two writes do not look at who has claimed the task: that of a recovery that
   has read its row, and that of the catch block of a job that had recorded its
   verdict already. *)
AboutToWrite(t) ==
  \/ \E w \in Workers : t \in sweep[w]
  \/ \E j \in Jobs : job[j].task = t /\ job[j].at = "failing"

-----------------------------------------------------------------------------
(* Around the worker: the users, who work in the main tree too; time.        *)

Approve(t) ==
  /\ CanTransition(status[t], "approved")
  /\ SetStatus(t, "approved")
  /\ UNCHANGED <<lease, tip, memVars, procVars>>

Cancel(t) ==
  /\ CanTransition(status[t], "cancelled")
  /\ SetStatus(t, "cancelled")
  /\ UNCHANGED <<lease, tip, memVars, procVars>>

Requeue(t) ==
  /\ CanTransition(status[t], "queued")
  /\ SetStatus(t, "away")
  /\ UNCHANGED <<lease, tip, memVars, procVars>>

(* A run has left commits, or none, in the task's worktree, and was approved.
   In the middle of a rebase they are not on the branch; the agent may also have
   ended the rebase, one way or the other. *)
RunApproved(t) ==
  /\ status[t] = "away"
  /\ SetStatus(t, "approved")
  /\ \/ UNCHANGED tip
     \/ /\ tip[t].rebasing = "no"
        /\ tip' = [tip EXCEPT ![t].ahead = TRUE, ![t].checked = FALSE]
     \/ /\ tip[t].rebasing # "no"
        /\ \/ tip' = [tip EXCEPT ![t].rebasing = "half"]
           \/ tip' = [tip EXCEPT ![t].rebasing = "no", ![t].cut = FALSE]
  /\ UNCHANGED <<lease, memVars, procVars>>

(* A member commits in the main tree. *)
BaseMoves ==
  /\ tip' = [t \in Tasks |-> [tip[t] EXCEPT !.behind = TRUE]]
  /\ UNCHANGED <<dbVars, memVars, procVars>>

Less(n) == IF n = 0 THEN 0 ELSE n - 1

(* The claim or the lease of an integration in progress is about to run out. *)
Overrunning(j) ==
  \/ job[j].at \in Claiming /\ fresh[job[j].task] = 1
  \/ job[j].at \in InTree /\ lease.left = 1

(* Unless integrations may be slow, each is over, from its claim to its
   release of the lease, within the term of a lease. *)
Tick ==
  /\ lease.left > 0 \/ \E t \in Tasks : fresh[t] > 0
  /\ Slow \/ \A j \in Jobs : ~Overrunning(j)
  /\ lease' = [lease EXCEPT !.left = Less(@)]
  /\ fresh' = [t \in Tasks |-> Less(fresh[t])]
  /\ UNCHANGED <<status, tip, memVars, procVars>>

Crashes == Cardinality({w \in Workers : proc[w] = "gone"})
MayFail == Crashes + failures < MaxFaults

Start(w) ==
  /\ proc[w] = "new"
  /\ Cardinality({v \in Workers : proc[v] = "up"}) < MaxAlive
  /\ proc' = [proc EXCEPT ![w] = "up"]
  /\ UNCHANGED <<failures, contested, dbVars, tip, memVars>>

(* What a command that was cut off leaves: the rebase that was going on, or
   perhaps the one that it had begun (r). *)
Cut(t, r) ==
  LET now == IF tip[t].rebasing = "no" THEN r ELSE tip[t].rebasing
  IN [tip[t] EXCEPT !.checked = FALSE, !.rebasing = now, !.cut = now # "no"]

(* Whether a job of the worker is there with the task. *)
Engaged(w, t, places) == \E j \in Jobs : job[j].worker = w /\ job[j].task = t /\ job[j].at \in places

(* The process dies, and the commands it was running in the workspace with
   its connection. *)
Crash(w) ==
  /\ proc[w] = "up"
  /\ Crashes < MaxCrashes /\ MayFail
  /\ proc' = [proc EXCEPT ![w] = "gone"]
  /\ job' = [j \in Jobs |-> IF job[j].worker = w THEN NoJob ELSE job[j]]
  /\ line' = [line EXCEPT ![w] = <<>>]
  /\ ours' = [ours EXCEPT ![w] = {}]
  /\ sweep' = [sweep EXCEPT ![w] = {}]
  /\ \E r \in Rebasings :
       tip' = [t \in Tasks |-> IF Engaged(w, t, {"rebasing"}) THEN Cut(t, r)
                               ELSE IF Engaged(w, t, InTree) THEN Cut(t, "no") ELSE tip[t]]
  /\ UNCHANGED <<dbVars, failures, contested>>

-----------------------------------------------------------------------------
(* A tick of the worker: recoverStaleIntegrations ... *)

LeaseLapsed == lease.by = Nothing \/ lease.left = 0

(* Mistaken: only a lease that was released counts as free. *)
AbandonedIfReleased(t) == status[t] = "integrating" /\ fresh[t] = 0 /\ lease.by = Nothing

(* Mistaken: the age of the claim is not looked at. *)
AbandonedAtAnyAge(t) == status[t] = "integrating" /\ LeaseLapsed

(* What the query selects. *)
Abandoned(t) == status[t] = "integrating" /\ fresh[t] = 0 /\ LeaseLapsed

RecoverRead(w) ==
  LET abandoned == {t \in Tasks : Abandoned(t)} IN
    /\ proc[w] = "up" /\ sweep[w] = {} /\ abandoned # {}
    /\ sweep' = [sweep EXCEPT ![w] = abandoned]
    /\ UNCHANGED <<dbVars, tip, job, line, ours, procVars>>

(* One row of the selection: skipped if this process has claimed the task,
   and else handed back if it still reads `integrating`. *)
RecoverTask(w, t) ==
  /\ t \in sweep[w]
  /\ sweep' = [sweep EXCEPT ![w] = @ \ {t}]
  /\ IF t \notin ours[w] /\ status[t] = "integrating"
     THEN SetStatus(t, "approved")
     ELSE UNCHANGED <<status, fresh>>
  /\ UNCHANGED <<lease, tip, job, line, ours, procVars>>

(* ... and then, without waiting for it, integrateApprovedTask for each
   approved task: marked before the claim is sent. *)
Mark(w, t) ==
  /\ proc[w] = "up" /\ sweep[w] = {} /\ status[t] = "approved"
  /\ \E j \in Jobs :
       /\ At(j, "unused") /\ \A k \in Jobs : k < j => ~At(k, "unused")
       /\ job' = [job EXCEPT ![j] = [NoJob EXCEPT !.task = t, !.worker = w, !.at = "marked"]]
  /\ ours' = [ours EXCEPT ![w] = @ \cup {t}]
  /\ UNCHANGED <<dbVars, tip, line, sweep, procVars>>

-----------------------------------------------------------------------------
(* The job. *)

(* It is over: the mutex passes on, if it was asked for (it was this job's turn
   then), and the task is no longer marked as ours.  Nothing is awaited for it. *)
Return(j) ==
  LET w == job[j].worker IN
    /\ job' = [job EXCEPT ![j] = NoJob]
    /\ line' = [line EXCEPT ![w] = IF @ # <<>> /\ Head(@) = j THEN Tail(@) ELSE @]
    /\ ours' = [ours EXCEPT ![w] = @ \ {job[j].task}]

(* The claim, by compare-and-set; the winner asks for the mutex. *)
Claim(j) ==
  LET t == job[j].task  w == job[j].worker IN
    /\ At(j, "marked")
    /\ IF status[t] = "approved"
       THEN /\ SetStatus(t, "integrating") /\ Go(j, "waiting") /\ line' = [line EXCEPT ![w] = Append(@, j)]
            /\ contested' = IF AboutToWrite(t) THEN contested \cup {t} ELSE contested
            /\ UNCHANGED ours
       ELSE Return(j) /\ UNCHANGED <<status, fresh, contested>>
    /\ UNCHANGED <<lease, tip, sweep, proc, failures>>

(* Mistaken: the lease is taken whoever holds it. *)
AnyLease(w) == TRUE

(* The WHERE clause of acquireIntegrationLease. *)
LeaseOpen(w) == lease.by \in {Nothing, w} \/ lease.left = 0

(* First in the mutex: the lease is taken, or refused. *)
TakeLease(j) ==
  LET w == job[j].worker IN
    /\ At(j, "waiting") /\ Head(line[w]) = j
    /\ IF LeaseOpen(w)
       THEN lease' = [by |-> w, left |-> Term] /\ Go(j, "leased")
       ELSE UNCHANGED lease /\ Go(j, "refused")
    /\ UNCHANGED <<status, fresh, tip, line, ours, sweep, procVars>>

(* Refused: the task is handed back for a later tick. *)
HandBack(j) ==
  LET t == job[j].task IN
    /\ At(j, "refused") /\ Return(j)
    /\ IF status[t] = "integrating" THEN SetStatus(t, "approved") ELSE UNCHANGED <<status, fresh>>
    /\ UNCHANGED <<lease, tip, sweep, procVars>>

(* commitsAhead() counts those of HEAD.  In the middle of a rebase HEAD is not
   the branch: it has what has been replayed so far. *)
Ahead(t) == IF tip[t].rebasing = "no" THEN tip[t].ahead ELSE tip[t].rebasing = "half"

(* Connecting and counting the commits; what fails, here and below, ends like
   any other error of the try block, in `failed`. *)
Count(j) ==
  /\ At(j, "leased")
  /\ \/ Ahead(job[j].task) /\ Go(j, "rebasing")
     \/ ~Ahead(job[j].task) /\ Conclude(j, "nothing_to_integrate")
     \/ Conclude(j, "error")
  /\ UNCHANGED <<dbVars, tip, line, ours, sweep, procVars>>

(* The rebase goes through, or stops for whatever reason, or its connection is
   lost, which ends it wherever it is.  It is refused in the middle of another. *)
Rebase(j) ==
  LET t == job[j].task IN
    /\ At(j, "rebasing")
    /\ \/ /\ tip[t].rebasing = "no"
          /\ tip' = [tip EXCEPT ![t].behind = FALSE]
          /\ Go(j, "checking")
       \/ /\ tip[t].rebasing = "no"
          /\ \E r \in Rebasings : tip' = [tip EXCEPT ![t].rebasing = r]
          /\ Go(j, "stopped")
       \/ tip[t].rebasing # "no" /\ UNCHANGED tip /\ Go(j, "stopped")
       \/ /\ \E r \in Rebasings : tip' = [tip EXCEPT ![t] = Cut(t, r)]
          /\ Conclude(j, "error")
    /\ UNCHANGED <<dbVars, line, ours, sweep, procVars>>

(* Mistaken: a rebase that stopped is left for a person to look at. *)
NoAbort(j) ==
  /\ At(j, "stopped") /\ Conclude(j, "conflict")
  /\ UNCHANGED <<dbVars, tip, line, ours, sweep, procVars>>

(* `git rebase --abort`, be it this one or one before, leaves the branch as it
   was: a conflict, unless the connection is lost again. *)
Abort(j) ==
  /\ At(j, "stopped")
  /\ \/ /\ tip' = [tip EXCEPT ![job[j].task].rebasing = "no", ![job[j].task].cut = FALSE]
        /\ Conclude(j, "conflict")
     \/ /\ tip' = [tip EXCEPT ![job[j].task] = Cut(job[j].task, "no")]
        /\ Conclude(j, "error")
  /\ UNCHANGED <<dbVars, line, ours, sweep, procVars>>

(* The policy's check command, in the worktree. *)
Check(j) ==
  /\ At(j, "checking")
  /\ \/ /\ tip' = [tip EXCEPT ![job[j].task].checked = TRUE]
        /\ Go(j, "merging")
     \/ /\ \E result \in {"checks_failed", "error"} : Conclude(j, result)
        /\ UNCHANGED tip
  /\ UNCHANGED <<dbVars, line, ours, sweep, procVars>>

(* Mistaken: an ordinary merge. *)
AnyMerge(t) == TRUE

(* What git merge --ff-only asks for. *)
FastForwards(t) == ~tip[t].behind

(* The fast-forward, refused also when the main tree is dirty or on another
   branch; counting the commits again may fail after it. *)
FastForward(j) ==
  LET t == job[j].task IN
    /\ At(j, "merging")
    /\ \/ /\ FastForwards(t)
          /\ tip' = [u \in Tasks |-> IF u = t THEN [ahead |-> FALSE, behind |-> FALSE, checked |-> FALSE, rebasing |-> "no", cut |-> FALSE]
                                     ELSE [tip[u] EXCEPT !.behind = TRUE]]
          /\ \E result \in {"integrated", "error"} : Conclude(j, result)
       \/ /\ tip' = [tip EXCEPT ![t].checked = FALSE]
          /\ Conclude(j, "error")
    /\ UNCHANGED <<dbVars, line, ours, sweep, procVars>>

NextStatus(result) ==
  CASE result \in {"integrated", "nothing_to_integrate"} -> "done"
    [] result = "conflict"      -> "needs_rebase"
    [] result = "checks_failed" -> "checks_failed"
    [] OTHER                    -> "failed"

(* The verdict, written by id. *)
Record(j) ==
  /\ At(j, "recording")
  /\ job' = [job EXCEPT ![j].at = "recorded", ![j].result = "error"]
  /\ SetStatus(job[j].task, NextStatus(job[j].result))
  /\ UNCHANGED <<lease, tip, line, ours, sweep, procVars>>

(* The event, and for a done task the removal of its worktree, which may fail. *)
Finish(j) ==
  /\ At(j, "recorded") /\ Go(j, "releasing")
  /\ UNCHANGED <<dbVars, tip, line, ours, sweep, procVars>>

(* The catch block: by id too. *)
Fail(j) ==
  /\ At(j, "failing") /\ Go(j, "releasing")
  /\ SetStatus(job[j].task, "failed")
  /\ UNCHANGED <<lease, tip, line, ours, sweep, procVars>>

Release(j) ==
  /\ At(j, "releasing") /\ Return(j)
  /\ lease' = IF lease.by = job[j].worker THEN FreeLease ELSE lease
  /\ UNCHANGED <<status, fresh, tip, sweep, procVars>>

(* A database statement fails: within the try block it leads to the catch
   block, there to the finally block, elsewhere out of the job.  The workspace
   is read after the lease is taken and before the try block, so that the
   lease stays behind. *)
StatementFails(j) ==
  /\ failures < MaxFailures /\ MayFail
  /\ failures' = failures + 1
  /\ \/ job[j].at \in {"recording", "recorded"} /\ Go(j, "failing") /\ UNCHANGED <<line, ours>>
     \/ At(j, "failing") /\ Go(j, "releasing") /\ UNCHANGED <<line, ours>>
     \/ job[j].at \in {"marked", "refused", "leased", "releasing"} /\ Return(j)
  /\ contested' = contested \cup {t \in Tasks : At(j, "recorded") /\ job[j].task = t /\ Claimed(t)}
  /\ UNCHANGED <<dbVars, tip, sweep, proc>>

Step(j) ==
  \/ Claim(j) \/ TakeLease(j) \/ HandBack(j)
  \/ Count(j) \/ Rebase(j) \/ Abort(j) \/ Check(j) \/ FastForward(j)
  \/ Record(j) \/ Finish(j) \/ Fail(j) \/ Release(j)

-----------------------------------------------------------------------------
Next ==
  \/ \E t \in Tasks : Approve(t) \/ Cancel(t) \/ Requeue(t) \/ RunApproved(t)
  \/ BaseMoves
  \/ Tick
  \/ \E w \in Workers : Start(w) \/ Crash(w) \/ RecoverRead(w)
  \/ \E w \in Workers, t \in Tasks : RecoverTask(w, t) \/ Mark(w, t)
  \/ \E j \in Jobs : Step(j) \/ StatementFails(j)

Spec == Init /\ [][Next]_vars

(* Fairness.  The service manager starts a worker whenever it may; a job goes
   on; a worker polls for ever, and its polls do not keep in step with what
   users and other jobs do: a row it could find again and again it finds at
   last.  Time passes, if need be between two integrations. *)
Fairness ==
  /\ \A w \in Workers : WF_vars(Start(w)) /\ SF_vars(RecoverRead(w))
  /\ \A w \in Workers, t \in Tasks : WF_vars(RecoverTask(w, t)) /\ SF_vars(Mark(w, t))
  /\ \A j \in Jobs : WF_vars(Step(j))
  /\ SF_vars(Tick)

FairSpec == Spec /\ Fairness

-----------------------------------------------------------------------------
(* What is claimed of it. *)

(* One integration at a time works in the main tree, over all workers: the
   lease and the mutex together keep them apart, crashes included. *)
MainTreeExclusive ==
  \A j, k \in Jobs : job[j].at \in InTree /\ job[k].at \in InTree => j = k

(* A job that has claimed a task has it to itself, and the task reads
   `integrating`: no user, no other job and no recovery comes between, unless
   somebody was about to write already when it was claimed. *)
ClaimIsHeld ==
  \A j \in Jobs : job[j].at \in Claiming /\ job[j].task \notin contested =>
    /\ status[job[j].task] = "integrating"
    /\ \A k \in Jobs : job[k].at \in Claiming /\ job[k].task = job[j].task => k = j

(* What the base branch is moved to has passed the checks on top of exactly
   what it contained, whoever else committed or merged meanwhile. *)
MergedWasChecked ==
  [][\A j \in Jobs :
       LET t == job[j].task IN
         At(j, "merging") /\ t \notin contested /\ tip'[t] # tip[t] /\ ~tip'[t].ahead
           => tip[t].checked /\ ~tip[t].behind]_vars

(* A task that reads `done` has no commits of its own left: all of its work is
   in the base.  Not so when it was integrated again after a rebase that was cut off. *)
DoneIsMerged ==
  \A t \in Tasks : status[t] = "done" /\ t \notin contested => ~tip[t].ahead \/ tip[t].cut

(* DECISIONS.md:219: "Integration is written to be repeated".  A worktree in the
   middle of a rebase has nothing on its HEAD, and reports nothing to integrate. *)
RepeatsAreSafe == \A t \in Tasks : status[t] = "done" => ~tip[t].ahead

(* processor.ts:438: "a live integration in another worker" is safe from recovery. *)
RecoversOnlyAbandoned ==
  [][\A w \in Workers, t \in Tasks :
       t \in sweep[w] /\ t \notin sweep'[w] /\ status[t] = "integrating" /\ status'[t] = "approved"
         => \A j \in Jobs : job[j].task = t => job[j].at \notin Working]_vars

(* `done` is final, as the table of transitions has it. *)
DoneIsFinal == [][\A t \in Tasks : status[t] = "done" => status'[t] = "done"]_vars

(* An approved task is integrated, refused by git or the checks, or withdrawn
   by its user: it is not deferred or recovered for ever, while there is a worker. *)
ApprovedSettles ==
  \A t \in Tasks :
    status[t] \in {"approved", "integrating"}
      ~> status[t] \notin {"approved", "integrating"} \/ \A w \in Workers : proc[w] = "gone"
=============================================================================
