------------------------------- MODULE Reaper -------------------------------
(***************************************************************************)
(* The worker's reaper (apps/worker/reaper.ts), which removes the worktrees*)
(* and branches nothing references any more, among the tasks it must leave *)
(* alone; and the git commands of both (packages/agents/git.ts).           *)
(*                                                                         *)
(* A pass reads the statuses of the tasks once, then looks at the worktrees*)
(* and the branches, and removes them one command at a time; the tasks move*)
(* on meanwhile.  Passes overlap: a worker starts one every minute and does*)
(* not wait for the last, and each worker has its own.  A task's life is   *)
(* told here as far as git sees it; TaskRuns and Integration tell the rest.*)
(***************************************************************************)
EXTENDS Integers, FiniteSets, TaskStatus

CONSTANTS
  Tasks,      \* the tasks of one workspace
  Passes,     \* passes of reapers under way at a time
  MaxRuns,    \* bound: runs claimed
  MaxCommits, \* bound: commits of a task
  MaxMishaps   \* bound: passes cut short, removals that fail, worktrees in use

ASSUME ReaperAssumption == MaxRuns \in Nat /\ MaxCommits \in Nat /\ MaxMishaps \in Nat

VARIABLES
  status, \* of each task; "none" before it is created and once it is deleted
  made,   \* commits made for each task so far
  wt,     \* each task's worktree: none, a tree, a directory git does not know
  branch, \* each task's branch: the commits it has, or Absent
  kept,   \* commits of each task in its archive ref, and in the base branch
  pass,   \* each pass of a reaper
  late,   \* history: tasks created while a pass was under way
  runs, mishaps

reaperVars == <<status, made, wt, branch, kept, pass, late, runs, mishaps>>
tasksVars == <<status, late, runs>>

Absent == {0}
Commits(t) == 1..made[t]
HasBranch(t) == branch[t] # Absent

NoPass == [at |-> "idle", known |-> {}, doneThen |-> {}, trees |-> {}, used |-> {}, refs |-> {},
           remove |-> {}, force |-> {}, merged |-> {}, archived |-> {}]

ReaperTypeOK ==
  /\ status \in [Tasks -> {"none", "queued", "running", "needs_review", "approved", "integrating",
                           "done", "failed"}]
  /\ made \in [Tasks -> 0..MaxCommits]
  /\ wt \in [Tasks -> {"none", "tree", "dir"}]
  /\ \A t \in Tasks :
       /\ branch[t] = Absent \/ branch[t] \subseteq Commits(t)
       /\ kept[t].archive \subseteq Commits(t) /\ kept[t].base \subseteq Commits(t)
       /\ wt[t] = "tree" => HasBranch(t)
  /\ \A p \in Passes :
       /\ pass[p].at \in {"idle", "read", "looked", "listed", "removing"}
       /\ pass[p].remove \subseteq pass[p].trees /\ pass[p].archived \subseteq pass[p].force
       /\ pass[p].force \cap pass[p].known = {} /\ pass[p].merged \subseteq pass[p].doneThen
  /\ late \subseteq Tasks /\ runs \in 0..MaxRuns /\ mishaps \in 0..MaxMishaps

ReaperInit ==
  /\ status = [t \in Tasks |-> "none"] /\ made = [t \in Tasks |-> 0]
  /\ wt = [t \in Tasks |-> "none"] /\ branch = [t \in Tasks |-> Absent]
  /\ kept = [t \in Tasks |-> [archive |-> {}, base |-> {}]]
  /\ pass = [p \in Passes |-> NoPass]
  /\ late = {} /\ runs = 0 /\ mishaps = 0

-----------------------------------------------------------------------------
(* The tasks.                                                                *)

Moves(t, from, to) ==
  /\ status[t] \in from /\ status' = [status EXCEPT ![t] = to]

(* A task's id is never used again. *)
CreateTask(t) ==
  /\ Moves(t, {"none"}, "queued") /\ made[t] = 0 /\ wt[t] = "none" /\ ~HasBranch(t) /\ kept[t].archive = {}
  /\ late' = IF \E p \in Passes : pass[p].at # "idle" THEN late \cup {t} ELSE late
  /\ UNCHANGED <<made, wt, branch, kept, pass, runs, mishaps>>

(* deleteTask(): the record only. *)
Delete(t) ==
  /\ Moves(t, {"queued", "needs_review", "approved", "done", "failed"}, "none")
  /\ UNCHANGED <<made, wt, branch, kept, pass, late, runs, mishaps>>

Claim(t) ==
  /\ Moves(t, {"queued"}, "running") /\ runs < MaxRuns /\ runs' = runs + 1
  /\ UNCHANGED <<made, wt, branch, kept, pass, late, mishaps>>

(* createTaskWorktree(): the worktree is reused, or made of the branch if it is
   there and of the base if not. *)
CreateTaskWorktree(t) ==
  /\ status[t] = "running" /\ wt[t] = "none"
  /\ wt' = [wt EXCEPT ![t] = "tree"]
  /\ branch' = [branch EXCEPT ![t] = IF HasBranch(t) THEN @ ELSE kept[t].base]
  /\ UNCHANGED <<status, made, kept, pass, late, runs, mishaps>>

(* The agent commits, or the worker what the agent left. *)
Commit(t) ==
  /\ status[t] = "running" /\ wt[t] = "tree" /\ made[t] < MaxCommits
  /\ made' = [made EXCEPT ![t] = @ + 1]
  /\ branch' = [branch EXCEPT ![t] = @ \cup {made[t] + 1}]
  /\ UNCHANGED <<status, wt, kept, pass, late, runs, mishaps>>

(* A run without its worktree fails. *)
RunEnds(t) ==
  /\ \/ Moves(t, {"running"}, "failed")
     \/ wt[t] = "tree" /\ Moves(t, {"running"}, "needs_review")
  /\ UNCHANGED <<made, wt, branch, kept, pass, late, runs, mishaps>>

RunAgain(t) ==
  /\ Moves(t, {"failed", "needs_review"}, "queued")
  /\ UNCHANGED <<made, wt, branch, kept, pass, late, runs, mishaps>>

Approve(t) ==
  /\ Moves(t, {"needs_review"}, "approved")
  /\ UNCHANGED <<made, wt, branch, kept, pass, late, runs, mishaps>>

IntegrationBegins(t) ==
  /\ Moves(t, {"approved"}, "integrating")
  /\ UNCHANGED <<made, wt, branch, kept, pass, late, runs, mishaps>>

IntegrationFails(t) ==
  /\ Moves(t, {"integrating"}, "failed")
  /\ UNCHANGED <<made, wt, branch, kept, pass, late, runs, mishaps>>

(* Fast-forwarded and recorded; the worktree's removal is best effort. *)
Integrated(t) ==
  /\ wt[t] = "tree" /\ Moves(t, {"integrating"}, "done")
  /\ kept' = [kept EXCEPT ![t].base = @ \cup branch[t]]
  /\ \E left \in {"none", "dir", "tree"} : wt' = [wt EXCEPT ![t] = left]
  /\ UNCHANGED <<made, branch, pass, late, runs, mishaps>>

-----------------------------------------------------------------------------
(* The reaper.                                                               *)

Active == {"running", "integrating", "approved"}
Existing == {t \in Tasks : status[t] # "none"}
DoneNow == {t \in Tasks : status[t] = "done"}

(* reapWorkspace(): the statuses; a busy workspace is left alone. *)
ReadStatuses(p) ==
  /\ pass[p].at = "idle" /\ \A t \in Tasks : status[t] \notin Active
  /\ pass' = [pass EXCEPT ![p] = [NoPass EXCEPT !.at = "read", !.known = Existing, !.doneThen = DoneNow]]
  /\ UNCHANGED <<tasksVars, made, wt, branch, kept, mishaps>>

(* Mutant: only what git lists is looked at. *)
LookAtTracked(p) ==
  /\ pass[p].at = "read"
  /\ pass' = [pass EXCEPT ![p].at = "looked", ![p].trees = {t \in Tasks : wt[t] = "tree"}]
  /\ UNCHANGED <<tasksVars, made, wt, branch, kept, mishaps>>

(* gatherReapInputs(): worktrees and directories, and which of them the runner
   sees a process in: a shell, never an agent, whose uid hides it. *)
LookAtWorktrees(p) ==
  /\ pass[p].at = "read"
  /\ LET trees == {t \in Tasks : wt[t] # "none"}
     IN \E used \in SUBSET trees :
          /\ mishaps + Cardinality(used) <= MaxMishaps /\ mishaps' = mishaps + Cardinality(used)
          /\ pass' = [pass EXCEPT ![p].at = "looked", ![p].trees = trees, ![p].used = used]
  /\ UNCHANGED <<tasksVars, made, wt, branch, kept>>

ListBranches(p) ==
  /\ pass[p].at = "looked"
  /\ pass' = [pass EXCEPT ![p].at = "listed", ![p].refs = {t \in Tasks : HasBranch(t)}]
  /\ UNCHANGED <<tasksVars, made, wt, branch, kept, mishaps>>

Merged(t) == HasBranch(t) /\ branch[t] \subseteq kept[t].base

(* Mutant: only a task that is active is worth keeping. *)
PlanReapInactive(q) ==
  [q EXCEPT !.at = "removing",
            !.remove = q.trees \ q.used,
            !.force  = q.refs \ (q.known \cup q.used),
            !.merged = {t \in q.refs \cap q.doneThen : t \notin q.used /\ Merged(t)}]

(* planReap(): a task not among those read was deleted. *)
PlanReap(q) ==
  [q EXCEPT !.at = "removing",
            !.remove = {t \in q.trees \ q.used : t \notin q.known \/ t \in q.doneThen},
            !.force  = q.refs \ (q.known \cup q.used),
            !.merged = {t \in q.refs \cap q.doneThen : t \notin q.used /\ Merged(t)}]

(* isMergedInto() each branch listed: one that is gone ends the pass. *)
Plan(p) ==
  /\ pass[p].at = "listed"
  /\ pass' = [pass EXCEPT ![p] = IF \A t \in pass[p].refs : HasBranch(t) THEN PlanReap(@) ELSE NoPass]
  /\ UNCHANGED <<tasksVars, made, wt, branch, kept, mishaps>>

(* removeTaskWorktree(): by git, then the directory. *)
RemoveWorktree(p, t) ==
  /\ pass[p].at = "removing" /\ t \in pass[p].remove
  /\ pass' = [pass EXCEPT ![p].remove = @ \ {t}]
  /\ \/ wt' = [wt EXCEPT ![t] = "none"] /\ UNCHANGED mishaps
     \/ /\ wt[t] # "none" /\ mishaps < MaxMishaps /\ mishaps' = mishaps + 1
        /\ wt' = [wt EXCEPT ![t] = "dir"]
  /\ UNCHANGED <<tasksVars, made, branch, kept>>

(* `git branch` refuses one that is checked out, and with -d one that is not
   merged. *)
DeleteBranch(t, force) ==
  IF HasBranch(t) /\ wt[t] # "tree" /\ (force \/ Merged(t))
  THEN branch' = [branch EXCEPT ![t] = Absent]
  ELSE UNCHANGED branch

Removing(p) == pass[p].at = "removing" /\ pass[p].remove = {}

(* Mutant: the branch is deleted and not archived. *)
NoArchive(p, t) ==
  /\ Removing(p) /\ t \in pass[p].force \ pass[p].archived /\ pass[p].archived = {}
  /\ pass' = [pass EXCEPT ![p].archived = {t}]
  /\ UNCHANGED <<tasksVars, made, wt, branch, kept, mishaps>>

(* archiveTaskBranch(): the ref is pointed at the branch, if it is there. *)
Archive(p, t) ==
  /\ Removing(p) /\ t \in pass[p].force \ pass[p].archived /\ pass[p].archived = {}
  /\ IF HasBranch(t)
     THEN /\ pass' = [pass EXCEPT ![p].archived = {t}]
          /\ kept' = [kept EXCEPT ![t].archive = branch[t]]
     ELSE /\ pass' = [pass EXCEPT ![p].force = @ \ {t}]
          /\ UNCHANGED kept
  /\ UNCHANGED <<tasksVars, made, wt, branch, mishaps>>

DeleteArchived(p, t) ==
  /\ Removing(p) /\ t \in pass[p].archived
  /\ DeleteBranch(t, TRUE)
  /\ pass' = [pass EXCEPT ![p].archived = {}, ![p].force = @ \ {t}]
  /\ UNCHANGED <<tasksVars, made, wt, kept, mishaps>>

DeleteMerged(p, t) ==
  /\ Removing(p) /\ pass[p].archived = {} /\ t \in pass[p].merged
  /\ DeleteBranch(t, FALSE)
  /\ pass' = [pass EXCEPT ![p].merged = @ \ {t}]
  /\ UNCHANGED <<tasksVars, made, wt, kept, mishaps>>

PassEnds(p) ==
  /\ Removing(p) /\ pass[p].force = {} /\ pass[p].merged = {}
  /\ pass' = [pass EXCEPT ![p] = NoPass]
  /\ UNCHANGED <<tasksVars, made, wt, branch, kept, mishaps>>

(* The connection breaks or the worker goes: the rest of the pass is not done. *)
PassCut(p) ==
  /\ pass[p].at # "idle" /\ mishaps < MaxMishaps /\ mishaps' = mishaps + 1
  /\ pass' = [pass EXCEPT ![p] = NoPass]
  /\ UNCHANGED <<tasksVars, made, wt, branch, kept>>

-----------------------------------------------------------------------------

Step(p) ==
  \/ ReadStatuses(p) \/ LookAtWorktrees(p) \/ ListBranches(p) \/ Plan(p) \/ PassEnds(p)
  \/ \E t \in Tasks : RemoveWorktree(p, t) \/ Archive(p, t) \/ DeleteArchived(p, t) \/ DeleteMerged(p, t)

ReaperNext ==
  \/ \E t \in Tasks :
       \/ CreateTask(t) \/ Delete(t) \/ Claim(t) \/ CreateTaskWorktree(t) \/ Commit(t) \/ RunEnds(t)
       \/ RunAgain(t) \/ Approve(t) \/ IntegrationBegins(t) \/ IntegrationFails(t) \/ Integrated(t)
  \/ \E p \in Passes : Step(p) \/ PassCut(p)

ReaperSpec == ReaperInit /\ [][ReaperNext]_reaperVars

(* The reaper is called every minute, and its commands end.  Runs end
   (max_minutes), integrations too, and what is approved is integrated. *)
ReaperFairness ==
  /\ \A p \in Passes : WF_reaperVars(Step(p))
  /\ \A t \in Tasks : /\ WF_reaperVars(RunEnds(t)) /\ WF_reaperVars(IntegrationBegins(t))
                     /\ WF_reaperVars(Integrated(t) \/ IntegrationFails(t))

ReaperFairSpec == ReaperSpec /\ ReaperFairness

-----------------------------------------------------------------------------
(* Properties.                                                               *)

(* No commit of a task is lost to the reaper: each is reachable from the task's
   branch, from the base, or from the archive of a task that was deleted.  (Of
   the tasks whose pass could not know them, see RunsAreLeftAlone.) *)
WorkKept ==
  \A t \in Tasks \ late : Commits(t) \subseteq branch[t] \cup kept[t].base \cup kept[t].archive

(* A worktree that a task came back to is there as long as its run: a task the
   pass knew, and that was requeued and claimed since, keeps its own. *)
RunsKeepTheirTrees ==
  [][\A t \in Tasks \ late : status[t] = "running" /\ wt[t] = "tree" => wt'[t] = "tree"]_reaperVars

(* reaper.ts:28-31 says of the workspaces with an active task: "skipped whole so
   the reaper never races a live run's or integration's git operations".  A task
   that was created and claimed since the statuses were read is taken for a
   deleted one. *)
RunsAreLeftAlone ==
  [][\A t \in Tasks : status[t] = "running" /\ wt[t] = "tree" => wt'[t] = "tree"]_reaperVars

(* Of a deleted task the worktree and the branch go in the end, whichever
   commands failed and however the passes overlap. *)
DebrisReaped ==
  \A t \in Tasks : status[t] = "none" ~> wt[t] = "none" /\ ~HasBranch(t)
=============================================================================
