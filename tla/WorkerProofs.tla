---------------------------- MODULE WorkerProofs ----------------------------
(***************************************************************************)
(* Theorems about what the worker does beside the tasks' states, for all   *)
(* values of the constants.  About Reaper: of the tasks a pass could know, *)
(* no commit is lost, and no run loses the worktree it works in.  About    *)
(* AgentRun: its states have their types, a run that is told of an exit    *)
(* has had all of the process's output, and a run with everything that may *)
(* fail around it is what AgentStream promises: one process, and a stream  *)
(* that ends once with an outcome that stays.                              *)
(***************************************************************************)
EXTENDS Reaper, AgentRun, FiniteSetTheorems, TLAPS

-----------------------------------------------------------------------------
(* The inductive invariant. *)

PassStates == [at : {"idle", "read", "looked", "listed", "removing"},
               known : SUBSET Tasks, doneThen : SUBSET Tasks, trees : SUBSET Tasks, used : SUBSET Tasks,
               refs : SUBSET Tasks, remove : SUBSET Tasks, force : SUBSET Tasks, merged : SUBSET Tasks,
               archived : SUBSET Tasks]

GitStatuses == {"none", "queued", "running", "needs_review", "approved", "integrating", "done", "failed"}

Typed ==
  /\ status \in [Tasks -> GitStatuses] /\ made \in [Tasks -> Nat] /\ wt \in [Tasks -> {"none", "tree", "dir"}]
  /\ branch \in [Tasks -> SUBSET Nat]
  /\ kept \in [Tasks -> [archive : SUBSET Nat, base : SUBSET Nat]]
  /\ pass \in [Passes -> PassStates] /\ late \in SUBSET Tasks

(* What a pass has read stays true of the tasks that were not created since:
   one it did not find is gone, one it found done is done or gone. *)
KnowsEnough(q) ==
  \A t \in Tasks \ late :
    /\ t \notin q.known => status[t] = "none"
    /\ t \in q.doneThen => status[t] \in {"done", "none"}

(* What it removes, it found done or did not find. *)
PlansWell(q) ==
  /\ q.archived \subseteq q.force /\ q.force \cap q.known = {} /\ q.merged \subseteq q.doneThen
  /\ \A t \in q.remove : t \notin q.known \/ t \in q.doneThen
  /\ q.at # "removing" => q.archived = {}

PassOK(q) == q.at # "idle" => KnowsEnough(q) /\ PlansWell(q)

(* Commits are on the branch as long as there is one, and otherwise where the
   branch was archived; a task that is still there has had no branch taken away
   but a merged one. *)
Reachable(t) ==
  /\ HasBranch(t) => Commits(t) \subseteq branch[t] \cup kept[t].base
  /\ ~HasBranch(t) => Commits(t) \subseteq kept[t].archive \cup kept[t].base
  /\ ~HasBranch(t) /\ status[t] # "none" => Commits(t) \subseteq kept[t].base

(* A branch that was archived may be deleted. *)
ArchivedOK(q) ==
  q.at # "idle" => \A t \in q.archived \ late : Commits(t) \subseteq kept[t].archive \cup kept[t].base

RInv ==
  /\ Typed
  /\ \A p \in Passes : PassOK(pass[p]) /\ ArchivedOK(pass[p])
  /\ \A t \in Tasks \ late : Reachable(t)

LEMMA RInitially == ReaperInit => RInv
<1> SUFFICES ASSUME ReaperInit PROVE RInv
  OBVIOUS
<1>1. \A p \in Passes : pass[p] = NoPass /\ NoPass \in PassStates /\ NoPass.at = "idle"
  BY DEF ReaperInit, NoPass, PassStates
<1>2. Typed
  BY <1>1 DEF ReaperInit, Typed, Absent, GitStatuses
<1>3. \A t \in Tasks : Commits(t) = {}
  BY DEF ReaperInit, Commits
<1> QED BY <1>1, <1>2, <1>3 DEF RInv, PassOK, ArchivedOK, Reachable

LEMMA RInvKeeps == RInv => WorkKept
BY DEF RInv, Typed, WorkKept, Reachable, HasBranch, Absent, Commits

-----------------------------------------------------------------------------
(* The steps of the tasks. *)

(* A step that only moves a task that is there, to a status the passes know. *)
LEMMA MovesOnly ==
  ASSUME RInv, NEW t \in Tasks, NEW s \in GitStatuses, status[t] \notin {"none", "done"} \/ s = "none",
         status' = [status EXCEPT ![t] = s], UNCHANGED <<made, wt, branch, kept, pass, late>>
  PROVE  RInv'
<1>1. Typed'
  BY DEF RInv, Typed
<1>2. \A p \in Passes : PassOK(pass[p])' /\ ArchivedOK(pass[p])'
  BY DEF RInv, Typed, PassOK, ArchivedOK, KnowsEnough, PlansWell, Commits
<1>3. \A u \in Tasks \ late' : Reachable(u)'
  BY DEF RInv, Typed, Reachable, HasBranch, Commits
<1> QED BY <1>1, <1>2, <1>3 DEF RInv

LEMMA TasksStep ==
  ASSUME RInv, NEW t \in Tasks,
         \/ CreateTask(t) \/ Delete(t) \/ Claim(t) \/ CreateTaskWorktree(t) \/ Commit(t) \/ RunEnds(t)
         \/ RunAgain(t) \/ Approve(t) \/ IntegrationBegins(t) \/ IntegrationFails(t) \/ Integrated(t)
  PROVE  RInv'
<1>1. CASE CreateTask(t)
  <2>0. late' \in SUBSET Tasks /\ late \subseteq late' /\ (\A p \in Passes : pass[p].at = "idle" \/ t \in late')
    BY <1>1 DEF CreateTask, RInv, Typed
  <2>1. Typed' /\ late \subseteq late'
    BY <1>1, <2>0 DEF CreateTask, Moves, RInv, Typed, GitStatuses
  <2>2. \A p \in Passes : PassOK(pass[p])' /\ ArchivedOK(pass[p])'
    BY <1>1, <2>0 DEF CreateTask, Moves, RInv, Typed, PassOK, ArchivedOK, KnowsEnough, PlansWell, Commits
  <2>3. \A u \in Tasks \ late' : Reachable(u)'
    <3> TAKE u \in Tasks \ late'
    <3>1. CASE u = t
      BY <1>1, <3>1 DEF CreateTask, Reachable, Commits, HasBranch
    <3>2. CASE u # t
      BY <1>1, <2>1, <3>2 DEF CreateTask, Moves, RInv, Typed, Reachable, Commits, HasBranch
    <3> QED BY <3>1, <3>2
  <2> QED BY <2>1, <2>2, <2>3 DEF RInv
<1>2. CASE Delete(t) \/ Claim(t) \/ RunEnds(t) \/ RunAgain(t) \/ Approve(t) \/ IntegrationBegins(t) \/ IntegrationFails(t)
  <2>1. \E s \in GitStatuses : /\ (status[t] \notin {"none", "done"} \/ s = "none")
                                /\ status' = [status EXCEPT ![t] = s]
    BY <1>2 DEF Delete, Claim, RunEnds, RunAgain, Approve, IntegrationBegins, IntegrationFails, Moves, GitStatuses
  <2>2. UNCHANGED <<made, wt, branch, kept, pass, late>>
    BY <1>2 DEF Delete, Claim, RunEnds, RunAgain, Approve, IntegrationBegins, IntegrationFails
  <2> QED BY <2>1, <2>2, MovesOnly
<1>3. CASE CreateTaskWorktree(t)
  <2>1. Typed'
    BY <1>3 DEF CreateTaskWorktree, RInv, Typed
  <2>2. \A p \in Passes : PassOK(pass[p])' /\ ArchivedOK(pass[p])'
    BY <1>3 DEF CreateTaskWorktree, RInv, Typed, PassOK, ArchivedOK, KnowsEnough, PlansWell, Commits
  <2>3. \A u \in Tasks \ late' : Reachable(u)'
    BY <1>3 DEF CreateTaskWorktree, RInv, Typed, Reachable, Commits, HasBranch
  <2> QED BY <2>1, <2>2, <2>3 DEF RInv
<1>4. CASE Commit(t)
  <2>1. Typed'
    BY <1>4 DEF Commit, RInv, Typed
  <2>2. Commits(t)' = Commits(t) \cup {made[t] + 1} /\ \A u \in Tasks : u # t => Commits(u)' = Commits(u)
    <3>1. made'[t] = made[t] + 1 /\ made[t] \in Nat /\ \A u \in Tasks : u # t => made'[u] = made[u]
      BY <1>4 DEF Commit, RInv, Typed
    <3> QED BY <3>1 DEF Commits
  <2>3. \A p \in Passes : PassOK(pass[p])'
    BY <1>4 DEF Commit, RInv, Typed, PassOK, KnowsEnough, PlansWell
  <2>4. \A p \in Passes : ArchivedOK(pass[p])'
    <3> SUFFICES ASSUME NEW p \in Passes, pass[p].at # "idle", NEW u \in pass[p].archived \ late
                 PROVE  Commits(u)' \subseteq kept[u].archive \cup kept[u].base
      BY <1>4 DEF Commit, ArchivedOK
    <3>1. u \in Tasks /\ Commits(u) \subseteq kept[u].archive \cup kept[u].base
      BY DEF RInv, Typed, PassStates, ArchivedOK
    <3>2. status[u] = "none"
      BY <3>1 DEF RInv, PassOK, KnowsEnough, PlansWell
    <3> QED BY <1>4, <2>2, <3>1, <3>2 DEF Commit
  <2>5. \A u \in Tasks \ late' : Reachable(u)'
    <3> TAKE u \in Tasks \ late'
    <3>1. CASE u = t
      <4>1. Commits(t) \subseteq branch[t] \cup kept[t].base
        BY <1>4, <3>1 DEF Commit, RInv, Reachable
      <4>2. branch'[t] = branch[t] \cup {made[t] + 1} /\ kept' = kept
        BY <1>4 DEF Commit, RInv, Typed
      <4>3. made[t] + 1 \in branch'[t] /\ made[t] + 1 # 0
        BY <4>2 DEF RInv, Typed
      <4> QED BY <2>2, <3>1, <4>1, <4>2, <4>3 DEF Reachable, HasBranch, Absent
    <3>2. CASE u # t
      BY <1>4, <2>2, <3>2 DEF Commit, RInv, Typed, Reachable, HasBranch
    <3> QED BY <3>1, <3>2
  <2> QED BY <2>1, <2>3, <2>4, <2>5 DEF RInv
<1>5. CASE Integrated(t)
  <2> DEFINE new == [kept[t] EXCEPT !.base = @ \cup branch[t]]
  <2>1. /\ new \in [archive : SUBSET Nat, base : SUBSET Nat]
        /\ new.archive = kept[t].archive /\ kept[t].base \subseteq new.base
    BY DEF RInv, Typed
  <2>2. kept' = [kept EXCEPT ![t] = new] /\ \E left \in {"none", "dir", "tree"} : wt' = [wt EXCEPT ![t] = left]
    BY <1>5 DEF Integrated
  <2> HIDE DEF new
  <2>3. Typed'
    BY <1>5, <2>1, <2>2 DEF Integrated, Moves, RInv, Typed, GitStatuses
  <2>4. \A u \in Tasks : kept'[u].archive = kept[u].archive /\ kept[u].base \subseteq kept'[u].base
    BY <2>1, <2>2 DEF RInv, Typed
  <2>5. \A p \in Passes : PassOK(pass[p])' /\ ArchivedOK(pass[p])'
    BY <1>5, <2>4 DEF Integrated, Moves, RInv, Typed, PassOK, ArchivedOK, KnowsEnough, PlansWell, Commits
  <2>6. \A u \in Tasks \ late' : Reachable(u)'
    BY <1>5, <2>4 DEF Integrated, Moves, RInv, Typed, Reachable, Commits, HasBranch
  <2> QED BY <2>3, <2>5, <2>6 DEF RInv
<1> QED BY <1>1, <1>2, <1>3, <1>4, <1>5

-----------------------------------------------------------------------------
(* The steps of a pass. *)

(* A step that goes on with the pass, and at most changes worktrees. *)
LEMMA PassAlone ==
  ASSUME RInv, NEW p \in Passes, NEW q \in PassStates, pass' = [pass EXCEPT ![p] = q], PassOK(q), ArchivedOK(q),
         wt' \in [Tasks -> {"none", "tree", "dir"}], UNCHANGED <<tasksVars, made, branch, kept>>
  PROVE  RInv'
<1>1. Typed'
  BY DEF RInv, Typed, tasksVars
<1>2. \A r \in Passes : PassOK(pass[r])' /\ ArchivedOK(pass[r])'
  BY DEF RInv, Typed, tasksVars, PassOK, ArchivedOK, KnowsEnough, PlansWell, Commits
<1>3. \A u \in Tasks \ late' : Reachable(u)'
  BY DEF RInv, tasksVars, Reachable, Commits, HasBranch
<1> QED BY <1>1, <1>2, <1>3 DEF RInv

(* A branch is deleted whose commits are elsewhere. *)
LEMMA BranchGoes ==
  ASSUME RInv, NEW p \in Passes, NEW q \in PassStates, pass' = [pass EXCEPT ![p] = q], PassOK(q), ArchivedOK(q),
         NEW t \in Tasks, branch' = [branch EXCEPT ![t] = Absent], UNCHANGED <<tasksVars, made, wt, kept>>,
         t \notin late => /\ Commits(t) \subseteq kept[t].archive \cup kept[t].base
                          /\ status[t] # "none" => Commits(t) \subseteq kept[t].base
  PROVE  RInv'
<1>1. Typed'
  BY DEF RInv, Typed, tasksVars, Absent
<1>2. \A r \in Passes : PassOK(pass[r])' /\ ArchivedOK(pass[r])'
  BY DEF RInv, Typed, tasksVars, PassOK, ArchivedOK, KnowsEnough, PlansWell, Commits
<1>3. \A u \in Tasks \ late' : Reachable(u)'
  BY DEF RInv, Typed, tasksVars, Reachable, Commits, HasBranch
<1> QED BY <1>1, <1>2, <1>3 DEF RInv

LEMMA PassStep ==
  ASSUME RInv, NEW p \in Passes, Step(p) \/ PassCut(p)
  PROVE  RInv'
<1>1. NoPass \in PassStates /\ PassOK(NoPass) /\ ArchivedOK(NoPass)
  BY DEF NoPass, PassStates, PassOK, ArchivedOK
<1>2. pass[p] \in PassStates /\ PassOK(pass[p]) /\ ArchivedOK(pass[p])
  BY DEF RInv, Typed
<1>3. wt \in [Tasks -> {"none", "tree", "dir"}]
  BY DEF RInv, Typed
<1>4. CASE ReadStatuses(p)
  <2> DEFINE q == [NoPass EXCEPT !.at = "read", !.known = Existing, !.doneThen = DoneNow]
  <2>1. /\ q \in PassStates /\ q.known = Existing /\ q.doneThen = DoneNow
        /\ q.archived = {} /\ q.force = {} /\ q.merged = {} /\ q.remove = {}
    BY DEF NoPass, PassStates, Existing, DoneNow
  <2>2. pass' = [pass EXCEPT ![p] = q] /\ UNCHANGED <<tasksVars, made, wt, branch, kept>>
    BY <1>4 DEF ReadStatuses
  <2> HIDE DEF q
  <2>3. PassOK(q) /\ ArchivedOK(q)
    BY <2>1 DEF PassOK, ArchivedOK, KnowsEnough, PlansWell, Existing, DoneNow
  <2> QED BY <1>3, <2>1, <2>2, <2>3, PassAlone
<1>5. ASSUME NEW q \in PassStates, pass[p].at # "idle", pass' = [pass EXCEPT ![p] = q],
             UNCHANGED <<tasksVars, made, branch, kept>>, wt' \in [Tasks -> {"none", "tree", "dir"}],
             q.known = pass[p].known, q.doneThen = pass[p].doneThen, q.archived \subseteq pass[p].archived, PlansWell(q)
      PROVE  RInv'
  BY <1>2, <1>5, PassAlone DEF PassOK, ArchivedOK, KnowsEnough
<1>6. CASE LookAtWorktrees(p)
  <2>1. PICK used \in SUBSET {t \in Tasks : wt[t] # "none"} :
          pass' = [pass EXCEPT ![p].at = "looked", ![p].trees = {t \in Tasks : wt[t] # "none"}, ![p].used = used]
    BY <1>6 DEF LookAtWorktrees
  <2> DEFINE q == [pass[p] EXCEPT !.at = "looked", !.trees = {t \in Tasks : wt[t] # "none"}, !.used = used]
  <2>2. /\ q \in PassStates /\ q.known = pass[p].known /\ q.doneThen = pass[p].doneThen
        /\ q.archived = pass[p].archived /\ q.force = pass[p].force /\ q.merged = pass[p].merged
        /\ q.remove = pass[p].remove
    BY <1>2 DEF PassStates
  <2>3. pass' = [pass EXCEPT ![p] = q]
    BY <2>1 DEF RInv, Typed
  <2> HIDE DEF q
  <2>4. PlansWell(q) /\ pass[p].at # "idle" /\ UNCHANGED <<tasksVars, made, wt, branch, kept>>
    BY <1>2, <1>6, <2>2 DEF PassOK, PlansWell, LookAtWorktrees
  <2> QED BY <1>3, <1>5, <2>2, <2>3, <2>4
<1>7. CASE ListBranches(p)
  <2> DEFINE q == [pass[p] EXCEPT !.at = "listed", !.refs = {t \in Tasks : HasBranch(t)}]
  <2>1. /\ q \in PassStates /\ q.known = pass[p].known /\ q.doneThen = pass[p].doneThen
        /\ q.archived = pass[p].archived /\ q.force = pass[p].force /\ q.merged = pass[p].merged
        /\ q.remove = pass[p].remove
    BY <1>2 DEF PassStates
  <2>2. pass' = [pass EXCEPT ![p] = q]
    BY <1>7 DEF ListBranches, RInv, Typed
  <2> HIDE DEF q
  <2>3. PlansWell(q) /\ pass[p].at # "idle" /\ UNCHANGED <<tasksVars, made, wt, branch, kept>>
    BY <1>2, <1>7, <2>1 DEF PassOK, PlansWell, ListBranches
  <2> QED BY <1>3, <1>5, <2>1, <2>2, <2>3
<1>8. ASSUME pass' = [pass EXCEPT ![p] = NoPass], UNCHANGED <<tasksVars, made, wt, branch, kept>>
      PROVE  RInv'
  BY <1>1, <1>3, <1>8, PassAlone
<1>9. CASE Plan(p)
  <2> DEFINE q == PlanReap(pass[p])
  <2>1. /\ q \in PassStates /\ q.known = pass[p].known /\ q.doneThen = pass[p].doneThen
        /\ q.archived = pass[p].archived /\ q.force = pass[p].refs \ (pass[p].known \cup pass[p].used)
        /\ q.merged \subseteq pass[p].doneThen
        /\ \A t \in q.remove : t \notin pass[p].known \/ t \in pass[p].doneThen
    BY <1>2 DEF PassStates, PlanReap
  <2>2. pass' = [pass EXCEPT ![p] = q] \/ pass' = [pass EXCEPT ![p] = NoPass]
    BY <1>9 DEF Plan
  <2> HIDE DEF q
  <2>3. pass[p].archived = {}
    BY <1>2, <1>9 DEF Plan, PassOK, PlansWell
  <2>4. PlansWell(q) /\ pass[p].at # "idle" /\ UNCHANGED <<tasksVars, made, wt, branch, kept>>
    BY <1>2, <1>9, <2>1, <2>3 DEF PassOK, PlansWell, Plan
  <2> QED BY <1>3, <1>5, <1>8, <2>1, <2>2, <2>4
<1>10. CASE PassEnds(p) \/ PassCut(p)
  BY <1>8, <1>10 DEF PassEnds, PassCut
<1>11. ASSUME NEW t \in Tasks, RemoveWorktree(p, t)
       PROVE  RInv'
  <2> DEFINE q == [pass[p] EXCEPT !.remove = @ \ {t}]
  <2>1. /\ q \in PassStates /\ q.known = pass[p].known /\ q.doneThen = pass[p].doneThen
        /\ q.archived = pass[p].archived /\ q.force = pass[p].force /\ q.merged = pass[p].merged
        /\ q.remove \subseteq pass[p].remove /\ q.at = pass[p].at
    BY <1>2 DEF PassStates
  <2>2. pass' = [pass EXCEPT ![p] = q]
    BY <1>11 DEF RemoveWorktree, RInv, Typed
  <2> HIDE DEF q
  <2>3. PlansWell(q) /\ pass[p].at # "idle" /\ UNCHANGED <<tasksVars, made, branch, kept>>
    BY <1>2, <1>11, <2>1 DEF PassOK, PlansWell, RemoveWorktree
  <2>4. wt' \in [Tasks -> {"none", "tree", "dir"}]
    BY <1>3, <1>11 DEF RemoveWorktree
  <2> QED BY <1>5, <2>1, <2>2, <2>3, <2>4
<1>12. ASSUME NEW t \in Tasks, Archive(p, t)
       PROVE  RInv'
  <2>1. t \in pass[p].force /\ pass[p].at = "removing" /\ pass[p].archived = {} /\ (t \notin late => status[t] = "none")
    BY <1>2, <1>12 DEF Archive, Removing, PassOK, PlansWell, KnowsEnough
  <2>2. CASE ~HasBranch(t)
    <3> DEFINE q == [pass[p] EXCEPT !.force = @ \ {t}]
    <3>1. /\ q \in PassStates /\ q.known = pass[p].known /\ q.doneThen = pass[p].doneThen
          /\ q.archived = {} /\ q.force \subseteq pass[p].force /\ q.merged = pass[p].merged
          /\ q.remove = pass[p].remove /\ q.at = "removing"
      BY <1>2, <2>1 DEF PassStates
    <3>2. pass' = [pass EXCEPT ![p] = q] /\ UNCHANGED <<tasksVars, made, wt, branch, kept>>
      BY <1>12, <2>2 DEF Archive, RInv, Typed
    <3> HIDE DEF q
    <3>3. PlansWell(q)
      BY <1>2, <2>1, <3>1 DEF PassOK, PlansWell
    <3> QED BY <1>3, <1>5, <2>1, <3>1, <3>2, <3>3
  <2>3. CASE HasBranch(t)
    <3> DEFINE q == [pass[p] EXCEPT !.archived = {t}]
    <3>1. /\ q \in PassStates /\ q.known = pass[p].known /\ q.doneThen = pass[p].doneThen
          /\ q.archived = {t} /\ q.force = pass[p].force /\ q.merged = pass[p].merged
          /\ q.remove = pass[p].remove /\ q.at = "removing"
      BY <1>2, <2>1 DEF PassStates
    <3> DEFINE new == [kept[t] EXCEPT !.archive = branch[t]]
    <3>2. /\ new \in [archive : SUBSET Nat, base : SUBSET Nat]
          /\ new.archive = branch[t] /\ new.base = kept[t].base
      BY DEF RInv, Typed
    <3>3. /\ pass' = [pass EXCEPT ![p] = q] /\ kept' = [kept EXCEPT ![t] = new]
          /\ UNCHANGED <<tasksVars, made, wt, branch>>
      BY <1>12, <2>3 DEF Archive, RInv, Typed
    <3> HIDE DEF q, new
    <3>4. Typed'
      BY <3>1, <3>2, <3>3 DEF RInv, Typed, tasksVars
    <3>5. /\ \A u \in Tasks : kept'[u].base = kept[u].base /\ (u # t => kept'[u] = kept[u])
          /\ kept'[t].archive = branch[t] /\ Commits(t)' = Commits(t)
          /\ t \notin late => Commits(t) \subseteq branch[t] \cup kept[t].base
      BY <2>3, <3>2, <3>3 DEF RInv, Typed, Reachable, Commits
    <3>6. PassOK(q) /\ \A r \in Passes : PassOK(pass[r])'
      BY <1>2, <2>1, <3>1, <3>3 DEF RInv, Typed, tasksVars, PassOK, KnowsEnough, PlansWell
    <3>7. \A r \in Passes : ArchivedOK(pass[r])'
      BY <3>1, <3>3, <3>5 DEF RInv, Typed, tasksVars, ArchivedOK, Commits, PassStates
    <3>8. \A u \in Tasks \ late' : Reachable(u)'
      BY <2>3, <3>3, <3>5 DEF RInv, tasksVars, Reachable, Commits, HasBranch
    <3> QED BY <3>4, <3>6, <3>7, <3>8 DEF RInv
  <2> QED BY <2>2, <2>3
<1>13. ASSUME NEW t \in Tasks, DeleteArchived(p, t)
       PROVE  RInv'
  <2> DEFINE q == [pass[p] EXCEPT !.archived = {}, !.force = @ \ {t}]
  <2>1. /\ q \in PassStates /\ q.known = pass[p].known /\ q.doneThen = pass[p].doneThen
        /\ q.archived = {} /\ q.force \subseteq pass[p].force /\ q.merged = pass[p].merged
        /\ q.remove = pass[p].remove
    BY <1>2 DEF PassStates
  <2>2. pass' = [pass EXCEPT ![p] = q] /\ UNCHANGED <<tasksVars, made, wt, kept>> /\ pass[p].at # "idle"
    BY <1>13 DEF DeleteArchived, Removing, RInv, Typed
  <2> HIDE DEF q
  <2>3. PlansWell(q) /\ PassOK(q) /\ ArchivedOK(q)
    BY <1>2, <2>1, <2>2 DEF PassOK, PlansWell, ArchivedOK, KnowsEnough
  <2>4. t \notin late => Commits(t) \subseteq kept[t].archive \cup kept[t].base /\ status[t] = "none"
    BY <1>2, <1>13, <2>2 DEF DeleteArchived, ArchivedOK, PassOK, PlansWell, KnowsEnough
  <2>5. CASE branch' = [branch EXCEPT ![t] = Absent]
    BY <2>1, <2>2, <2>3, <2>4, <2>5, BranchGoes
  <2>6. CASE UNCHANGED branch
    BY <1>3, <2>1, <2>2, <2>3, <2>6, PassAlone
  <2> QED BY <1>13, <2>5, <2>6 DEF DeleteArchived, DeleteBranch
<1>14. ASSUME NEW t \in Tasks, DeleteMerged(p, t)
       PROVE  RInv'
  <2> DEFINE q == [pass[p] EXCEPT !.merged = @ \ {t}]
  <2>1. /\ q \in PassStates /\ q.known = pass[p].known /\ q.doneThen = pass[p].doneThen
        /\ q.archived = pass[p].archived /\ q.force = pass[p].force /\ q.merged \subseteq pass[p].merged
        /\ q.remove = pass[p].remove /\ q.at = pass[p].at
    BY <1>2 DEF PassStates
  <2>2. pass' = [pass EXCEPT ![p] = q] /\ UNCHANGED <<tasksVars, made, wt, kept>> /\ pass[p].at # "idle"
    BY <1>14 DEF DeleteMerged, Removing, RInv, Typed
  <2> HIDE DEF q
  <2>3. PlansWell(q) /\ PassOK(q) /\ ArchivedOK(q)
    BY <1>2, <2>1, <2>2 DEF PassOK, PlansWell, ArchivedOK, KnowsEnough
  <2>4. CASE Merged(t) /\ branch' = [branch EXCEPT ![t] = Absent]
    <3>1. t \notin late => Commits(t) \subseteq kept[t].base
      BY <2>4 DEF Merged, RInv, Reachable
    <3> QED BY <2>1, <2>2, <2>3, <2>4, <3>1, BranchGoes
  <2>5. CASE UNCHANGED branch
    BY <1>3, <2>1, <2>2, <2>3, <2>5, PassAlone
  <2> QED BY <1>14, <2>4, <2>5 DEF DeleteMerged, DeleteBranch
<1> QED BY <1>4, <1>6, <1>7, <1>9, <1>10, <1>11, <1>12, <1>13, <1>14 DEF Step

-----------------------------------------------------------------------------
(* The theorems. *)

(* Every step keeps the invariant. *)
LEMMA ReaperStep == RInv /\ [ReaperNext]_reaperVars => RInv'
<1> SUFFICES ASSUME RInv, [ReaperNext]_reaperVars PROVE RInv'
  OBVIOUS
<1>1. CASE UNCHANGED reaperVars
  BY <1>1 DEF reaperVars, RInv, Typed, PassOK, ArchivedOK, KnowsEnough, PlansWell, Reachable, Commits, HasBranch
<1> QED BY <1>1, TasksStep, PassStep DEF ReaperNext

(* Every commit of a task that a pass could know stays reachable, from its
   branch, the base or its archive, whatever the passes remove (reaper.ts). *)
THEOREM NoWorkIsLost == ReaperSpec => []WorkKept
BY RInitially, RInvKeeps, ReaperStep, PTL DEF ReaperSpec

(* A run that a pass could know of keeps its worktree: what was read as done, or
   not at all, is not running when it is removed. *)
THEOREM TreesAreKept == ReaperSpec => RunsKeepTheirTrees
<1>1. ASSUME RInv, [ReaperNext]_reaperVars, NEW t \in Tasks \ late, status[t] = "running", wt[t] = "tree"
      PROVE  wt'[t] = "tree"
  <2>1. ASSUME NEW p \in Passes, NEW u \in Tasks, RemoveWorktree(p, u)
        PROVE  wt'[t] = "tree"
    <3>1. u # t
      BY <1>1, <2>1 DEF RemoveWorktree, RInv, PassOK, KnowsEnough, PlansWell
    <3> QED BY <1>1, <2>1, <3>1 DEF RemoveWorktree, RInv, Typed
  <2>2. ASSUME NEW u \in Tasks, Integrated(u)
        PROVE  wt'[t] = "tree"
    BY <1>1, <2>2 DEF Integrated, Moves, RInv, Typed
  <2>3. ASSUME NEW u \in Tasks, CreateTaskWorktree(u)
        PROVE  wt'[t] = "tree"
    BY <1>1, <2>3 DEF CreateTaskWorktree, RInv, Typed
  <2> QED BY <1>1, <2>1, <2>2, <2>3
          DEF ReaperNext, Step, reaperVars, CreateTask, Delete, Claim, Commit, RunEnds, RunAgain, Approve, IntegrationBegins,
              IntegrationFails, ReadStatuses, LookAtWorktrees, ListBranches, Plan, PassEnds, PassCut, Archive,
              DeleteArchived, DeleteMerged
<1>2. RInv /\ [ReaperNext]_reaperVars => \A t \in Tasks \ late : status[t] = "running" /\ wt[t] = "tree" => wt'[t] = "tree"
  BY <1>1
<1> QED BY <1>2, RInitially, ReaperStep, PTL DEF ReaperSpec, RunsKeepTheirTrees

-----------------------------------------------------------------------------
(* AgentRun: a fold over pieces of output is followed with Folding.         *)

P == INSTANCE Folding WITH Op <- Parsed

-----------------------------------------------------------------------------
(* The types. *)

Frames == {Started} \cup {Out(p) : p \in Pieces} \cup {ExitFrame(c) : c \in Codes}
Routes == [up : BOOLEAN, route : {"none", "starting", "streaming", "over"},
           timer : BOOLEAN, closed : BOOLEAN, code : Codes]
Sessions == [pending : Seq(Pieces), listening : BOOLEAN, ended : BOOLEAN, exit : Codes,
             pumping : BOOLEAN, tries : 0..MaxTries]
Runs == [at : {"creating", "created", "live", "ended", "failed", "dead"}, cancelled : BOOLEAN, timedOut : BOOLEAN,
         timer : BOOLEAN, grace : BOOLEAN, tail : BOOLEAN, saw : BOOLEAN, events : Seq(Event), unread : BOOLEAN,
         reader : {"reading", "waiting", "done", "failed", "dead"}]

RunTypes ==
  /\ proc \in {"none", "gone"} \cup Alive
  /\ written \in Seq(Pieces) /\ Len(written) <= MaxPieces
  /\ orch \in Routes /\ wire \in [frames : Seq(Frames), open : BOOLEAN]
  /\ calls \in [Callers -> {"idle", "sent", "ok", "failed", "over"}]
  /\ session \in Sessions /\ run \in Runs /\ faults \subseteq FaultKinds

(* Until it settles a run has pushed nothing but what it has parsed; when it
   has settled, one event more, and an outcome among them. *)
Heading == run.at \in {"creating", "created"}
Parses(r) ==
  /\ \A i \in 1..Len(r.events) : r.events[i] \in {Told, Result}
  /\ r.saw => \E i \in 1..Len(r.events) : r.events[i] = Result

RunOK ==
  /\ Heading => run.events = <<>> /\ ~run.tail /\ ~run.saw /\ ~session.listening
  /\ run.at = "creating" => session.pending = <<>> /\ ~session.ended
  /\ run.at \in {"live", "ended"} => session.listening
  /\ session.listening => session.pending = <<>>
  /\ run.at = "live" => Parses(run)
  /\ run.at = "ended" =>
       /\ Len(run.events) > 0 /\ run.events[Len(run.events)] \notin {Told, Result}
       /\ \A i \in 1..(Len(run.events) - 1) : run.events[i] \in {Told, Result}
       /\ \E i \in 1..Len(run.events) : run.events[i].type = "finished"

(* The response: its first frame is there once the process is, and an exit is the last. *)
Ends(frames) == frames # <<>> /\ frames[Len(frames)].type = "exit"

WireOK ==
  /\ orch.route \in {"none", "starting"} =>
       /\ proc = "none" /\ written = <<>> /\ wire.frames = <<>>
       /\ run.at \in {"creating", "failed", "dead"} /\ (wire.open => run.at = "creating")
  /\ wire.frames # <<>> \/ run.at \in {"created", "live", "ended"} => proc # "none"
  /\ run.at = "creating" /\ wire.frames # <<>> => wire.frames[1] = Started
  /\ \A i \in 1..Len(wire.frames) :
       /\ wire.frames[i].type = "started" => i = 1 /\ run.at = "creating"
       /\ wire.frames[i].type = "exit" =>
            i = Len(wire.frames) /\ ~wire.open /\ (wire.frames[i].code # "null" => proc = "gone")
  /\ run.at \in {"failed", "dead"} => wire.frames = <<>> /\ ~wire.open
  /\ session.exit # "null" => session.ended /\ proc = "gone" /\ wire.frames = <<>> /\ ~wire.open
  /\ \A i \in 1..Len(written) : written[i] = "unfinished" => i = Len(written)

(* Nothing has been lost on the way: the response is whole, or an exit of the
   process came at its end. *)
Whole ==
  /\ run.at \in {"creating", "created", "live"}
  /\ \/ orch.route = "streaming" /\ wire.open
     \/ Ends(wire.frames) /\ wire.frames[Len(wire.frames)].code # "null"
     \/ session.exit # "null"

Done(r) == Len(r.events) + (IF r.tail THEN 1 ELSE 0)

(* What is written has been parsed, is kept or is in the response, in its order. *)
Skipped(at) == IF at = "creating" THEN 1 ELSE 0
Outs(frames, at) == Len(frames) - Skipped(at) - (IF Ends(frames) THEN 1 ELSE 0)

Exact ==
  LET n == Done(run)
      k == Len(session.pending)
      o == Outs(wire.frames, run.at)
  IN  /\ o >= 0 /\ n + k + o = Len(written)
      /\ \A j \in 1..k : session.pending[j] = written[n + j]
      /\ \A j \in 1..o : wire.frames[Skipped(run.at) + j] = Out(written[n + k + j])
      /\ run.tail => n = Len(written) /\ written[n] = "unfinished"

(* A run that was told of the process's exit has everything. *)
HasExit == run.events[Len(run.events)] = Exited \/ run.events[Len(run.events)].code # "null"
EndOK == run.at = "ended" /\ HasExit => proc = "gone" /\ Len(run.events) - 1 = Len(written)

RunInv == RunTypes /\ RunOK /\ WireOK /\ (Whole => Exact) /\ EndOK

-----------------------------------------------------------------------------
(* What the helpers give back. *)

LEMMA Kinds ==
  /\ Told \in Event /\ Exited \in Event /\ Result \in Event /\ Exited \notin {Told, Result}
  /\ Result.type = "finished" /\ Result # Told
  /\ Started \in Frames /\ Started.type = "started"
  /\ \A p \in Pieces : Out(p) \in Frames /\ Out(p).type = "out" /\ Out(p).data = p
  /\ \A c \in Codes : ExitFrame(c) \in Frames /\ ExitFrame(c).type = "exit" /\ ExitFrame(c).code = c
<1>1. Told.type = "line" /\ Exited.type = "log" /\ Result.type = "finished"
  BY DEF Told, Exited, Result, Finished
<1>2. Result \in [type : {"finished"}, outcome : {"completed", "failed", "cancelled", "timeout"},
                  summary : BOOLEAN, code : Codes]
  BY DEF Result, Finished, Codes
<1> QED
  BY <1>1, <1>2 DEF Event, Frames, Started, Out, ExitFrame

LEMMA FrameKinds ==
  ASSUME NEW f \in Frames
  PROVE  \/ f = Started /\ f.type = "started"
         \/ f.type = "out" /\ f.data \in Pieces /\ f = Out(f.data)
         \/ f.type = "exit" /\ f.code \in Codes /\ f = ExitFrame(f.code)
BY DEF Frames, Started, Out, ExitFrame

LEMMA EventKinds ==
  ASSUME NEW e \in Event, e.type = "finished"
  PROVE  e.outcome \in {"completed", "failed", "cancelled", "timeout"}
BY DEF Event, Told, Exited

LEMMA PushIs ==
  ASSUME NEW r \in Runs, NEW e \in Event
  PROVE  LET s == Push(r, e) IN
           /\ s \in Runs /\ s.at = r.at /\ s.tail = r.tail /\ s.saw = r.saw
           /\ s.events = Append(r.events, e)
<1>1. Append(r.events, e) \in Seq(Event)
  BY DEF Runs
<1> QED
  BY <1>1 DEF Push, Runs

(* A piece adds one to what is parsed. *)
LEMMA ParsedIs ==
  ASSUME NEW r \in Runs, NEW p \in Pieces
  PROVE  LET s == Parsed(r, p) IN
           /\ s \in Runs /\ s.at = r.at
           /\ p = "unfinished" => s.tail /\ s.events = r.events /\ s.saw = r.saw
           /\ p # "unfinished" =>
                /\ s.tail = r.tail /\ (p = "result" => s.saw = TRUE) /\ (p = "line" => s.saw = r.saw)
                /\ s.events = Append(r.events, IF p = "result" THEN Result ELSE Told)
<1>1. CASE p = "line"
  <2>1. Parsed(r, p) = Push(r, Told)
    BY <1>1 DEF Parsed
  <2>2. Told \in Event /\ r.saw \in BOOLEAN
    BY Kinds DEF Runs
  <2> QED
    BY <1>1, <2>1, <2>2, PushIs
<1>2. CASE p = "result"
  <2> DEFINE t == Push(r, Result)
  <2>1. t \in Runs /\ t.at = r.at /\ t.tail = r.tail /\ t.events = Append(r.events, Result)
    BY PushIs, Kinds
  <2>2. Parsed(r, p) = [t EXCEPT !.saw = TRUE]
    BY <1>2 DEF Parsed
  <2> HIDE DEF t
  <2>3. Parsed(r, p) \in Runs /\ Parsed(r, p).at = t.at /\ Parsed(r, p).tail = t.tail /\ Parsed(r, p).saw = TRUE
        /\ Parsed(r, p).events = t.events
    BY <2>1, <2>2 DEF Runs
  <2> QED
    BY <1>2, <2>1, <2>3
<1>3. CASE p = "unfinished"
  <2>1. Parsed(r, p) = [r EXCEPT !.tail = TRUE]
    BY <1>3 DEF Parsed
  <2> QED
    BY <1>3, <2>1 DEF Runs
<1> QED
  BY <1>1, <1>2, <1>3 DEF Pieces

LEMMA ParsedParses ==
  ASSUME NEW r \in Runs, NEW p \in Pieces, Parses(r)
  PROVE  Parses(Parsed(r, p))
<1> DEFINE s == Parsed(r, p)
           e == IF p = "result" THEN Result ELSE Told
<1>1. CASE p = "unfinished"
  BY <1>1, ParsedIs DEF Parses
<1>2. CASE p # "unfinished"
  <2>1. s.events = Append(r.events, e) /\ (p # "result" => s.saw = r.saw)
    BY <1>2, ParsedIs DEF Pieces
  <2>2. r.events \in Seq(Event) /\ e \in Event
    BY Kinds DEF Runs
  <2>3. /\ Len(s.events) = Len(r.events) + 1 /\ Len(r.events) \in Nat
        /\ s.events[Len(r.events) + 1] = e
        /\ \A i \in 1..Len(r.events) : s.events[i] = r.events[i]
    BY <2>1, <2>2
  <2>4. ASSUME NEW i \in 1..Len(s.events) PROVE s.events[i] \in {Told, Result}
    <3>1. CASE i = Len(r.events) + 1
      BY <2>3, <3>1
    <3>2. CASE i \in 1..Len(r.events)
      BY <2>3, <3>2 DEF Parses
    <3> QED
      BY <2>3, <3>1, <3>2
  <2>5. ASSUME s.saw PROVE \E i \in 1..Len(s.events) : s.events[i] = Result
    <3>1. CASE p = "result"
      BY <2>3, <3>1
    <3>2. CASE p # "result"
      <4>1. PICK i \in 1..Len(r.events) : r.events[i] = Result
        BY <2>1, <2>5, <3>2 DEF Parses
      <4> QED
        BY <2>3, <4>1
    <3> QED
      BY <3>1, <3>2
  <2> QED
    BY <2>4, <2>5 DEF Parses
<1> QED
  BY <1>1, <1>2

(* onExit()'s event is never one of the parser's. *)
LEMMA OnExitIs ==
  ASSUME NEW r \in Runs, NEW c \in Codes
  PROVE  LET e == OnExit(r, c) IN
           /\ e \in Event /\ e \notin {Told, Result}
           /\ \/ e = Exited /\ r.saw /\ c = "ok"
              \/ e # Exited /\ e.type = "finished" /\ e.code = c
<1>1. CASE r.saw /\ c = "ok"
  BY <1>1, Kinds DEF OnExit
<1>2. CASE ~(r.saw /\ c = "ok")
  <2> DEFINE o == CASE r.cancelled -> "cancelled"
                    [] ~r.cancelled /\ r.timedOut -> "timeout"
                    [] ~r.cancelled /\ ~r.timedOut /\ c = "ok" -> "completed"
                    [] OTHER -> "failed"
  <2>1. o \in {"completed", "failed", "cancelled", "timeout"} /\ (o = "completed" => c = "ok")
    OBVIOUS
  <2>2. OnExit(r, c) = Finished(o, r.saw, c)
    BY <1>2 DEF OnExit
  <2> HIDE DEF o
  <2>3. r.saw \in BOOLEAN
    BY DEF Runs
  <2>4. Finished(o, r.saw, c) \in [type : {"finished"}, outcome : {"completed", "failed", "cancelled", "timeout"},
                                   summary : BOOLEAN, code : Codes]
    BY <2>1, <2>3 DEF Finished
  <2>5. Finished(o, r.saw, c) # Result
    BY <2>1 DEF Finished, Result
  <2>6. Finished(o, r.saw, c).type = "finished" /\ Told.type = "line" /\ Exited.type = "log"
        /\ Finished(o, r.saw, c).code = c
    BY DEF Finished, Told, Exited
  <2> QED
    BY <2>2, <2>4, <2>5, <2>6 DEF Event
<1> QED
  BY <1>1, <1>2

(* settle(): one event more than what was parsed. *)
LEMMA SettledIs ==
  ASSUME NEW r \in Runs, NEW c \in Codes, r.at = "live", Parses(r)
  PROVE  LET s == Settled(r, c) IN
           /\ s \in Runs /\ s.at = "ended" /\ Len(s.events) = Done(r) + 1
           /\ \A i \in 1..Done(r) : s.events[i] \in {Told, Result}
           /\ s.events[Len(s.events)] = OnExit(r, c)
           /\ \E i \in 1..Len(s.events) : s.events[i].type = "finished"
<1> DEFINE rest == IF r.tail THEN Parsed(r, "result") ELSE r
           e == OnExit(r, c)
           s == Settled(r, c)
<1>1. rest \in Runs /\ Parses(rest) /\ Len(rest.events) = Done(r) /\ (r.saw => rest.saw)
  <2>1. "result" \in Pieces /\ r.events \in Seq(Event)
    BY DEF Pieces, Runs
  <2>2. CASE r.tail
    <3>1. rest = Parsed(r, "result")
      BY <2>2
    <3>2. rest.events = Append(r.events, Result) /\ rest.saw
      <4>1. Parsed(r, "result").events = Append(r.events, Result) /\ Parsed(r, "result").saw = TRUE
        BY <2>1, ParsedIs
      <4> QED
        BY <3>1, <4>1
    <3>3. rest \in Runs /\ Parses(rest)
      BY <2>1, <3>1, ParsedIs, ParsedParses
    <3>4. Len(Append(r.events, Result)) = Len(r.events) + 1
      <4>1. r.events \in Seq(Event)
        BY <2>1
      <4> QED
        BY <4>1
    <3> QED
      BY <2>2, <3>2, <3>3, <3>4 DEF Done
  <2>3. CASE ~r.tail
    BY <2>1, <2>3 DEF Done
  <2> QED
    BY <2>2, <2>3
<1> HIDE DEF rest
<1>2. e \in Event /\ Push(rest, e) \in Runs /\ Push(rest, e).events = Append(rest.events, e)
  BY <1>1, OnExitIs, PushIs
<1>3. s = [Push(rest, e) EXCEPT !.at = "ended", !.timer = FALSE, !.grace = FALSE]
  BY DEF Settled, rest
<1>4. s \in Runs /\ s.at = "ended" /\ s.events = Append(rest.events, e)
  BY <1>2, <1>3 DEF Runs
<1>5. rest.events \in Seq(Event)
  BY <1>1 DEF Runs
<1>6. /\ Len(s.events) = Len(rest.events) + 1 /\ Len(rest.events) \in Nat
      /\ s.events[Len(rest.events) + 1] = e
      /\ \A i \in 1..Len(rest.events) : s.events[i] = rest.events[i]
  BY <1>2, <1>4, <1>5
<1>7. \E i \in 1..Len(s.events) : s.events[i].type = "finished"
  <2>1. CASE e = Exited
    <3>1. rest.saw
      BY <1>1, <2>1, OnExitIs
    <3>2. PICK i \in 1..Len(rest.events) : rest.events[i] = Result
      BY <1>1, <3>1 DEF Parses
    <3> QED
      BY <1>6, <3>2, Kinds
  <2>2. CASE e # Exited
    BY <1>6, <2>2, OnExitIs
  <2> QED
    BY <2>1, <2>2
<1> QED
  BY <1>1, <1>4, <1>6, <1>7 DEF Parses

-----------------------------------------------------------------------------
(* The first state, and what the invariant says. *)

LEMMA InitRun == Init => RunInv
<1> SUFFICES ASSUME Init PROVE RunInv
  OBVIOUS
<1>1. RunTypes
  BY AgentRunAssumption
     DEF Init, RunTypes, Alive, Routes, Sessions, Runs, Codes, Pieces, Frames, Event
<1>2. RunOK
  BY DEF Init, RunOK, Heading
<1>3. WireOK
  BY DEF Init, WireOK
<1>4. ~Whole /\ EndOK
  BY DEF Init, Whole, Ends, EndOK
<1> QED
  BY <1>1, <1>2, <1>3, <1>4 DEF RunInv

LEMMA RunInvTypes == RunInv => TypeOK
BY DEF RunInv, RunTypes, TypeOK, Routes, Sessions, Runs, Frames

(* All the events but the last are lines and results, which are counted. *)
LEMMA Counted ==
  ASSUME NEW n \in Nat, NEW f, NEW S, DOMAIN f = 1..(n + 1), \A i \in 1..n : f[i] \in S, f[n + 1] \notin S
  PROVE  Cardinality({i \in DOMAIN f : f[i] \in S}) = n
<1>1. {i \in DOMAIN f : f[i] \in S} = 1..n
  OBVIOUS
<1>2. Cardinality(1..n) = IF 1 > n THEN 0 ELSE n - 1 + 1
  BY FS_Interval
<1>3. Cardinality(1..n) = n
  BY <1>2
<1> QED
  BY <1>1, <1>3, Zenon

LEMMA RunInvComplete == RunInv => OutputComplete
<1> SUFFICES ASSUME RunInv, run.at = "ended",
                    Last(run.events) = Exited \/ Last(run.events).code # "null"
             PROVE  Cardinality({i \in DOMAIN run.events : run.events[i] \in {Told, Result}}) = Len(written)
  BY DEF OutputComplete
<1> DEFINE n == Len(run.events) - 1
<1>1. run.events \in Seq(Event)
  BY DEF RunInv, RunTypes, Runs
<1>2. Len(run.events) > 0 /\ run.events[Len(run.events)] \notin {Told, Result}
      /\ \A i \in 1..n : run.events[i] \in {Told, Result}
  BY DEF RunInv, RunOK
<1>3. n \in Nat /\ DOMAIN run.events = 1..(n + 1) /\ n + 1 = Len(run.events)
  BY <1>1, <1>2
<1>4. n = Len(written)
  BY DEF RunInv, EndOK, HasExit, Last
<1> DEFINE S == {Told, Result}
           f == run.events
<1>5. (\A i \in 1..n : f[i] \in S) /\ f[n + 1] \notin S
  BY <1>2, <1>3
<1> HIDE DEF n, S, f
<1>6. Cardinality({i \in DOMAIN f : f[i] \in S}) = n
  BY <1>3, <1>5, Counted DEF f
<1> QED
  BY <1>4, <1>6 DEF S, f

-----------------------------------------------------------------------------
(* The steps. *)

(* A step that leaves alone what the invariant is about. *)
LEMMA Aside ==
  ASSUME RunInv, RunTypes', written' = written, wire' = wire, orch'.route = orch.route,
         session'.pending = session.pending, session'.listening = session.listening,
         session'.ended = session.ended, session'.exit = session.exit,
         run'.at = run.at, run'.events = run.events, run'.tail = run.tail, run'.saw = run.saw,
         proc' = proc \/ (proc \in Alive /\ proc' \in Alive \cup {"gone"})
  PROVE  RunInv'
<1>1. RunOK'
  BY DEF RunInv, RunOK, Heading, Parses
<1>2. WireOK'
  BY DEF RunInv, WireOK, Alive
<1>3. (Whole => Exact)'
  <2>1. Whole' => Whole
    BY DEF Whole, Ends
  <2>2. Done(run') = Done(run)
    BY DEF Done
  <2>3. Exact => Exact'
    BY <2>2 DEF Exact
  <2> QED
    BY <2>1, <2>2, <2>3 DEF RunInv
<1>4. EndOK'
  BY DEF RunInv, EndOK, HasExit, Alive
<1> QED
  BY <1>1, <1>2, <1>3, <1>4 DEF RunInv

LEMMA AsideContainer == ASSUME RunInv, PidWritten \/ \E c \in {"ok", "bad"} : Exit(c) PROVE RunInv'
<1>1. orch' \in Routes /\ orch'.route = orch.route
  BY DEF RunInv, RunTypes, PidWritten, Exit, Routes, Codes
<1>2. RunTypes'
  BY <1>1 DEF RunInv, RunTypes, PidWritten, Exit, Alive
<1> QED
  BY <1>1, <1>2, Aside DEF PidWritten, Exit, Alive

LEMMA SignalTyped ==
  ASSUME RunInv, Signal \/ UNCHANGED proc
  PROVE  proc' \in {"none", "gone"} \cup Alive /\ (proc' = proc \/ (proc \in Alive /\ proc' \in Alive))
BY DEF RunInv, RunTypes, Signal, Alive

LEMMA AsideOrchestrator ==
  ASSUME RunInv, \/ Backstop \/ ReplyCloses \/ OrchestratorRestarts
                 \/ \E c \in Callers : CallArrives(c) \/ CallFails(c)
  PROVE  RunInv'
<1>1. orch' \in Routes /\ orch'.route = orch.route
  BY DEF RunInv, RunTypes, Backstop, ReplyCloses, OrchestratorRestarts, CallArrives, CallFails, Routes
<1>2. faults' \subseteq FaultKinds
  BY DEF RunInv, RunTypes, Backstop, ReplyCloses, OrchestratorRestarts, CallArrives, CallFails, Kill, Fault, FaultKinds
<1>3. calls' \in [Callers -> {"idle", "sent", "ok", "failed", "over"}]
  BY DEF RunInv, RunTypes, Backstop, ReplyCloses, OrchestratorRestarts, CallArrives, CallFails, Answer
<1>4. Signal \/ UNCHANGED proc
  BY DEF Backstop, ReplyCloses, OrchestratorRestarts, CallArrives, CallFails, Kill, container
<1>5. UNCHANGED <<written, wire, session, run>>
  BY DEF Backstop, ReplyCloses, OrchestratorRestarts, CallArrives, CallFails, container
<1>6. RunTypes'
  BY <1>1, <1>2, <1>3, <1>4, <1>5, SignalTyped DEF RunInv, RunTypes
<1> QED
  BY <1>1, <1>4, <1>5, <1>6, SignalTyped, Aside

LEMMA AsideWorker ==
  ASSUME RunInv, Retry \/ RetryAnswered \/ Deadline \/ Cancel \/ CancelAnswered \/ ReadEvents
  PROVE  RunInv'
<1>1. /\ run' \in Runs /\ run'.at = run.at /\ run'.events = run.events
      /\ run'.tail = run.tail /\ run'.saw = run.saw
  <2>1. run \in Runs
    BY DEF RunInv, RunTypes
  <2>2. CASE Retry \/ RetryAnswered
    BY <2>1, <2>2 DEF Retry, RetryAnswered
  <2>3. CASE Deadline
    BY <2>1, <2>3 DEF Deadline, Graced, Runs
  <2>4. CASE Cancel
    BY <2>1, <2>4 DEF Cancel, Runs
  <2>5. CASE CancelAnswered
    BY <2>1, <2>5 DEF CancelAnswered, Graced, Runs
  <2>6. CASE ReadEvents
    <3>1. \/ run' = [run EXCEPT !.unread = FALSE]
          \/ run' = [run EXCEPT !.reader = "done"]
          \/ run' = [run EXCEPT !.reader = "waiting"]
      BY <2>6 DEF ReadEvents
    <3> QED
      BY <2>1, <3>1 DEF Runs
  <2> QED
    BY <2>2, <2>3, <2>4, <2>5, <2>6
<1>2. /\ session' \in Sessions /\ session'.pending = session.pending /\ session'.listening = session.listening
      /\ session'.ended = session.ended /\ session'.exit = session.exit
  <2>1. session \in Sessions /\ MaxTries \in Nat
    BY AgentRunAssumption DEF RunInv, RunTypes
  <2>2. CASE RetryAnswered
    BY <2>1, <2>2 DEF RetryAnswered, Sessions
  <2> QED
    BY <2>1, <2>2 DEF Retry, Deadline, Cancel, CancelAnswered, ReadEvents
<1>3. calls' \in [Callers -> {"idle", "sent", "ok", "failed", "over"}]
  BY DEF RunInv, RunTypes, Retry, RetryAnswered, Deadline, Cancel, CancelAnswered, ReadEvents
<1>4. UNCHANGED <<proc, written, orch, wire, faults>>
  BY DEF Retry, RetryAnswered, Deadline, Cancel, CancelAnswered, ReadEvents, container
<1>5. RunTypes'
  BY <1>1, <1>2, <1>3, <1>4 DEF RunInv, RunTypes
<1> QED
  BY <1>1, <1>2, <1>4, <1>5, Aside

(* A step of the orchestrator that adds nothing to the response and takes
   nothing from it, but may break it or end the route. *)
LEMMA RouteStops ==
  ASSUME RunInv, RunTypes', UNCHANGED <<written, session, run>>,
         proc' = proc \/ (orch.route = "starting" /\ proc' = "young"),
         wire'.open = FALSE \/ (wire'.open = wire.open /\ run.at = "creating"),
         wire'.frames = wire.frames \/ wire'.frames = <<>>,
         wire.open => ~(orch'.route = "streaming" /\ wire'.open),
         orch'.route \in {"none", "starting"} => orch.route \in {"none", "starting"} /\ proc' = proc,
         orch'.route = "streaming" => orch.route = "streaming"
  PROVE  RunInv'
<1> USE DEF RunInv
<1>0. wire \in [frames : Seq(Frames), open : BOOLEAN]
  BY DEF RunTypes
<1>1. RunOK'
  BY DEF RunOK, Heading, Parses
<1>2. proc' # "none" \/ proc' = proc
  OBVIOUS
<1>3. WireOK'
  BY <1>0, <1>2 DEF WireOK
<1>4. (Whole => Exact)'
  <2> SUFFICES ASSUME Whole' PROVE Exact'
    OBVIOUS
  <2>1. wire'.frames = wire.frames
    BY DEF Whole, Ends, WireOK
  <2>2. Whole
    BY <1>0, <2>1 DEF Whole, Ends
  <2> QED
    BY <2>1, <2>2 DEF Exact
<1>5. EndOK'
  BY DEF EndOK, HasExit, WireOK
<1> QED
  BY <1>1, <1>3, <1>4, <1>5

LEMMA RequestArrivesStep == ASSUME RunInv, RequestArrives PROVE RunInv'
<1>1. orch' \in Routes /\ wire' \in [frames : Seq(Frames), open : BOOLEAN]
  BY DEF RunInv, RunTypes, RequestArrives, Routes
<1>2. RunTypes'
  BY <1>1 DEF RunInv, RunTypes, RequestArrives, container
<1>3. wire'.frames = wire.frames /\ (wire'.open = wire.open \/ wire'.open = FALSE) /\ orch'.route # "streaming"
      /\ orch.route = "none"
  BY DEF RunInv, RunTypes, RequestArrives, Routes
<1> QED
  BY <1>2, <1>3, RouteStops DEF RequestArrives, container

LEMMA ExecRefusedStep == ASSUME RunInv, ExecRefused PROVE RunInv'
<1>1. /\ orch' \in Routes /\ orch'.route = "over"
      /\ wire' \in [frames : Seq(Frames), open : BOOLEAN] /\ wire'.frames = wire.frames /\ wire'.open = FALSE
  BY DEF RunInv, RunTypes, ExecRefused, Routes
<1>2. RunTypes'
  BY <1>1 DEF RunInv, RunTypes, ExecRefused, container
<1> QED
  BY <1>1, <1>2, RouteStops DEF ExecRefused, container

LEMMA BrokenIs ==
  ASSUME RunInv, wire' \in Broken(wire)
  PROVE  /\ wire' \in [frames : Seq(Frames), open : BOOLEAN] /\ wire'.open = FALSE
         /\ wire'.frames \in {wire.frames, <<>>}
<1>1. wire \in [frames : Seq(Frames), open : BOOLEAN] /\ <<>> \in Seq(Frames)
  BY DEF RunInv, RunTypes
<1>2. CASE wire' = [wire EXCEPT !.open = FALSE]
  BY <1>1, <1>2
<1>3. CASE wire' = [frames |-> <<>>, open |-> FALSE]
  BY <1>1, <1>3
<1> QED
  BY <1>2, <1>3 DEF Broken

LEMMA ConnectionBreaksStep == ASSUME RunInv, ConnectionBreaks PROVE RunInv'
<1>1. orch' \in Routes /\ orch'.route = orch.route
  BY DEF RunInv, RunTypes, ConnectionBreaks, Routes
<1>2. faults' \subseteq FaultKinds
  BY DEF RunInv, RunTypes, ConnectionBreaks, Fault, FaultKinds
<1>3. RunTypes'
  BY <1>1, <1>2, BrokenIs DEF RunInv, RunTypes, ConnectionBreaks, container
<1> QED
  BY <1>1, <1>3, BrokenIs, RouteStops DEF ConnectionBreaks, container

LEMMA OrchestratorCrashesStep == ASSUME RunInv, OrchestratorCrashes PROVE RunInv'
<1>1. orch' \in Routes /\ orch'.route = (IF orch.route = "none" THEN "none" ELSE "over")
  BY DEF RunInv, RunTypes, OrchestratorCrashes, Routes
<1>2. faults' \subseteq FaultKinds
  BY DEF RunInv, RunTypes, OrchestratorCrashes, Fault, FaultKinds
<1>3. RunTypes'
  BY <1>1, <1>2, BrokenIs DEF RunInv, RunTypes, OrchestratorCrashes, Alive
<1>4. proc' = proc \/ (orch.route = "starting" /\ proc' = "young")
  BY DEF OrchestratorCrashes
<1> QED
  BY <1>1, <1>3, <1>4, BrokenIs, RouteStops DEF OrchestratorCrashes

LEMMA ExecStartsStep == ASSUME RunInv, ExecStarts PROVE RunInv'
<1> USE DEF RunInv
<1>1. orch' \in Routes /\ orch'.route = "streaming" /\ orch.route = "starting"
  BY DEF RunTypes, ExecStarts, Routes
<1>2. /\ wire' \in [frames : Seq(Frames), open : BOOLEAN] /\ wire'.open = wire.open
      /\ wire.frames = <<>> /\ wire'.frames = IF wire.open THEN <<Started>> ELSE <<>>
  <2>1. wire \in [frames : Seq(Frames), open : BOOLEAN] /\ wire.frames = <<>>
    BY <1>1 DEF RunTypes, WireOK
  <2>2. Append(wire.frames, Started) = <<Started>> /\ <<Started>> \in Seq(Frames)
    BY <2>1, Kinds
  <2>3. wire' = IF wire.open THEN [wire EXCEPT !.frames = <<Started>>] ELSE wire
    BY <2>2 DEF ExecStarts, Sent
  <2> QED
    BY <2>1, <2>2, <2>3
<1>3. RunTypes'
  BY <1>1, <1>2 DEF RunTypes, ExecStarts, Alive
<1>4. RunOK'
  BY DEF RunOK, Heading, Parses, ExecStarts
<1>5. written' = written /\ written = <<>> /\ UNCHANGED <<run, session>> /\ proc' = "young" /\ proc = "none"
      /\ run.at \in {"creating", "failed", "dead"} /\ (wire.open => run.at = "creating")
      /\ session'.exit = "null"
  BY <1>1 DEF ExecStarts, WireOK, RunTypes, Sessions
<1>6. WireOK'
  BY <1>1, <1>2, <1>5, Kinds DEF WireOK
<1>7. (Whole => Exact)'
  <2> SUFFICES ASSUME Whole' PROVE Exact'
    OBVIOUS
  <2>1. wire'.frames = <<Started>> /\ run.at = "creating"
    BY <1>1, <1>2, <1>5 DEF Whole, Ends
  <2>2. Outs(<<Started>>, "creating") = 0
    BY Kinds DEF Outs, Ends, Skipped
  <2>3. run'.events = <<>> /\ ~run'.tail /\ session'.pending = <<>> /\ written' = <<>>
    BY <1>5, <2>1 DEF RunOK, Heading
  <2>4. Done(run') = 0
    BY <2>3 DEF Done
  <2> QED
    BY <1>5, <2>1, <2>2, <2>3, <2>4 DEF Exact
<1>8. EndOK'
  BY <1>5 DEF EndOK
<1> QED
  BY <1>3, <1>4, <1>6, <1>7, <1>8

LEMMA WorkerCrashesStep == ASSUME RunInv, WorkerCrashes PROVE RunInv'
<1> USE DEF RunInv
<1>1. /\ run' \in Runs /\ run'.at = (IF run.at = "ended" THEN "ended" ELSE "dead") /\ run'.events = run.events
      /\ run'.tail = run.tail /\ run'.saw = run.saw
  BY DEF RunTypes, WorkerCrashes, Runs
<1>2. /\ session' \in Sessions /\ session'.pending = <<>> /\ session'.listening = session.listening
      /\ session'.ended = session.ended /\ session'.exit = session.exit
  <2>1. session \in Sessions /\ <<>> \in Seq(Pieces) /\ 0 \in 0..MaxTries
    BY AgentRunAssumption DEF RunTypes
  <2>2. session' = [session EXCEPT !.tries = 0, !.pumping = FALSE, !.pending = <<>>]
    BY DEF WorkerCrashes
  <2> QED
    BY <2>1, <2>2 DEF Sessions
<1>3. orch' \in Routes /\ orch'.route = orch.route
  <2> DEFINE b == orch.closed \/ (wire.open /\ orch.route = "streaming")
  <2>1. orch \in Routes /\ b \in BOOLEAN
    BY DEF RunTypes, Routes
  <2>2. orch' = [orch EXCEPT !.closed = b]
    BY DEF WorkerCrashes
  <2> HIDE DEF b
  <2> QED
    BY <2>1, <2>2 DEF Routes
<1>4. wire' = [frames |-> <<>>, open |-> FALSE] /\ UNCHANGED <<proc, written>>
      /\ wire' \in [frames : Seq(Frames), open : BOOLEAN]
  BY DEF WorkerCrashes, container
<1>5. calls' \in [Callers -> {"idle", "sent", "ok", "failed", "over"}] /\ faults' \subseteq FaultKinds
  BY DEF RunTypes, WorkerCrashes, Fault, FaultKinds
<1>6. RunTypes'
  BY <1>1, <1>2, <1>3, <1>4, <1>5 DEF RunTypes
<1>7. RunOK'
  BY <1>1, <1>2 DEF RunOK, Heading
<1>8. WireOK'
  BY <1>1, <1>2, <1>3, <1>4 DEF WireOK
<1>9. ~Whole' /\ EndOK'
  BY <1>1, <1>2, <1>4 DEF Whole, EndOK, HasExit
<1> QED
  BY <1>6, <1>7, <1>8, <1>9

(* How the frames are counted when one is added or taken. *)
IsAdded(f, x, g) ==
  /\ g \in Seq(Frames) /\ Len(f) \in Nat /\ Len(g) = Len(f) + 1 /\ g[Len(f) + 1] = x
  /\ \A i \in 1..Len(f) : g[i] = f[i]

IsRest(f, g) ==
  /\ g \in Seq(Frames) /\ Len(f) \in Nat \ {0} /\ Len(g) = Len(f) - 1
  /\ \A i \in 1..Len(g) : g[i] = f[i + 1]

LEMMA AddedThere == ASSUME NEW f \in Seq(Frames), NEW x \in Frames PROVE IsAdded(f, x, Append(f, x))
BY DEF IsAdded

LEMMA RestThere ==
  ASSUME NEW f \in Seq(Frames), f # <<>>
  PROVE  IsRest(f, Tail(f)) /\ Head(f) = f[1] /\ f[1] \in Frames
BY DEF IsRest

LEMMA FrameAdded ==
  ASSUME NEW f, ~Ends(f), NEW x, NEW g, IsAdded(f, x, g), NEW at
  PROVE  /\ x.type = "exit" => Ends(g) /\ Outs(g, at) = Outs(f, at)
         /\ x.type # "exit" => ~Ends(g) /\ Outs(g, at) = Outs(f, at) + 1
<1>1. g # <<>> /\ Len(g) = Len(f) + 1 /\ g[Len(g)] = x /\ Len(f) \in Nat
  BY DEF IsAdded
<1>2. Ends(g) <=> x.type = "exit"
  BY <1>1 DEF Ends
<1>3. Skipped(at) \in Int
  BY DEF Skipped
<1> QED
  BY <1>1, <1>2, <1>3 DEF Outs

LEMMA FrameTaken ==
  ASSUME NEW f \in Seq(Frames), NEW g, IsRest(f, g)
  PROVE  /\ f[1].type # "exit" => (Ends(g) <=> Ends(f))
         /\ Ends(g) => g[Len(g)] = f[Len(f)]
<1>1. g # <<>> => g[Len(g)] = f[Len(f)]
  <2>1. g # <<>> => Len(g) \in 1..Len(g) /\ Len(g) + 1 = Len(f)
    BY DEF IsRest
  <2> QED
    BY <2>1 DEF IsRest
<1>2. g = <<>> => Len(f) = 1
  BY DEF IsRest
<1>3. f # <<>>
  BY DEF IsRest
<1> QED
  BY <1>1, <1>2, <1>3 DEF Ends

(* Taking a frame that is not the exit: one fewer to skip, or one fewer piece. *)
LEMMA OutsTaken ==
  ASSUME NEW f \in Seq(Frames), NEW g, IsRest(f, g), f[1].type # "exit", NEW at, NEW to
  PROVE  /\ Outs(f, at) \in Int /\ Outs(f, at) <= Len(f) - Skipped(at)
         /\ Outs(g, to) = Outs(f, at) + Skipped(at) - Skipped(to) - 1
<1>1. Len(g) = Len(f) - 1 /\ Len(f) \in Nat
  BY DEF IsRest
<1>2. Ends(g) <=> Ends(f)
  BY FrameTaken
<1>3. Skipped(at) \in Int /\ Skipped(to) \in Int
  BY DEF Skipped
<1>4. CASE Ends(f)
  BY <1>1, <1>2, <1>3, <1>4 DEF Outs
<1>5. CASE ~Ends(f)
  BY <1>1, <1>2, <1>3, <1>5 DEF Outs
<1> QED
  BY <1>4, <1>5

LEMMA SentIs ==
  ASSUME RunInv, NEW x \in Frames
  PROVE  LET w == Sent(wire, x) IN
           /\ w \in [frames : Seq(Frames), open : BOOLEAN] /\ w.open = wire.open
           /\ w.frames = IF wire.open THEN Append(wire.frames, x) ELSE wire.frames
           /\ wire.open => ~Ends(wire.frames)
<1>1. wire \in [frames : Seq(Frames), open : BOOLEAN]
  BY DEF RunInv, RunTypes
<1>2. Append(wire.frames, x) \in Seq(Frames)
  BY <1>1
<1>3. wire.open => ~Ends(wire.frames)
  <2>1. Ends(wire.frames) => Len(wire.frames) \in 1..Len(wire.frames)
    BY <1>1 DEF Ends
  <2> QED
    BY <2>1 DEF RunInv, WireOK, Ends
<1> QED
  BY <1>1, <1>2, <1>3 DEF Sent

LEMMA WriteStep == ASSUME RunInv, NEW p \in Pieces, Write(p) PROVE RunInv'
<1> USE DEF RunInv
<1>1. proc \in {"running", "doomed"} /\ UNCHANGED <<proc, orch, session, run>> /\ orch.route \notin {"none", "starting"}
  BY DEF Write, WireOK
<1>2. /\ written \in Seq(Pieces) /\ written' = Append(written, p) /\ written' \in Seq(Pieces)
      /\ Len(written') = Len(written) + 1 /\ Len(written') <= MaxPieces /\ Len(written) \in Nat
      /\ written'[Len(written) + 1] = p /\ \A i \in 1..Len(written) : written'[i] = written[i]
  BY AgentRunAssumption DEF RunTypes, Write
<1>3. /\ wire' \in [frames : Seq(Frames), open : BOOLEAN] /\ wire'.open = wire.open
      /\ wire'.frames = IF wire.open /\ orch.route = "streaming" THEN Append(wire.frames, Out(p)) ELSE wire.frames
      /\ wire.open => ~Ends(wire.frames)
  BY SentIs, Kinds DEF Write, RunTypes
<1>4. RunTypes' /\ RunOK'
  BY <1>1, <1>2, <1>3 DEF Write, RunTypes, RunOK, Heading, Parses
<1>5. EndOK'
  BY <1>1 DEF EndOK, HasExit
<1>6. ~(session.exit # "null") /\ ~(Ends(wire.frames) /\ wire.frames[Len(wire.frames)].code # "null")
  <2>1. Ends(wire.frames) => Len(wire.frames) \in 1..Len(wire.frames)
    BY DEF Ends, RunTypes
  <2> QED
    BY <1>1, <2>1 DEF WireOK, Ends
<1>7. \A i \in 1..Len(written') : written'[i] = "unfinished" => i = Len(written')
  <2>1. ASSUME NEW i \in 1..Len(written) PROVE written[i] # "unfinished"
    <3>1. written # <<>> /\ (written[i] = "unfinished" => i = Len(written)) /\ Last(written) # "unfinished"
      BY <1>2, <2>1 DEF WireOK, Write
    <3> QED
      BY <3>1 DEF Last
  <2> QED
    BY <1>2, <2>1
<1>8. CASE wire.open /\ orch.route = "streaming"
  <2>1. ~Ends(wire.frames) /\ wire.frames \in Seq(Frames) /\ Out(p).type = "out"
        /\ IsAdded(wire.frames, Out(p), wire'.frames)
    BY <1>3, <1>8, Kinds, AddedThere DEF RunTypes
  <2>2. /\ Len(wire'.frames) = Len(wire.frames) + 1 /\ wire'.frames[Len(wire.frames) + 1] = Out(p)
        /\ \A i \in 1..Len(wire.frames) : wire'.frames[i] = wire.frames[i]
        /\ ~Ends(wire'.frames) /\ Outs(wire'.frames, run.at) = Outs(wire.frames, run.at) + 1 /\ Len(wire.frames) \in Nat
    BY <2>1, FrameAdded DEF IsAdded
  <2>3. run.at \in {"creating", "created", "live"} => Exact
    BY <1>8 DEF Whole
  <2>4. run.at = "creating" => wire.frames # <<>>
    BY <2>1, <2>3 DEF Exact, Outs, Skipped
  <2>5. WireOK'
    <3>1. run.at = "creating" => wire'.frames[1] = Started
      BY <2>2, <2>4 DEF WireOK
    <3>2. \A i \in 1..Len(wire'.frames) : i \in 1..Len(wire.frames) \/ (i = Len(wire.frames) + 1 /\ wire'.frames[i].type = "out")
      BY <2>1, <2>2
    <3>3. \A i \in 1..Len(wire.frames) : wire.frames[i].type # "exit"
      BY <1>8 DEF WireOK
    <3> QED
      BY <1>1, <1>3, <1>6, <1>7, <1>8, <2>2, <3>1, <3>2, <3>3 DEF WireOK
  <2>6. Whole' => Exact'
    <3> SUFFICES ASSUME Whole' PROVE Exact'
      OBVIOUS
    <3> DEFINE n == Done(run)
               k == Len(session.pending)
               o == Outs(wire.frames, run.at)
               d == Skipped(run.at)
    <3>1. Exact /\ run.at \in {"creating", "created", "live"}
      BY <1>1, <2>3 DEF Whole
    <3>2. n \in Nat /\ k \in Nat /\ d \in Nat /\ d + o = Len(wire.frames) /\ o \in Nat
      BY <2>1, <3>1 DEF RunTypes, Runs, Sessions, Done, Outs, Skipped, Exact
    <3>3. n + k + o = Len(written) /\ (\A j \in 1..k : session.pending[j] = written[n + j])
          /\ (\A j \in 1..o : wire.frames[d + j] = Out(written[n + k + j]))
          /\ (run.tail => n = Len(written) /\ written[n] = "unfinished")
      BY <3>1 DEF Exact
    <3> HIDE DEF n, k, o, d
    <3>4. ~run.tail
      <4>1. run.tail => n \in 1..Len(written)
        BY <3>2, <3>3 DEF n, Done, RunTypes, Runs
      <4>2. Len(written) > 0 => Last(written) # "unfinished"
        BY <1>2 DEF Write
      <4> QED
        BY <3>3, <4>1, <4>2 DEF Last
    <3>5. \A j \in 1..k : session.pending[j] = written'[n + j]
      <4>1. \A j \in 1..k : n + j \in 1..Len(written)
        BY <3>2, <3>3
      <4> QED
        BY <1>2, <3>3, <4>1
    <3>6. \A j \in 1..(o + 1) : wire'.frames[d + j] = Out(written'[n + k + j])
      <4> SUFFICES ASSUME NEW j \in 1..(o + 1) PROVE wire'.frames[d + j] = Out(written'[n + k + j])
        OBVIOUS
      <4>1. CASE j = o + 1
        BY <1>2, <2>2, <3>2, <3>3, <4>1
      <4>2. CASE j \in 1..o
        <5>1. d + j \in 1..Len(wire.frames) /\ n + k + j \in 1..Len(written)
          BY <3>2, <3>3, <4>2
        <5> QED
          BY <1>2, <2>2, <3>3, <4>2, <5>1
      <4> QED
        BY <3>2, <4>1, <4>2
    <3>7. Outs(wire'.frames, run.at) = o + 1 /\ n + k + (o + 1) = Len(written')
      <4>1. Outs(wire'.frames, run.at) = o + 1
        BY <2>2 DEF o
      <4>2. n + k + (o + 1) = Len(written')
        BY <1>2, <3>2, <3>3
      <4> QED
        BY <4>1, <4>2
    <3>8. Done(run') = n /\ Len(session'.pending) = k /\ Skipped(run'.at) = d /\ run' = run /\ session' = session
          /\ Outs(wire'.frames, run'.at) = o + 1
      BY <1>1, <3>7 DEF n, k, d
    <3>9. o + 1 >= 0 /\ ~run'.tail
      BY <3>2, <3>4, <3>8
    <3> QED
      BY <3>5, <3>6, <3>7, <3>8, <3>9 DEF Exact
  <2> QED
    BY <1>4, <1>5, <2>5, <2>6
<1>9. CASE ~(wire.open /\ orch.route = "streaming")
  <2>1. wire'.frames = wire.frames
    BY <1>3, <1>9
  <2>2. WireOK'
    BY <1>1, <1>3, <1>6, <1>7, <2>1 DEF WireOK
  <2>3. ~Whole'
    BY <1>1, <1>3, <1>6, <1>9, <2>1 DEF Whole, Ends
  <2> QED
    BY <1>4, <1>5, <2>2, <2>3
<1> QED
  BY <1>8, <1>9

LEMMA RouteEndsStep ==
  ASSUME RunInv, NEW code \in Codes, orch.route = "streaming", RouteEnds(code), proc # "none",
         code # "null" => proc = "gone",
         UNCHANGED <<proc, written, calls, session, run>>, faults' \subseteq FaultKinds, orch.code \in Codes
  PROVE  RunInv'
<1> USE DEF RunInv
<1>1. orch' \in Routes /\ orch'.route = "over"
  BY DEF RunTypes, RouteEnds, Routes
<1>2. /\ wire' \in [frames : Seq(Frames), open : BOOLEAN] /\ wire'.open = FALSE
      /\ wire'.frames = IF wire.open THEN Append(wire.frames, ExitFrame(code)) ELSE wire.frames
      /\ wire.open => ~Ends(wire.frames)
  <2> DEFINE w == Sent(wire, ExitFrame(code))
  <2>1. /\ w \in [frames : Seq(Frames), open : BOOLEAN]
        /\ w.frames = IF wire.open THEN Append(wire.frames, ExitFrame(code)) ELSE wire.frames
        /\ wire.open => ~Ends(wire.frames)
    BY SentIs, Kinds
  <2>2. wire' = [w EXCEPT !.open = FALSE]
    BY DEF RouteEnds
  <2> HIDE DEF w
  <2> QED
    BY <2>1, <2>2
<1>3. RunTypes' /\ RunOK'
  BY <1>1, <1>2 DEF RunTypes, RunOK, Heading, Parses
<1>4. EndOK'
  BY DEF EndOK, HasExit
<1>5. CASE wire.open
  <2>1. ~Ends(wire.frames) /\ wire.frames \in Seq(Frames) /\ ExitFrame(code) \in Frames
        /\ ExitFrame(code).type = "exit" /\ ExitFrame(code).code = code
        /\ IsAdded(wire.frames, ExitFrame(code), wire'.frames)
    BY <1>2, <1>5, Kinds, AddedThere DEF RunTypes
  <2>2. /\ Len(wire'.frames) = Len(wire.frames) + 1 /\ wire'.frames[Len(wire.frames) + 1] = ExitFrame(code)
        /\ \A i \in 1..Len(wire.frames) : wire'.frames[i] = wire.frames[i]
        /\ Ends(wire'.frames) /\ Outs(wire'.frames, run.at) = Outs(wire.frames, run.at) /\ Len(wire.frames) \in Nat
    BY <2>1, FrameAdded DEF IsAdded
  <2>3. run.at \in {"creating", "created", "live"} => Exact
    BY <1>5 DEF Whole
  <2>4. run.at = "creating" => wire.frames # <<>>
    BY <2>1, <2>3 DEF Exact, Outs, Skipped
  <2>5. WireOK'
    <3>1. run.at = "creating" => wire'.frames[1] = Started
      BY <2>2, <2>4 DEF WireOK
    <3>2. \A i \in 1..Len(wire'.frames) :
            i \in 1..Len(wire.frames) \/ (i = Len(wire'.frames) /\ wire'.frames[i] = ExitFrame(code))
      BY <2>1, <2>2
    <3>3. \A i \in 1..Len(wire.frames) : wire.frames[i].type # "exit"
      BY <1>5 DEF WireOK
    <3>4. \A i \in 1..Len(wire'.frames) :
            /\ wire'.frames[i].type = "started" => i = 1 /\ run.at = "creating"
            /\ wire'.frames[i].type = "exit" => i = Len(wire'.frames) /\ (wire'.frames[i].code # "null" => proc = "gone")
      BY <2>1, <2>2, <3>2, <3>3 DEF WireOK
    <3> QED
      BY <1>1, <1>2, <1>5, <2>2, <3>1, <3>4 DEF WireOK
  <2>6. Whole' => Exact'
    <3> SUFFICES ASSUME Whole' PROVE Exact'
      OBVIOUS
    <3>1. Exact /\ Outs(wire.frames, run.at) + Skipped(run.at) = Len(wire.frames) /\ Skipped(run.at) \in Nat
      BY <2>1, <2>3 DEF Whole, Outs, Skipped
    <3>2. \A j \in 1..Outs(wire.frames, run.at) : wire'.frames[Skipped(run.at) + j] = wire.frames[Skipped(run.at) + j]
      <4>1. Outs(wire.frames, run.at) \in Int
        BY <2>2, <3>1 DEF Outs, Skipped
      <4>2. \A j \in 1..Outs(wire.frames, run.at) : Skipped(run.at) + j \in 1..Len(wire.frames)
        BY <2>2, <3>1, <4>1
      <4> QED
        BY <2>2, <4>2
    <3> QED
      BY <2>2, <3>1, <3>2 DEF Exact
  <2> QED
    BY <1>3, <1>4, <2>5, <2>6
<1>6. CASE ~wire.open
  <2>1. wire'.frames = wire.frames /\ wire'.open = wire.open
    BY <1>2, <1>6 DEF RunTypes
  <2>2. WireOK'
    BY <1>1, <2>1 DEF WireOK
  <2>3. Whole' => Whole
    BY <1>1, <2>1 DEF Whole, Ends
  <2>4. Whole' => Exact'
    BY <2>1, <2>3 DEF Exact
  <2> QED
    BY <1>3, <1>4, <2>2, <2>4
<1> QED
  BY <1>5, <1>6

LEMMA ExecDoneStep == ASSUME RunInv, ExecDone PROVE RunInv'
<1>1. orch.code \in Codes /\ faults' \subseteq FaultKinds
  BY DEF RunInv, RunTypes, Routes, ExecDone
<1> QED
  BY <1>1, RouteEndsStep DEF ExecDone, container

LEMMA StreamBreaksStep == ASSUME RunInv, StreamBreaks PROVE RunInv'
<1>1. orch.code \in Codes /\ "null" \in Codes /\ faults' \subseteq FaultKinds
  BY DEF RunInv, RunTypes, Routes, StreamBreaks, Fault, FaultKinds, Codes
<1> QED
  BY <1>1, RouteEndsStep DEF StreamBreaks, container, Alive

(* What the pump or createTerminal() has read is off the response. *)
LEMMA TakenIs ==
  ASSUME RunInv, wire.frames # <<>>
  PROVE  Taken(wire) \in [frames : Seq(Frames), open : BOOLEAN] /\ Taken(wire).open = wire.open
         /\ Taken(wire).frames = Tail(wire.frames)
<1>1. wire \in [frames : Seq(Frames), open : BOOLEAN]
  BY DEF RunInv, RunTypes
<1>2. Tail(wire.frames) \in Seq(Frames)
  BY <1>1
<1> QED
  BY <1>1, <1>2 DEF Taken

LEMMA CreateStep == ASSUME RunInv, Create PROVE RunInv'
<1> USE DEF RunInv
<1>1. run.at = "creating" /\ UNCHANGED <<proc, written, orch, calls, session, faults>>
  BY DEF Create, container
<1>2. CASE wire.frames = <<>> /\ ~wire.open /\ run' = [run EXCEPT !.at = "failed"] /\ UNCHANGED wire
  <2>1. run' \in Runs /\ run'.at = "failed"
    BY <1>2 DEF RunTypes, Runs
  <2>2. RunTypes' /\ RunOK'
    BY <1>1, <1>2, <2>1 DEF RunTypes, RunOK, Heading
  <2>3. WireOK'
    BY <1>1, <1>2, <2>1 DEF WireOK
  <2> QED
    BY <2>1, <2>2, <2>3 DEF Whole, EndOK
<1>3. CASE wire.frames # <<>> /\ wire' = Taken(wire) /\ run' = [run EXCEPT !.at = "created"]
  <2>1. /\ run' \in Runs /\ run'.at = "created" /\ run'.events = run.events /\ run'.tail = run.tail
        /\ run'.saw = run.saw
    BY <1>3 DEF RunTypes, Runs
  <2>2. /\ wire' \in [frames : Seq(Frames), open : BOOLEAN] /\ wire'.open = wire.open
        /\ wire'.frames = Tail(wire.frames) /\ wire.frames[1] = Started /\ wire.frames \in Seq(Frames)
    BY <1>1, <1>3, TakenIs DEF WireOK, RunTypes
  <2>3. /\ Len(wire'.frames) = Len(wire.frames) - 1 /\ (\A i \in 1..Len(wire'.frames) : wire'.frames[i] = wire.frames[i + 1])
        /\ (Ends(wire'.frames) <=> Ends(wire.frames))
        /\ (Ends(wire'.frames) => wire'.frames[Len(wire'.frames)] = wire.frames[Len(wire.frames)])
        /\ Len(wire.frames) \in Nat \ {0}
    <3>1. wire.frames[1].type # "exit" /\ IsRest(wire.frames, wire'.frames) /\ wire.frames \in Seq(Frames)
      BY <1>3, <2>2, Kinds, RestThere
    <3> QED
      BY <3>1, FrameTaken DEF IsRest
  <2>4. RunTypes' /\ RunOK'
    BY <1>1, <2>1, <2>2 DEF RunTypes, RunOK, Heading
  <2>5. WireOK'
    <3>1. \A i \in 1..Len(wire'.frames) :
            /\ wire'.frames[i].type # "started"
            /\ wire'.frames[i].type = "exit" =>
                 i = Len(wire'.frames) /\ ~wire'.open /\ (wire'.frames[i].code # "null" => proc = "gone")
      <4> SUFFICES ASSUME NEW i \in 1..Len(wire'.frames)
                   PROVE  /\ wire'.frames[i].type # "started"
                          /\ wire'.frames[i].type = "exit" =>
                               i = Len(wire'.frames) /\ ~wire'.open /\ (wire'.frames[i].code # "null" => proc = "gone")
        OBVIOUS
      <4>1. i + 1 \in 1..Len(wire.frames) /\ i + 1 # 1
        BY <2>3
      <4> QED
        BY <2>2, <2>3, <4>1 DEF WireOK
    <3> QED
      BY <1>1, <1>3, <2>1, <2>2, <3>1 DEF WireOK
  <2>6. Whole' => Exact'
    <3> SUFFICES ASSUME Whole' PROVE Exact'
      OBVIOUS
    <3>1. Whole
      BY <1>1, <2>1, <2>2, <2>3 DEF Whole
    <3>2. Exact /\ Skipped(run.at) = 1 /\ Skipped(run'.at) = 0
      BY <1>1, <2>1, <3>1 DEF Skipped
    <3>3. Outs(wire'.frames, run'.at) = Outs(wire.frames, run.at) /\ Done(run') = Done(run)
          /\ Outs(wire.frames, run.at) <= Len(wire'.frames) /\ Outs(wire.frames, run.at) \in Int
      <4>1. Done(run') = Done(run)
        BY <2>1 DEF Done
      <4>2. wire.frames \in Seq(Frames) /\ wire.frames # <<>> /\ wire.frames[1].type # "exit"
            /\ IsRest(wire.frames, wire'.frames)
        BY <1>3, <2>2, Kinds, RestThere
      <4>3. Outs(wire.frames, run.at) \in Int /\ Outs(wire.frames, run.at) <= Len(wire.frames) - Skipped(run.at)
            /\ Outs(wire'.frames, run'.at) = Outs(wire.frames, run.at) + Skipped(run.at) - Skipped(run'.at) - 1
        BY <4>2, OutsTaken
      <4> QED
        BY <2>3, <3>2, <4>1, <4>3
    <3>4. \A j \in 1..Outs(wire.frames, run.at) : wire'.frames[0 + j] = wire.frames[1 + j]
      <4> SUFFICES ASSUME NEW j \in 1..Outs(wire.frames, run.at) PROVE wire'.frames[0 + j] = wire.frames[1 + j]
        OBVIOUS
      <4>1. j \in 1..Len(wire'.frames) /\ 0 + j = j /\ 1 + j = j + 1
        BY <2>3, <3>3
      <4> QED
        BY <2>3, <4>1
    <3> QED
      BY <1>1, <2>1, <3>2, <3>3, <3>4 DEF Exact
  <2> QED
    BY <2>1, <2>4, <2>5, <2>6 DEF EndOK
<1> QED
  BY <1>2, <1>3 DEF Create

(* A run that settles: with an exit only if it has everything. *)
LEMMA SettledOK ==
  ASSUME RunInv, NEW r \in Runs, r.at = "live", Parses(r), NEW c \in Codes, run' = Settled(r, c),
         c # "null" => proc = "gone" /\ Done(r) = Len(written),
         UNCHANGED <<proc, written>>, session'.listening, session'.pending = <<>>
  PROVE  run' \in Runs /\ run'.at = "ended" /\ RunOK' /\ EndOK' /\ ~Whole'
<1>1. /\ run' \in Runs /\ run'.at = "ended" /\ Len(run'.events) = Done(r) + 1
      /\ \A i \in 1..Done(r) : run'.events[i] \in {Told, Result}
      /\ run'.events[Len(run'.events)] = OnExit(r, c)
      /\ \E i \in 1..Len(run'.events) : run'.events[i].type = "finished"
  BY SettledIs
<1>2. Done(r) \in Nat
  BY DEF Done, Runs
<1>3. OnExit(r, c) \notin {Told, Result} /\ (OnExit(r, c) = Exited => c = "ok")
      /\ (OnExit(r, c) # Exited => OnExit(r, c).code = c)
  BY OnExitIs
<1>4. RunOK'
  BY <1>1, <1>2, <1>3 DEF RunOK, Heading
<1>5. HasExit' => c # "null"
  BY <1>1, <1>3 DEF HasExit
<1>6. EndOK'
  BY <1>1, <1>2, <1>5 DEF EndOK
<1> QED
  BY <1>1, <1>4, <1>6 DEF Whole

LEMMA GraceStep == ASSUME RunInv, Grace PROVE RunInv'
<1> USE DEF RunInv
<1>1. UNCHANGED <<proc, written, orch, wire, calls, session, faults>> /\ run' = Settled(run, "null") /\ "null" \in Codes
      /\ run \in Runs
  BY DEF Grace, container, RunTypes, Codes
<1>2. CASE run.at = "live"
  <2>1. Parses(run) /\ session.listening /\ session.pending = <<>>
    BY <1>2 DEF RunOK
  <2>2. run' \in Runs /\ run'.at = "ended" /\ RunOK' /\ EndOK' /\ ~Whole'
    BY <1>1, <1>2, <2>1, SettledOK
  <2>3. RunTypes'
    BY <1>1, <2>2 DEF RunTypes
  <2>4. WireOK'
    BY <1>1, <1>2, <2>2 DEF WireOK
  <2> QED
    BY <2>2, <2>3, <2>4
<1>3. CASE run.at # "live"
  <2>1. run' = run
    BY <1>1, <1>3 DEF Settled
  <2>2. RunTypes'
    BY <1>1, <2>1 DEF RunTypes
  <2> QED
    BY <1>1, <2>1, <2>2, Aside
<1> QED
  BY <1>2, <1>3

(* The response without its next frame, which is not the first of all. *)
LEMMA TakenWire ==
  ASSUME RunInv, run.at \in {"created", "live", "ended"}, wire.frames # <<>>, wire' = Taken(wire),
         UNCHANGED <<proc, written, orch>>, run'.at \in {"created", "live", "ended"},
         \/ session'.exit = session.exit
         \/ session'.ended /\ session'.exit = wire.frames[1].code /\ wire.frames[1].type = "exit"
  PROVE  /\ wire' \in [frames : Seq(Frames), open : BOOLEAN] /\ wire'.open = wire.open
         /\ IsRest(wire.frames, wire'.frames) /\ wire.frames \in Seq(Frames) /\ WireOK'
         /\ \/ wire.frames[1].type = "out" /\ wire.frames[1].data \in Pieces /\ wire.frames[1] = Out(wire.frames[1].data)
            \/ /\ wire.frames[1].type = "exit" /\ wire.frames[1].code \in Codes /\ wire'.frames = <<>> /\ ~wire.open
               /\ Ends(wire.frames) /\ Len(wire.frames) = 1 /\ (wire.frames[1].code # "null" => proc = "gone")
<1> USE DEF RunInv
<1> DEFINE f == wire.frames[1]
<1>1. /\ wire' \in [frames : Seq(Frames), open : BOOLEAN] /\ wire'.open = wire.open
      /\ IsRest(wire.frames, wire'.frames) /\ wire.frames \in Seq(Frames) /\ f \in Frames
      /\ Len(wire.frames) \in Nat \ {0} /\ wire \in [frames : Seq(Frames), open : BOOLEAN]
  <2>1. wire \in [frames : Seq(Frames), open : BOOLEAN] /\ wire.frames \in Seq(Frames)
    BY DEF RunTypes
  <2>2. IsRest(wire.frames, Tail(wire.frames)) /\ f \in Frames
    BY <2>1, RestThere
  <2>3. Len(wire.frames) \in Nat \ {0}
    BY <2>2 DEF IsRest
  <2> QED
    BY <2>1, <2>2, <2>3, TakenIs
<1>2. 1 \in 1..Len(wire.frames)
  BY <1>1
<1>3. f.type # "started"
  BY <1>2 DEF WireOK
<1>4. \/ f.type = "out" /\ f.data \in Pieces /\ f = Out(f.data)
      \/ f.type = "exit" /\ f.code \in Codes
  BY <1>1, <1>3, FrameKinds
<1>5. f.type = "exit" => 1 = Len(wire.frames) /\ ~wire.open /\ (f.code # "null" => proc = "gone")
  BY <1>2 DEF WireOK
<1>6. f.type = "exit" => Ends(wire.frames) /\ wire'.frames = <<>>
  BY <1>1, <1>5 DEF Ends, IsRest
<1>7. session.exit = "null"
  BY DEF WireOK
<1>8. proc # "none" /\ orch.route \notin {"none", "starting"}
  BY DEF WireOK
<1>9. \A i \in 1..Len(wire'.frames) :
        /\ wire'.frames[i].type # "started"
        /\ wire'.frames[i].type = "exit" =>
             i = Len(wire'.frames) /\ ~wire'.open /\ (wire'.frames[i].code # "null" => proc = "gone")
  <2> SUFFICES ASSUME NEW i \in 1..Len(wire'.frames)
               PROVE  /\ wire'.frames[i].type # "started"
                      /\ wire'.frames[i].type = "exit" =>
                           i = Len(wire'.frames) /\ ~wire'.open /\ (wire'.frames[i].code # "null" => proc = "gone")
    OBVIOUS
  <2>1. /\ i + 1 \in 1..Len(wire.frames) /\ i + 1 # 1 /\ wire'.frames[i] = wire.frames[i + 1]
        /\ (i + 1 = Len(wire.frames) => i = Len(wire'.frames))
    BY <1>1 DEF IsRest
  <2> QED
    BY <1>1, <2>1 DEF WireOK
<1>10. WireOK'
  <2>1. session'.exit # "null" => session'.ended /\ proc = "gone" /\ wire'.frames = <<>> /\ ~wire'.open
    BY <1>1, <1>5, <1>6, <1>7
  <2> QED
    BY <1>8, <1>9, <2>1 DEF WireOK
<1> QED
  BY <1>1, <1>4, <1>5, <1>6, <1>10

LEMMA KeptIs ==
  ASSUME NEW p \in Pieces, session \in Sessions, ~session.listening
  PROVE  LET s == Kept(session, p) IN
           /\ s \in Sessions /\ s.listening = session.listening /\ s.ended = session.ended /\ s.exit = session.exit
           /\ s.pending = Append(session.pending, p)
<1>1. Append(session.pending, p) \in Seq(Pieces)
  BY DEF Sessions
<1> QED
  BY <1>1 DEF Kept, Sessions

(* The pump takes a piece that nobody listens to yet, *)
LEMMA PumpKeeps ==
  ASSUME RunInv, Pump, wire.frames[1].type = "out", run.at = "created"
  PROVE  RunInv'
<1> USE DEF RunInv
<1> DEFINE f == wire.frames[1]
           n == Done(run)
           k == Len(session.pending)
           o == Outs(wire.frames, run.at)
           d == Skipped(run.at)
<1>1. ~session.listening /\ wire.frames # <<>> /\ Head(wire.frames) = f /\ session \in Sessions
      /\ UNCHANGED <<proc, written, orch, calls, faults>> /\ wire' = Taken(wire)
  BY RestThere DEF RunOK, Heading, RunTypes, Pump, container
<1>2. run' = run /\ session' = Kept(session, f.data)
  BY <1>1 DEF Pump, Heard
<1>3. f.data \in Pieces /\ f = Out(f.data)
  <2>1. f \in Frames
    BY <1>1, RestThere DEF RunTypes
  <2> QED
    BY <2>1, FrameKinds
<1>4. /\ session' \in Sessions /\ session'.listening = session.listening /\ session'.ended = session.ended
      /\ session'.exit = session.exit /\ session'.pending = Append(session.pending, f.data)
  BY <1>1, <1>2, <1>3, KeptIs
<1>5. /\ wire' \in [frames : Seq(Frames), open : BOOLEAN] /\ wire'.open = wire.open
      /\ IsRest(wire.frames, wire'.frames) /\ wire.frames \in Seq(Frames) /\ WireOK'
  BY <1>1, <1>2, <1>4, TakenWire
<1>6. RunTypes'
  BY <1>1, <1>2, <1>4, <1>5 DEF RunTypes
<1>7. RunOK' /\ EndOK'
  BY <1>1, <1>2, <1>4 DEF RunOK, Heading, EndOK
<1>8. (Whole => Exact)'
  <2> SUFFICES ASSUME Whole' PROVE Exact'
    OBVIOUS
  <2>1. (Ends(wire'.frames) <=> Ends(wire.frames))
        /\ (Ends(wire'.frames) => wire'.frames[Len(wire'.frames)] = wire.frames[Len(wire.frames)])
    BY <1>5, FrameTaken
  <2>2. Whole
    BY <1>1, <1>2, <1>4, <1>5, <2>1 DEF Whole
  <2>3. o \in Int /\ Outs(wire'.frames, run'.at) = o + d - d - 1 /\ o <= Len(wire.frames) - d
    BY <1>2, <1>5, OutsTaken
  <2>4. n \in Nat /\ k \in Nat /\ d = 0 /\ n + k + o = Len(written) /\ o >= 0
        /\ (\A j \in 1..k : session.pending[j] = written[n + j])
        /\ (\A j \in 1..o : wire.frames[d + j] = Out(written[n + k + j]))
        /\ (run.tail => n = Len(written) /\ written[n] = "unfinished")
    BY <2>2 DEF RunTypes, Runs, Sessions, Done, Exact, Skipped
  <2>5. session.pending \in Seq(Pieces) /\ Len(written) \in Nat
    BY DEF RunTypes, Sessions
  <2>6. Len(session'.pending) = k + 1 /\ session'.pending[k + 1] = f.data
        /\ \A j \in 1..k : session'.pending[j] = session.pending[j]
    BY <1>3, <1>4, <2>5
  <2>7. o > 0
    <3>1. f.type # "exit" /\ Len(wire.frames) \in Nat \ {0}
      BY <1>5 DEF IsRest
    <3>2. Ends(wire.frames) => Len(wire.frames) > 1
      BY <3>1 DEF Ends
    <3> QED
      BY <2>4, <3>1, <3>2 DEF Outs
  <2>8. f.data = written[n + k + 1]
    <3>1. wire.frames[d + 1] = Out(written[n + k + 1]) /\ d + 1 = 1
      BY <2>3, <2>4, <2>7
    <3> QED
      BY <3>1 DEF Out
  <2> HIDE DEF n, k, o, d
  <2>9. \A j \in 1..(k + 1) : session'.pending[j] = written[n + j]
    <3> SUFFICES ASSUME NEW j \in 1..(k + 1) PROVE session'.pending[j] = written[n + j]
      OBVIOUS
    <3>1. j = k + 1 \/ j \in 1..k
      BY <2>4
    <3>2. n + (k + 1) = n + k + 1
      BY <2>4
    <3> QED
      BY <2>4, <2>6, <2>8, <3>1, <3>2
  <2>10. \A j \in 1..(o - 1) : wire'.frames[d + j] = Out(written[n + (k + 1) + j])
    <3> SUFFICES ASSUME NEW j \in 1..(o - 1) PROVE wire'.frames[d + j] = Out(written[n + (k + 1) + j])
      OBVIOUS
    <3>1. d + j = j /\ j + 1 \in 1..o /\ d + (j + 1) = j + 1 /\ n + k + (j + 1) = n + (k + 1) + j
          /\ j \in 1..(Len(wire.frames) - 1)
      BY <2>3, <2>4
    <3>2. wire'.frames[j] = wire.frames[j + 1]
      BY <1>5, <3>1 DEF IsRest
    <3>3. wire.frames[d + (j + 1)] = Out(written[n + k + (j + 1)])
      BY <2>4, <3>1
    <3> QED
      BY <3>1, <3>2, <3>3
  <2>11. Done(run') = n /\ Skipped(run'.at) = d /\ run'.tail = run.tail /\ written' = written
    BY <1>1, <1>2 DEF n, d
  <2>12. Outs(wire'.frames, run'.at) = o - 1 /\ o - 1 >= 0 /\ n + (k + 1) + (o - 1) = Len(written)
    BY <2>3, <2>4, <2>7, SMTT(60)
  <2> QED
    BY <2>4, <2>6, <2>9, <2>10, <2>11, <2>12 DEF Exact
<1> QED
  BY <1>5, <1>6, <1>7, <1>8

(* a piece that the run parses, *)
LEMMA PumpParses ==
  ASSUME RunInv, Pump, wire.frames[1].type = "out", run.at = "live"
  PROVE  RunInv'
<1> USE DEF RunInv
<1> DEFINE f == wire.frames[1]
           n == Done(run)
           o == Outs(wire.frames, run.at)
           d == Skipped(run.at)
<1>1. session.listening /\ session.pending = <<>> /\ wire.frames # <<>> /\ Head(wire.frames) = f /\ session \in Sessions
      /\ UNCHANGED <<proc, written, orch, calls, faults>> /\ wire' = Taken(wire) /\ run \in Runs /\ Parses(run)
  BY RestThere DEF RunOK, RunTypes, Pump, container
<1>2. run' = Parsed(run, f.data) /\ session' = session
  BY <1>1 DEF Pump, Heard, Kept
<1>3. f.data \in Pieces /\ f = Out(f.data)
  <2>1. f \in Frames
    BY <1>1, RestThere DEF RunTypes
  <2> QED
    BY <2>1, FrameKinds
<1>4. run' \in Runs /\ run'.at = "live" /\ Parses(run')
  BY <1>1, <1>2, <1>3, ParsedIs, ParsedParses
<1>5. /\ wire' \in [frames : Seq(Frames), open : BOOLEAN] /\ wire'.open = wire.open
      /\ IsRest(wire.frames, wire'.frames) /\ wire.frames \in Seq(Frames) /\ WireOK'
  BY <1>1, <1>2, <1>4, TakenWire
<1>6. RunTypes'
  BY <1>1, <1>2, <1>4, <1>5 DEF RunTypes
<1>7. RunOK' /\ EndOK'
  BY <1>1, <1>2, <1>4 DEF RunOK, Heading, EndOK
<1>8. (Whole => Exact)'
  <2> SUFFICES ASSUME Whole' PROVE Exact'
    OBVIOUS
  <2>1. (Ends(wire'.frames) <=> Ends(wire.frames))
        /\ (Ends(wire'.frames) => wire'.frames[Len(wire'.frames)] = wire.frames[Len(wire.frames)])
    BY <1>5, FrameTaken
  <2>2. Whole
    BY <1>1, <1>2, <1>4, <1>5, <2>1 DEF Whole
  <2>3. o \in Int /\ Outs(wire'.frames, run'.at) = o + d - Skipped(run'.at) - 1 /\ o <= Len(wire.frames) - d
    BY <1>2, <1>5, OutsTaken
  <2>4. n \in Nat /\ d = 0 /\ Skipped(run'.at) = 0 /\ n + 0 + o = Len(written) /\ o >= 0
        /\ (\A j \in 1..o : wire.frames[d + j] = Out(written[n + 0 + j]))
        /\ (run.tail => n = Len(written) /\ written[n] = "unfinished")
    BY <1>1, <1>4, <2>2 DEF Runs, Done, Exact, Skipped
  <2>5. o > 0
    <3>1. f.type # "exit" /\ Len(wire.frames) \in Nat \ {0}
      BY <1>5 DEF IsRest
    <3>2. Ends(wire.frames) => Len(wire.frames) > 1
      BY <3>1 DEF Ends
    <3> QED
      BY <2>4, <3>1, <3>2 DEF Outs
  <2>6. f.data = written[n + 1]
    <3>1. wire.frames[d + 1] = Out(written[n + 0 + 1]) /\ d + 1 = 1 /\ n + 0 + 1 = n + 1
      BY <2>3, <2>4, <2>5
    <3> QED
      BY <3>1 DEF Out
  <2>7. ~run.tail
    BY <2>3, <2>4, <2>5
  <2>8. Done(run') = n + 1 /\ (run'.tail => f.data = "unfinished")
    <3>1. CASE f.data = "unfinished"
      <4>1. run'.tail /\ run'.events = run.events
        BY <1>1, <1>2, <1>3, <3>1, ParsedIs
      <4> QED
        BY <1>1, <2>7, <3>1, <4>1 DEF Done, Runs
    <3>2. CASE f.data # "unfinished"
      <4> DEFINE e == IF f.data = "result" THEN Result ELSE Told
      <4>1. run'.tail = run.tail /\ run'.events = Append(run.events, e)
        BY <1>1, <1>2, <1>3, <3>2, ParsedIs
      <4>2. run.events \in Seq(Event) /\ e \in Event
        BY <1>1, Kinds DEF Runs
      <4> HIDE DEF e
      <4>3. Len(run'.events) = Len(run.events) + 1
        BY <4>1, <4>2
      <4> QED
        BY <2>7, <4>1, <4>2, <4>3 DEF Done
    <3> QED
      BY <3>1, <3>2
  <2>9. run'.tail => n + 1 = Len(written)
    <3>1. n + 1 \in 1..Len(written)
      BY <2>3, <2>4, <2>5
    <3> QED
      BY <2>6, <2>8, <3>1 DEF WireOK
  <2> HIDE DEF n, o, d
  <2>10. \A j \in 1..(o - 1) : wire'.frames[0 + j] = Out(written[(n + 1) + 0 + j])
    <3> SUFFICES ASSUME NEW j \in 1..(o - 1) PROVE wire'.frames[0 + j] = Out(written[(n + 1) + 0 + j])
      OBVIOUS
    <3>1. 0 + j = j /\ j + 1 \in 1..o /\ d + (j + 1) = j + 1 /\ n + 0 + (j + 1) = (n + 1) + 0 + j
          /\ j \in 1..(Len(wire.frames) - 1)
      BY <2>3, <2>4
    <3>2. wire'.frames[j] = wire.frames[j + 1]
      BY <1>5, <3>1 DEF IsRest
    <3>3. wire.frames[d + (j + 1)] = Out(written[n + 0 + (j + 1)])
      BY <2>4, <3>1
    <3> QED
      BY <3>1, <3>2, <3>3
  <2>11. Outs(wire'.frames, run'.at) = o - 1 /\ o - 1 >= 0 /\ (n + 1) + 0 + (o - 1) = Len(written)
    <3>1. o + 0 - 0 - 1 = o - 1 /\ o - 1 >= 0
      BY <2>3, <2>5
    <3>2. Outs(wire'.frames, run'.at) = o + 0 - 0 - 1
      BY <2>3, <2>4
    <3>3. (n + 1) + 0 + (o - 1) = n + 0 + o
      BY <2>3, <2>4
    <3> QED
      BY <2>4, <3>1, <3>2, <3>3
  <2>12. Len(session'.pending) = 0 /\ written' = written /\ Done(run') = n + 1 /\ Skipped(run'.at) = 0
    BY <1>1, <1>2, <2>4, <2>8
  <2>13. run'.tail => n + 1 = Len(written) /\ written[n + 1] = "unfinished"
    BY <2>6, <2>8, <2>9
  <2>14. \A j \in 1..0 : session'.pending[j] = written[n + 1 + j]
    OBVIOUS
  <2> QED
    BY <2>10, <2>11, <2>12, <2>13, <2>14, Zenon DEF Exact
<1> QED
  BY <1>5, <1>6, <1>7, <1>8

(* a piece that comes too late, *)
LEMMA PumpPasses ==
  ASSUME RunInv, Pump, wire.frames[1].type = "out", run.at = "ended"
  PROVE  RunInv'
<1> USE DEF RunInv
<1>1. session.listening /\ wire.frames # <<>> /\ Head(wire.frames) = wire.frames[1]
      /\ UNCHANGED <<proc, written, orch, calls, faults>> /\ wire' = Taken(wire)
  BY RestThere DEF RunOK, RunTypes, Pump, container
<1>2. run' = run /\ session' = session
  BY <1>1 DEF Pump, Heard, Kept
<1>3. wire' \in [frames : Seq(Frames), open : BOOLEAN] /\ WireOK'
  BY <1>1, <1>2, TakenWire
<1>4. RunTypes' /\ RunOK' /\ EndOK' /\ ~Whole'
  BY <1>1, <1>2, <1>3 DEF RunTypes, RunOK, Heading, Parses, EndOK, HasExit, Whole
<1> QED
  BY <1>3, <1>4

(* or the exit. *)
LEMMA PumpExits ==
  ASSUME RunInv, Pump, wire.frames[1].type = "exit"
  PROVE  RunInv'
<1> USE DEF RunInv
<1> DEFINE c == wire.frames[1].code
<1>1. /\ run.at \in {"created", "live", "ended"} /\ wire.frames # <<>> /\ Head(wire.frames) = wire.frames[1]
      /\ session \in Sessions /\ run \in Runs
      /\ UNCHANGED <<proc, written, orch, calls, faults>> /\ wire' = Taken(wire)
      /\ wire.frames \in Seq(Frames)
  BY RestThere DEF RunTypes, Pump, container
<1>2. run' = RunTold(session, run, c) /\ session' = SessionSettled(session, c)
  BY <1>1 DEF Pump
<1>3. c \in Codes
  BY <1>1, RestThere, FrameKinds
<1>4. /\ session' \in Sessions /\ session'.listening = session.listening /\ session'.pending = session.pending
      /\ session'.ended = TRUE
      /\ session'.exit = IF session.ended THEN session.exit ELSE c
  BY <1>1, <1>2, <1>3 DEF SessionSettled, Sessions
<1>5. run' = run \/ (run.at = "live" /\ ~session.ended /\ run' = Settled(run, c))
  BY <1>2 DEF RunTold, Settled
<1>6. run'.at \in {"created", "live", "ended"}
  <2>1. run.at = "live" => Parses(run)
    BY DEF RunOK
  <2> QED
    BY <1>1, <1>3, <1>5, <2>1, SettledIs
<1>7. /\ wire' \in [frames : Seq(Frames), open : BOOLEAN] /\ WireOK'
      /\ wire'.frames = <<>> /\ ~wire.open /\ wire'.open = wire.open
      /\ Ends(wire.frames) /\ Len(wire.frames) = 1 /\ (c # "null" => proc = "gone")
  BY <1>1, <1>4, <1>6, TakenWire
<1>8. ASSUME c # "null", run.at \in {"created", "live"}
      PROVE  Exact /\ Outs(wire.frames, run.at) = 0 /\ Skipped(run.at) = 0
  <2>1. Whole
    BY <1>7, <1>8 DEF Whole
  <2> QED
    BY <1>7, <1>8, <2>1 DEF Outs, Skipped
<1>9. CASE run' = run
  <2>1. RunTypes' /\ RunOK' /\ EndOK'
    BY <1>1, <1>4, <1>7, <1>9 DEF RunTypes, RunOK, Heading, Parses, EndOK, HasExit
  <2>2. (Whole => Exact)'
    <3> SUFFICES ASSUME Whole' PROVE Exact'
      OBVIOUS
    <3>1. session'.exit # "null" /\ run.at \in {"created", "live"}
      BY <1>1, <1>7, <1>9 DEF Whole, Ends
    <3>2. c # "null"
      BY <1>1, <1>4, <3>1 DEF WireOK
    <3>3. Exact /\ Outs(wire.frames, run.at) = 0 /\ Skipped(run.at) = 0
      BY <1>8, <3>1, <3>2
    <3>4. Outs(wire'.frames, run'.at) = 0
      BY <1>7, <1>9, <3>3 DEF Outs, Ends
    <3> QED
      BY <1>1, <1>4, <1>9, <3>3, <3>4 DEF Exact
  <2> QED
    BY <1>7, <2>1, <2>2
<1>10. CASE run.at = "live" /\ ~session.ended /\ run' = Settled(run, c)
  <2>1. session.listening /\ session.pending = <<>> /\ Parses(run)
    BY <1>10 DEF RunOK
  <2>2. c # "null" => proc = "gone" /\ Done(run) = Len(written)
    <3> SUFFICES ASSUME c # "null" PROVE Done(run) = Len(written)
      BY <1>7
    <3>1. Exact /\ Outs(wire.frames, run.at) = 0 /\ Len(session.pending) = 0
      BY <1>8, <1>10, <2>1
    <3>2. Done(run) \in Nat
      BY <1>1 DEF Done, Runs
    <3> QED
      BY <3>1, <3>2 DEF Exact
  <2>3. run' \in Runs /\ RunOK' /\ EndOK' /\ ~Whole'
    BY <1>1, <1>3, <1>4, <1>10, <2>1, <2>2, SettledOK
  <2>4. RunTypes'
    BY <1>1, <1>4, <1>7, <2>3 DEF RunTypes
  <2> QED
    BY <1>7, <2>3, <2>4
<1> QED
  BY <1>5, <1>9, <1>10

LEMMA PumpStep == ASSUME RunInv, Pump PROVE RunInv'
<1>1. wire.frames \in Seq(Frames) /\ wire.frames # <<>> /\ run.at \in {"created", "live", "ended"}
  BY DEF RunInv, RunTypes, Pump
<1>2. wire.frames[1].type \in {"out", "exit"}
  <2>1. wire.frames[1] \in Frames /\ Len(wire.frames) \in Nat \ {0}
    BY <1>1, RestThere DEF IsRest
  <2>2. 1 \in 1..Len(wire.frames)
    BY <2>1
  <2>3. wire.frames[1].type # "started"
    BY <1>1, <2>2 DEF RunInv, WireOK
  <2> QED
    BY <2>1, <2>3, FrameKinds
<1> QED
  BY <1>1, <1>2, PumpKeeps, PumpParses, PumpPasses, PumpExits

LEMMA PumpEndsStep == ASSUME RunInv, PumpEnds PROVE RunInv'
<1> USE DEF RunInv
<1>1. /\ run.at \in {"created", "live", "ended"} /\ wire.frames = <<>> /\ ~wire.open
      /\ session \in Sessions /\ run \in Runs /\ session.exit \in Codes
      /\ UNCHANGED <<proc, written, orch, wire, calls, faults>>
  BY DEF RunTypes, PumpEnds, container, Sessions
<1>2. /\ session' \in Sessions /\ session'.listening = session.listening /\ session'.pending = session.pending
      /\ session'.ended = TRUE /\ session'.exit = session.exit
  <2> DEFINE s == SessionSettled(session, session.exit)
  <2>1. /\ s \in Sessions /\ s.listening = session.listening /\ s.pending = session.pending
        /\ s.ended = TRUE /\ s.exit = session.exit
    BY <1>1 DEF SessionSettled, Sessions
  <2>2. PICK t \in {0, MaxTries} : session' = [s EXCEPT !.pumping = FALSE, !.tries = t]
    BY DEF PumpEnds
  <2>3. t \in 0..MaxTries
    BY AgentRunAssumption
  <2> HIDE DEF s
  <2> QED
    BY <2>1, <2>2, <2>3 DEF Sessions
<1>3. run' = run \/ (run.at = "live" /\ ~session.ended /\ run' = Settled(run, session.exit))
  BY DEF PumpEnds, RunTold, Settled
<1>4. CASE run' = run
  <2>1. RunTypes' /\ RunOK' /\ EndOK'
    BY <1>1, <1>2, <1>4 DEF RunTypes, RunOK, Heading, Parses, EndOK, HasExit
  <2>2. WireOK'
    BY <1>1, <1>2, <1>4 DEF WireOK
  <2>3. Whole' => Whole
    BY <1>1, <1>2, <1>4 DEF Whole
  <2>4. Whole' => Exact'
    BY <1>1, <1>2, <1>4, <2>3 DEF Exact
  <2> QED
    BY <2>1, <2>2, <2>4
<1>5. CASE run.at = "live" /\ ~session.ended /\ run' = Settled(run, session.exit)
  <2>1. session.listening /\ session.pending = <<>> /\ Parses(run) /\ session.exit = "null"
    BY <1>5 DEF RunOK, WireOK
  <2>2. run' \in Runs /\ run'.at = "ended" /\ RunOK' /\ EndOK' /\ ~Whole'
    BY <1>1, <1>2, <1>5, <2>1, SettledOK
  <2>3. RunTypes'
    BY <1>1, <1>2, <2>2 DEF RunTypes
  <2>4. WireOK'
    BY <1>1, <1>2, <1>5, <2>2 DEF WireOK
  <2> QED
    BY <2>2, <2>3, <2>4
<1> QED
  BY <1>3, <1>4, <1>5

-----------------------------------------------------------------------------
(* What was kept is replayed. *)

LEMMA ParsedDone ==
  ASSUME NEW r \in Runs, NEW p \in Pieces, ~r.tail
  PROVE  Done(Parsed(r, p)) = Done(r) + 1 /\ (Parsed(r, p).tail => p = "unfinished")
<1> DEFINE s == Parsed(r, p)
           e == IF p = "result" THEN Result ELSE Told
<1>1. r.events \in Seq(Event) /\ e \in Event
  BY Kinds DEF Runs
<1>2. CASE p = "unfinished"
  <2>1. s.tail /\ s.events = r.events
    BY <1>2, ParsedIs
  <2>2. Len(r.events) \in Nat
    BY <1>1
  <2> QED
    BY <1>2, <2>1, <2>2 DEF Done
<1>3. CASE p # "unfinished"
  <2>1. s.tail = r.tail /\ s.events = Append(r.events, e)
    BY <1>3, ParsedIs
  <2> HIDE DEF e
  <2>2. Len(s.events) = Len(r.events) + 1 /\ Len(r.events) \in Nat
    BY <1>1, <2>1
  <2> QED
    BY <2>1, <2>2 DEF Done
<1> QED
  BY <1>2, <1>3

LEMMA FoldIs == ASSUME NEW r, NEW q PROVE FoldLeft(Parsed, r, q) = P!Fold(r, q)
BY DEF P!Fold, FoldLeft, MapThenFoldSet, Max, P!FoldLeft, P!MapThenFoldSet, P!Max

Ordered(q) == \A i \in 1..Len(q) : q[i] = "unfinished" => i = Len(q)

LEMMA Replayed ==
  ASSUME NEW r0 \in Runs, Parses(r0), r0.events = <<>>, ~r0.tail, NEW q \in Seq(Pieces), NEW r,
         r = FoldLeft(Parsed, r0, q)
  PROVE  /\ r \in Runs /\ r.at = r0.at /\ Parses(r)
         /\ Ordered(q) => Done(r) = Len(q) /\ (r.tail => Len(q) > 0 /\ q[Len(q)] = "unfinished")
<1> DEFINE h(i) == P!After(r0, q, i)
           S == {i \in Nat : i <= Len(q) =>
                   /\ h(i) \in Runs /\ h(i).at = r0.at /\ Parses(h(i))
                   /\ Ordered(q) => Done(h(i)) = i /\ (h(i).tail => i > 0 /\ q[i] = "unfinished")}
<1>1. /\ h(0) = r0 /\ r = h(Len(q)) /\ Len(q) \in Nat
      /\ \A i \in 1..Len(q) : h(i) = Parsed(h(i - 1), q[i])
  <2>1. /\ P!After(r0, q, 0) = r0
        /\ \A i \in 1..Len(q) : P!After(r0, q, i) = Parsed(P!After(r0, q, i - 1), q[i])
        /\ P!Fold(r0, q) = P!After(r0, q, Len(q))
    BY P!AfterRuns
  <2>2. r = P!Fold(r0, q)
    BY FoldIs
  <2>3. Len(q) \in Nat
    OBVIOUS
  <2> QED
    BY <2>1, <2>2, <2>3
<1> HIDE DEF h
<1>2. 0 \in S
  <2>1. Done(r0) = 0
    BY DEF Done
  <2> QED
    BY <1>1, <2>1
<1>3. ASSUME NEW i \in Nat, i \in S
      PROVE  i + 1 \in S
  <2> SUFFICES ASSUME i + 1 <= Len(q)
               PROVE  /\ h(i + 1) \in Runs /\ h(i + 1).at = r0.at /\ Parses(h(i + 1))
                      /\ Ordered(q) => /\ Done(h(i + 1)) = i + 1
                                       /\ h(i + 1).tail => i + 1 > 0 /\ q[i + 1] = "unfinished"
    OBVIOUS
  <2>1. i + 1 \in 1..Len(q) /\ (i + 1) - 1 = i /\ i <= Len(q) /\ i # Len(q)
    BY <1>1
  <2>2. h(i + 1) = Parsed(h(i), q[i + 1]) /\ q[i + 1] \in Pieces
    BY <1>1, <2>1
  <2>3. /\ h(i) \in Runs /\ h(i).at = r0.at /\ Parses(h(i))
        /\ Ordered(q) => Done(h(i)) = i /\ (h(i).tail => i > 0 /\ q[i] = "unfinished")
    BY <1>3, <2>1
  <2>4. h(i + 1) \in Runs /\ h(i + 1).at = r0.at /\ Parses(h(i + 1))
    <3>1. \A x \in Runs, p \in Pieces : Parses(x) =>
            Parsed(x, p) \in Runs /\ Parsed(x, p).at = x.at /\ Parses(Parsed(x, p))
      BY ParsedIs, ParsedParses
    <3> QED
      BY <2>2, <2>3, <3>1
  <2>5. ASSUME Ordered(q) PROVE Done(h(i + 1)) = i + 1 /\ (h(i + 1).tail => q[i + 1] = "unfinished")
    <3>1. h(i).tail => i \in 1..Len(q)
      BY <1>1, <2>1, <2>3, <2>5
    <3>2. ~h(i).tail
      BY <2>1, <2>3, <2>5, <3>1 DEF Ordered
    <3> QED
      BY <2>2, <2>3, <2>5, <3>2, ParsedDone
  <2> QED
    BY <2>4, <2>5
<1> HIDE DEF S
<1>4. Len(q) \in S
  BY <1>1, <1>2, <1>3, P!SetInduction
<1> QED
  BY <1>1, <1>4 DEF S

LEMMA AttachStep == ASSUME RunInv, Attach PROVE RunInv'
<1> USE DEF RunInv
<1> DEFINE r0 == [run EXCEPT !.at = "live", !.timer = TRUE]
           q == session.pending
           r == FoldLeft(Parsed, r0, q)
<1>1. /\ run.at = "created" /\ run \in Runs /\ session \in Sessions /\ q \in Seq(Pieces)
      /\ run.events = <<>> /\ ~run.tail /\ ~run.saw
      /\ UNCHANGED <<proc, written, orch, wire, calls, faults>>
  BY DEF RunTypes, RunOK, Heading, Attach, container, Sessions
<1>2. run' = IF session.ended THEN Settled(r, session.exit) ELSE r
  BY DEF Attach
<1>3. r0 \in Runs /\ r0.at = "live" /\ r0.events = <<>> /\ ~r0.tail /\ ~r0.saw
  BY <1>1 DEF Runs
<1>4. Parses(r0)
  BY <1>3 DEF Parses
<1> HIDE DEF r0
<1>5. /\ r \in Runs /\ r.at = "live" /\ Parses(r)
      /\ Ordered(q) => Done(r) = Len(q) /\ (r.tail => Len(q) > 0 /\ q[Len(q)] = "unfinished")
  BY <1>1, <1>3, <1>4, Replayed
<1> HIDE DEF r
<1>6. /\ session' \in Sessions /\ session'.pending = <<>> /\ session'.listening = TRUE
      /\ session'.ended = session.ended /\ session'.exit = session.exit
  <2>1. <<>> \in Seq(Pieces)
    OBVIOUS
  <2> QED
    BY <1>1, <2>1 DEF Attach, Sessions
<1>7. proc # "none" /\ written \in Seq(Pieces) /\ Len(written) \in Nat /\ Len(q) \in Nat
  BY <1>1 DEF WireOK, RunTypes
<1> DEFINE o == Outs(wire.frames, "created")
<1>8. ASSUME Whole
      PROVE  /\ Done(r) = Len(q) /\ (r.tail => Len(q) > 0 /\ q[Len(q)] = "unfinished")
             /\ o >= 0 /\ o \in Int /\ Len(q) + o = Len(written)
             /\ \A j \in 1..Len(q) : q[j] = written[j]
             /\ \A j \in 1..o : wire.frames[j] = Out(written[Len(q) + j])
  <2>1. Done(run) = 0
    BY <1>1 DEF Done
  <2>2. Skipped(run.at) = 0 /\ Outs(wire.frames, run.at) = o
    BY <1>1 DEF Skipped
  <2>3. o \in Int
    <3>1. wire.frames \in Seq(Frames)
      BY DEF RunTypes
    <3>2. Len(wire.frames) \in Nat
      BY <3>1
    <3> QED
      BY <3>2 DEF Outs, Skipped
  <2>4. Exact
    BY <1>8
  <2> HIDE DEF o
  <2>5. /\ o >= 0 /\ 0 + Len(q) + o = Len(written)
        /\ \A j \in 1..Len(q) : q[j] = written[0 + j]
        /\ \A j \in 1..o : wire.frames[0 + j] = Out(written[0 + Len(q) + j])
    BY <2>1, <2>2, <2>4 DEF Exact
  <2>6. /\ Len(q) + o = Len(written)
        /\ \A j \in 1..Len(q) : q[j] = written[j]
        /\ \A j \in 1..o : wire.frames[j] = Out(written[Len(q) + j])
    BY <1>7, <2>3, <2>5
  <2>7. Ordered(q)
    <3> SUFFICES ASSUME NEW i \in 1..Len(q), q[i] = "unfinished" PROVE i = Len(q)
      BY DEF Ordered
    <3>1. i \in 1..Len(written) /\ written[i] = "unfinished"
      BY <1>7, <2>3, <2>5, <2>6
    <3>2. i = Len(written)
      BY <3>1 DEF WireOK
    <3> QED
      BY <1>7, <2>3, <2>5, <2>6, <3>2
  <2> QED
    BY <1>5, <2>3, <2>5, <2>6, <2>7
<1>9. CASE ~session.ended
  <2>1. run' = r
    BY <1>2, <1>9
  <2>2. RunTypes'
    BY <1>1, <1>5, <1>6, <2>1 DEF RunTypes
  <2>3. RunOK' /\ EndOK'
    BY <1>5, <1>6, <2>1 DEF RunOK, Heading, EndOK
  <2>4. WireOK'
    BY <1>1, <1>5, <1>6, <1>7, <2>1 DEF WireOK
  <2>5. Whole' => Whole
    BY <1>1, <1>6 DEF Whole
  <2>6. ASSUME Whole PROVE Exact'
    <3>1. Outs(wire'.frames, run'.at) = o /\ Skipped(run'.at) = 0
      BY <1>1, <1>5, <2>1 DEF Outs, Skipped
    <3>2. run'.tail => Len(q) = Len(written) /\ written[Len(q)] = "unfinished"
      <4> SUFFICES ASSUME r.tail PROVE Len(q) = Len(written) /\ written[Len(q)] = "unfinished"
        BY <2>1
      <4>1. Len(q) \in 1..Len(q) /\ q[Len(q)] = "unfinished"
        BY <1>7, <1>8, <2>6
      <4>2. written[Len(q)] = "unfinished" /\ Len(q) \in 1..Len(written)
        BY <1>7, <1>8, <2>6, <4>1
      <4> QED
        BY <4>2 DEF WireOK
    <3> HIDE DEF o
    <3>3. Done(run') = Len(q) /\ Len(session'.pending) = 0 /\ written' = written
      BY <1>1, <1>6, <1>8, <2>1, <2>6
    <3>4. Len(q) + 0 + o = Len(written) /\ o >= 0
      BY <1>7, <1>8, <2>6
    <3>5. ASSUME NEW j \in 1..o PROVE wire'.frames[0 + j] = Out(written[Len(q) + 0 + j])
      <4>1. wire'.frames[j] = Out(written[Len(q) + j])
        BY <1>1, <1>8, <2>6
      <4>2. 0 + j = j /\ Len(q) + 0 + j = Len(q) + j
        BY <1>7, <1>8, <2>6
      <4> QED
        BY <4>1, <4>2
    <3>6. \A j \in 1..0 : session'.pending[j] = written[Len(q) + j]
      OBVIOUS
    <3> QED
      BY <3>1, <3>2, <3>3, <3>4, <3>5, <3>6, Zenon DEF Exact
  <2> QED
    BY <2>2, <2>3, <2>4, <2>5, <2>6
<1>10. CASE session.ended
  <2>1. run' = Settled(r, session.exit) /\ session.exit \in Codes
    BY <1>1, <1>2, <1>10 DEF Sessions
  <2>2. session.exit # "null" => proc = "gone" /\ Done(r) = Len(written)
    <3> SUFFICES ASSUME session.exit # "null" PROVE proc = "gone" /\ Done(r) = Len(written)
      OBVIOUS
    <3>1. Whole /\ proc = "gone" /\ wire.frames = <<>>
      BY <1>1 DEF Whole, WireOK
    <3>2. o = 0
      BY <3>1 DEF Outs, Skipped, Ends
    <3> QED
      BY <1>7, <1>8, <3>1, <3>2
  <2>3. run' \in Runs /\ run'.at = "ended" /\ RunOK' /\ EndOK' /\ ~Whole'
    BY <1>1, <1>5, <1>6, <2>1, <2>2, SettledOK
  <2>4. RunTypes'
    BY <1>1, <1>6, <2>3 DEF RunTypes
  <2>5. WireOK'
    BY <1>1, <1>6, <1>7, <2>3 DEF WireOK
  <2> QED
    BY <2>3, <2>4, <2>5
<1> QED
  BY <1>9, <1>10

(* Every step keeps the invariant. *)
LEMMA StepRun == RunInv /\ [Next]_vars => RunInv'
<1> SUFFICES ASSUME RunInv, [Next]_vars PROVE RunInv'
  OBVIOUS
<1>1. CASE Container
  BY <1>1, AsideContainer, WriteStep DEF Container
<1>2. CASE Orchestrator
  BY <1>2, AsideOrchestrator, RequestArrivesStep, ExecStartsStep, ExecRefusedStep, ExecDoneStep DEF Orchestrator
<1>3. CASE Worker
  BY <1>3, AsideWorker, CreateStep, AttachStep, PumpStep, PumpEndsStep, GraceStep DEF Worker
<1>4. CASE Fails
  BY <1>4, StreamBreaksStep, ConnectionBreaksStep, OrchestratorCrashesStep, WorkerCrashesStep DEF Fails
<1>5. CASE UNCHANGED vars
  <2>1. RunTypes'
    BY <1>5 DEF vars, RunInv, RunTypes
  <2> QED
    BY <1>5, <2>1, Aside DEF vars
<1> QED
  BY <1>1, <1>2, <1>3, <1>4, <1>5 DEF Next

(* The invariant holds of every run of the agent. *)
THEOREM RunKept == Spec => []RunInv
BY InitRun, StepRun, PTL DEF Spec

(* Whatever fails, what is known of a run keeps its types: no more output than
   the bound, no tries below zero, an outcome the run may have. *)
THEOREM RunTyped == Spec => []TypeOK
BY RunKept, RunInvTypes, PTL

(* A run that is told of the process's exit has had all of its output, also
   what came before startTerminalRun() listened and the line without a newline
   (emitOutput() and settle() in packages/agents). *)
THEOREM OutputIsComplete == Spec => []OutputComplete
BY RunKept, RunInvComplete, PTL

-----------------------------------------------------------------------------
(* What the worker may rely on. *)

StreamOf == CASE run.at \in {"creating", "created"} -> "unopened"
              [] run.at = "live" -> "open"
              [] OTHER -> "over"
AgentOf == IF proc \in Alive THEN (IF run.at = "live" THEN "watched" ELSE "stray") ELSE proc

LEMMA MaxThere ==
  ASSUME NEW n \in Nat, NEW S, S \subseteq 1..n, S # {}
  PROVE  Max(S) \in S
<1> DEFINE T == {m \in Nat : \E x \in S : m = n - x}
<1>1. T \subseteq Nat /\ T # {}
  <2>1. \A x \in S : n - x \in T
    OBVIOUS
  <2> QED
    BY <2>1
<1>2. PICK y \in T : \A z \in T : y <= z
  BY <1>1, P!LeastThere
<1>3. PICK x \in S : y = n - x
  BY <1>2
<1>4. ASSUME NEW z \in S PROVE x >= z
  <2>1. n - z \in T /\ x \in 1..n /\ z \in 1..n
    BY <1>3
  <2>2. n - x <= n - z
    BY <1>2, <1>3, <2>1
  <2> HIDE DEF T
  <2> QED
    BY <2>1, <2>2
<1> QED
  BY <1>4 DEF Max

LEMMA FinalIs ==
  ASSUME NEW f \in Seq(Event), \E i \in 1..Len(f) : f[i].type = "finished"
  PROVE  f[Max({i \in DOMAIN f : f[i].type = "finished"})].outcome \in {"completed", "failed", "cancelled", "timeout"}
<1> DEFINE S == {i \in DOMAIN f : f[i].type = "finished"}
           m == Max(S)
<1>1. Len(f) \in Nat /\ DOMAIN f = 1..Len(f)
  OBVIOUS
<1>2. S # {} /\ S \subseteq 1..Len(f)
  BY <1>1
<1>3. m \in S
  BY <1>1, <1>2, MaxThere
<1>4. f[m] \in Event /\ f[m].type = "finished"
  BY <1>1, <1>3
<1> HIDE DEF m
<1> QED
  BY <1>4, EventKinds DEF m

(* A step of the detailed specification that does not matter, *)
LEMMA Stays ==
  ASSUME proc' = proc \/ {proc, proc'} \subseteq Alive,
         run'.at = run.at \/ {run.at, run'.at} \in {{"creating", "created"}, {"failed", "dead"}},
         run.at = "ended" => run'.events = run.events
  PROVE  UNCHANGED Abstract!vars
<1>1. StreamOf' = StreamOf /\ AgentOf' = AgentOf
  BY DEF StreamOf, AgentOf
<1>2. Outcome' = Outcome
  BY DEF Outcome, Final
<1> QED
  BY <1>1, <1>2 DEF Abstract!vars, StreamOf, AgentOf

(* the end of a run, which has a process and then an outcome, *)
LEMMA Ending ==
  ASSUME RunInv, RunInv', proc' = proc, run.at \in {"created", "live"}, run'.at = "ended"
  PROVE  Abstract!End
<1>1. proc # "none" /\ proc \in {"none", "gone"} \cup Alive
  BY DEF RunInv, WireOK, RunTypes
<1>2. Outcome' \in {"completed", "failed", "cancelled", "timeout"}
  <2>1. run'.events \in Seq(Event) /\ \E i \in 1..Len(run'.events) : run'.events[i].type = "finished"
    BY DEF RunInv, RunTypes, Runs, RunOK
  <2> QED
    BY <2>1, FinalIs DEF Outcome, Final
<1>3. StreamOf # "over" /\ StreamOf' = "over"
  BY DEF StreamOf
<1>4. AgentOf # "none" /\ AgentOf' = IF AgentOf = "watched" THEN "stray" ELSE AgentOf
  BY <1>1 DEF AgentOf, Alive
<1> QED
  BY <1>2, <1>3, <1>4 DEF Abstract!End, Abstract!Unwatched, Abstract!Outcomes, StreamOf, AgentOf

(* or its loss. *)
LEMMA Losing ==
  ASSUME RunInv, proc' = proc, run.at \in {"creating", "created", "live"}, run'.at \in {"failed", "dead"}
  PROVE  Abstract!Drop
<1>1. proc \in {"none", "gone"} \cup Alive
  BY DEF RunInv, RunTypes
<1>2. StreamOf # "over" /\ StreamOf' = "over" /\ Outcome' = Outcome
  BY DEF StreamOf, Outcome
<1>3. AgentOf' = IF AgentOf = "watched" THEN "stray" ELSE AgentOf
  BY <1>1 DEF AgentOf, Alive
<1> QED
  BY <1>2, <1>3 DEF Abstract!Drop, Abstract!Unwatched, StreamOf, AgentOf

LEMMA Opening ==
  ASSUME RunInv, proc' = proc, run.at = "created", run'.at = "live"
  PROVE  Abstract!Open
<1>1. proc # "none" /\ proc \in {"none", "gone"} \cup Alive
  BY DEF RunInv, WireOK, RunTypes
<1>2. StreamOf = "unopened" /\ StreamOf' = "open" /\ Outcome' = Outcome
  BY DEF StreamOf, Outcome
<1>3. AgentOf # "none" /\ AgentOf' = IF AgentOf = "stray" THEN "watched" ELSE AgentOf
  BY <1>1 DEF AgentOf, Alive
<1> QED
  BY <1>2, <1>3 DEF Abstract!Open, StreamOf, AgentOf

LEMMA Launching ==
  ASSUME RunInv, orch.route = "starting", proc' = "young", run' = run
  PROVE  Abstract!Launch
<1>1. proc = "none" /\ run.at \in {"creating", "failed", "dead"}
  BY DEF RunInv, WireOK
<1>2. StreamOf' = StreamOf /\ Outcome' = Outcome /\ Outcome = "none" /\ AgentOf = "none" /\ AgentOf' = "stray"
  BY <1>1 DEF StreamOf, Outcome, Final, AgentOf, Alive
<1> QED
  BY <1>2 DEF Abstract!Launch, StreamOf, AgentOf

LEMMA Exiting ==
  ASSUME RunInv, proc \in Alive, proc' = "gone", run' = run
  PROVE  Abstract!Exits
<1>1. StreamOf' = StreamOf /\ Outcome' = Outcome /\ AgentOf \in {"watched", "stray"} /\ AgentOf' = "gone"
  BY DEF StreamOf, Outcome, Final, AgentOf, Alive
<1> QED
  BY <1>1 DEF Abstract!Exits, StreamOf, AgentOf

(* The steps of the container and of the orchestrator leave the run alone. *)
LEMMA ContainerMaps == RunInv /\ Container => [Abstract!Next]_Abstract!vars
<1> SUFFICES ASSUME RunInv, Container PROVE [Abstract!Next]_Abstract!vars
  OBVIOUS
<1>1. run' = run
  BY DEF Container, PidWritten, Write, Exit
<1>2. proc' = proc \/ {proc, proc'} \subseteq Alive \/ (proc \in Alive /\ proc' = "gone")
  BY DEF Container, PidWritten, Write, Exit, Alive
<1> QED
  BY <1>1, <1>2, Stays, Exiting DEF Abstract!Next

LEMMA OrchestratorMaps == RunInv /\ Orchestrator => [Abstract!Next]_Abstract!vars
<1> SUFFICES ASSUME RunInv, Orchestrator PROVE [Abstract!Next]_Abstract!vars
  OBVIOUS
<1>1. run' = run
  BY DEF Orchestrator, RequestArrives, ExecStarts, ExecRefused, ExecDone, Backstop, ReplyCloses,
         CallArrives, CallFails, OrchestratorRestarts
<1>2. CASE ExecStarts
  BY <1>1, <1>2, Launching DEF ExecStarts, Abstract!Next
<1>3. CASE ~ExecStarts
  <2>1. Signal \/ UNCHANGED proc
    BY <1>3 DEF Orchestrator, RequestArrives, ExecRefused, ExecDone, Backstop, ReplyCloses, Kill,
                CallArrives, CallFails, OrchestratorRestarts, container
  <2>2. proc' = proc \/ {proc, proc'} \subseteq Alive
    BY <2>1, SignalTyped
  <2> QED
    BY <1>1, <2>2, Stays
<1> QED
  BY <1>2, <1>3

LEMMA FailsMaps == RunInv /\ Fails => [Abstract!Next]_Abstract!vars
<1> SUFFICES ASSUME RunInv, Fails PROVE [Abstract!Next]_Abstract!vars
  OBVIOUS
<1>1. CASE StreamBreaks \/ ConnectionBreaks
  <2>1. run' = run /\ proc' = proc
    BY <1>1 DEF StreamBreaks, ConnectionBreaks, container
  <2> QED
    BY <2>1, Stays
<1>2. CASE OrchestratorCrashes
  <2>1. run' = run /\ (proc' = proc \/ (orch.route = "starting" /\ proc' = "young"))
    BY <1>2 DEF OrchestratorCrashes
  <2> QED
    BY <2>1, Stays, Launching DEF Abstract!Next
<1>3. CASE WorkerCrashes
  <2>1. run \in Runs
    BY DEF RunInv, RunTypes
  <2>2. /\ proc' = proc /\ run'.events = run.events
        /\ run'.at = IF run.at = "ended" THEN "ended" ELSE "dead"
    BY <1>3, <2>1 DEF WorkerCrashes, container, Runs
  <2>3. CASE run.at \in {"ended", "failed", "dead"}
    BY <2>2, <2>3, Stays
  <2>4. CASE run.at \in {"creating", "created", "live"}
    BY <2>2, <2>4, Losing DEF Abstract!Next
  <2> QED
    BY <2>1, <2>3, <2>4 DEF Runs
<1> QED
  BY <1>1, <1>2, <1>3 DEF Fails

(* How far a step of the worker takes the run. *)
LEMMA AttachTakes == RunInv /\ Attach => run'.at \in {"live", "ended"}
<1> SUFFICES ASSUME RunInv, Attach PROVE run'.at \in {"live", "ended"}
  OBVIOUS
<1> DEFINE r0 == [run EXCEPT !.at = "live", !.timer = TRUE]
           q == session.pending
           r == FoldLeft(Parsed, r0, q)
<1>1. /\ run \in Runs /\ session \in Sessions /\ q \in Seq(Pieces) /\ session.exit \in Codes
      /\ run.events = <<>> /\ ~run.tail /\ ~run.saw
  BY DEF RunInv, RunTypes, RunOK, Heading, Attach, Sessions
<1>2. run' = IF session.ended THEN Settled(r, session.exit) ELSE r
  BY DEF Attach
<1>3. r0 \in Runs /\ r0.at = "live" /\ r0.events = <<>> /\ ~r0.tail /\ ~r0.saw
  BY <1>1 DEF Runs
<1>4. Parses(r0)
  BY <1>3 DEF Parses
<1> HIDE DEF r0
<1>5. r \in Runs /\ r.at = "live" /\ Parses(r)
  BY <1>1, <1>3, <1>4, Replayed
<1> HIDE DEF r
<1> QED
  BY <1>1, <1>2, <1>5, SettledIs

LEMMA SettledTakes ==
  ASSUME RunInv, NEW c \in Codes, run' = Settled(run, c)
  PROVE  run' = run \/ (run.at = "live" /\ run'.at = "ended")
<1>1. run.at = "live" => Parses(run) /\ run \in Runs
  BY DEF RunInv, RunOK, RunTypes
<1> QED
  BY <1>1, SettledIs DEF Settled

LEMMA PumpTakes ==
  ASSUME RunInv, Pump
  PROVE  run' = run \/ (run.at = "live" /\ run'.at \in {"live", "ended"})
<1>1. wire.frames \in Seq(Frames) /\ wire.frames # <<>> /\ run \in Runs
  BY DEF RunInv, RunTypes, Pump
<1> DEFINE f == Head(wire.frames)
<1>2. f \in Frames
  BY <1>1
<1>3. f.type # "started"
  <2>1. 1 \in 1..Len(wire.frames) /\ f = wire.frames[1]
    BY <1>1
  <2> QED
    BY <2>1 DEF RunInv, WireOK, Pump
<1>4. \/ f.type = "out" /\ f.data \in Pieces
      \/ f.type # "out" /\ f.code \in Codes
  BY <1>2, <1>3, FrameKinds
<1>5. IF f.type = "out" THEN run' = IF Heard(session, run) THEN Parsed(run, f.data) ELSE run
                        ELSE run' = RunTold(session, run, f.code)
  BY DEF Pump
<1> HIDE DEF f
<1>6. CASE f.type = "out" /\ Heard(session, run)
  BY <1>1, <1>4, <1>5, <1>6, ParsedIs, ZenonT(60) DEF Heard
<1>7. CASE f.type # "out"
  BY <1>4, <1>5, <1>7, SettledTakes DEF RunTold
<1> QED
  BY <1>5, <1>6, <1>7

LEMMA WorkerMaps == RunInv /\ RunInv' /\ Worker => [Abstract!Next]_Abstract!vars
<1> SUFFICES ASSUME RunInv, RunInv', Worker PROVE [Abstract!Next]_Abstract!vars
  OBVIOUS
<1>1. proc' = proc /\ run \in Runs /\ session.exit \in Codes /\ "null" \in Codes
  BY DEF RunInv, RunTypes, Sessions, Codes, Worker, Create, Attach, Pump, PumpEnds, Retry, RetryAnswered,
         Deadline, Grace, ReadEvents, Cancel, CancelAnswered, container
<1>2. CASE Create
  <2>1. run.at = "creating" /\ run'.at \in {"created", "failed"}
    BY <1>1, <1>2 DEF Create, Runs
  <2> QED
    BY <1>1, <2>1, Stays, Losing DEF Abstract!Next
<1>3. CASE Attach
  <2>1. run.at = "created" /\ run'.at \in {"live", "ended"}
    BY <1>3, AttachTakes DEF Attach
  <2> QED
    BY <1>1, <2>1, Opening, Ending DEF Abstract!Next
<1>4. CASE Pump \/ PumpEnds \/ Grace
  <2>1. run' = run \/ (run.at = "live" /\ run'.at \in {"live", "ended"})
    BY <1>1, <1>4, PumpTakes, SettledTakes DEF PumpEnds, RunTold, Grace
  <2> QED
    BY <1>1, <2>1, Stays, Ending DEF Abstract!Next
<1>5. CASE Retry \/ RetryAnswered \/ Deadline \/ ReadEvents \/ Cancel \/ CancelAnswered
  <2>1. run'.at = run.at /\ run'.events = run.events
    BY <1>1, <1>5 DEF Retry, RetryAnswered, Deadline, ReadEvents, Cancel, CancelAnswered, Graced, Runs
  <2> QED
    BY <1>1, <2>1, Stays
<1> QED
  BY <1>2, <1>3, <1>4, <1>5 DEF Worker

LEMMA InitMaps == Init => Abstract!Init
BY DEF Init, Abstract!Init, Outcome, Alive

LEMMA NextMaps == RunInv /\ RunInv' /\ [Next]_vars => [Abstract!Next]_Abstract!vars
<1> SUFFICES ASSUME RunInv, RunInv', [Next]_vars PROVE [Abstract!Next]_Abstract!vars
  OBVIOUS
<1>1. CASE UNCHANGED vars
  BY <1>1, Stays DEF vars
<1> QED
  BY <1>1, ContainerMaps, OrchestratorMaps, WorkerMaps, FailsMaps DEF Next

(* What TaskRuns assumes of a run of an agent holds of this one: the process is
   there once, and the stream ends once, with an outcome that stays when an
   exit, a timer or a cancellation comes later. *)
THEOREM AgentStreamHolds == Spec => ImplementsAgentStream
BY RunKept, InitMaps, NextMaps, PTL DEF Spec, ImplementsAgentStream, Abstract!Spec
=============================================================================
