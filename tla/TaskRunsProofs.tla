--------------------------- MODULE TaskRunsProofs ---------------------------
(***************************************************************************)
(* Theorems about TaskRuns, for any number of tasks, workers, slots, runs, *)
(* queueings and faults: which run a task belongs to, what one worker      *)
(* process holds (its agents and its slots), that TaskRuns implements      *)
(* TicketQueue, and which tasks do not run at once.                        *)
(***************************************************************************)
EXTENDS ScopedRuns, TLAPS, FiniteSetTheorems

USE DEF NoTask, NoRun

(* The facts about types that the steps below need of the definitions TypeOK
   is made of. *)
LEMMA TypeFacts ==
  ASSUME TypeOK
  PROVE  /\ \A r \in Runs : run[r] \in Run
         /\ \A w \in Workers : scan[w].left \subseteq Tasks /\ scan[w].pick \in Tasks \cup {NoTask}
         /\ \A w \in Workers : sweep[w].left \subseteq Runs /\ sweep[w].half \in Runs \cup {NoRun}
BY DEF TypeOK

(* A record of the pool that no run uses yet is a run record. *)
LEMMA UnusedTyped == Unused \in Run
BY TaskRunsAssumption DEF Unused, Run, TaskRunsAssumption

(* The initial state is typed: the tables are empty, no worker has begun anything. *)
LEMMA TypeInit == Init => TypeOK
BY UnusedTyped, TaskRunsAssumption DEF Init, TypeOK, NoScan, NoSweep, TaskRunsAssumption

(* What the control plane (and integration) writes to a task's row is a status of
   the enum. *)
LEMMA TypeWeb ==
  ASSUME TypeOK, NEW t \in Tasks, Web(t)
  PROVE  TypeOK'
<1> USE TaskRunsAssumption DEF TaskRunsAssumption, TypeOK, WebUnchanged
<1>1. CASE Create(t)
  BY <1>1 DEF Create, TaskStatuses
<1>2. CASE Approve(t)
  BY <1>2 DEF Approve, TaskStatuses
<1>3. CASE Cancel(t)
  BY <1>3 DEF Cancel, TaskStatuses
<1>4. CASE Requeue(t)
  BY <1>4 DEF Requeue, TaskStatuses
<1>5. CASE DeleteCheck(t)
  BY <1>5 DEF DeleteCheck
<1>6. CASE DeleteRow(t)
  <2>1. \A r \in Runs : RowOver(run[r]) \in Run
    BY TypeFacts, ZenonT(60) DEF RowOver, Run
  <2>2. run' \in [Runs -> Run]
    BY <1>6, <2>1 DEF DeleteRow
  <2> QED BY <1>6, <2>2 DEF DeleteRow
<1>7. CASE MergeStart(t)
  BY <1>7 DEF MergeStart, TaskStatuses
<1>8. CASE MergeEnd(t)
  BY <1>8 DEF MergeEnd, SetStatus, TaskStatuses
<1> QED BY <1>1, <1>2, <1>3, <1>4, <1>5, <1>6, <1>7, <1>8 DEF Web

(* A run that ends without throwing leaves one of four statuses. *)
LEMMA NextStatusTyped == \A o : NextStatus(o) \in {"cancelled", "approved", "needs_review", "failed"}
BY DEF NextStatus

(* The steps of runTask keep the types. *)
LEMMA TypeRun ==
  ASSUME TypeOK, NEW r \in Runs, RunMoves(r)
  PROVE  TypeOK'
<1> USE TaskRunsAssumption DEF TaskRunsAssumption, TypeOK, Run, RunUnchanged, OnTrack, InCatch, Finished
<1>0. run[r] \in Run
  BY TypeFacts
<1>1. CASE InsertRun(r)
  BY <1>0, <1>1 DEF InsertRun, Settled
<1>2. CASE StartAgent(r)
  BY <1>0, <1>2 DEF StartAgent
<1>3. CASE StreamEnds(r)
  <2>1. PICK end \in {<<"none", "completed">>, <<"none", "failed">>, <<"stray", "failed">>} :
          run' = [run EXCEPT ![r].at = "committing", ![r].agent = end[1],
                             ![r].outcome = IF @ = "cancelled" THEN @ ELSE end[2]]
    BY <1>3 DEF StreamEnds
  <2>2. end[1] \in {"none", "stray"} /\ end[2] \in {"completed", "failed"}
    OBVIOUS
  <2>3. PICK o \in {"completed", "failed", "cancelled"} :
          run' = [run EXCEPT ![r].at = "committing", ![r].agent = end[1], ![r].outcome = o]
    BY <1>0, <2>1, <2>2
  <2>4. run' \in [Runs -> Run]
    BY <1>0, <2>2, <2>3, ZenonT(60)
  <2> QED BY <1>3, <2>4 DEF StreamEnds
<1>4. CASE RecordRun(r)
  BY <1>0, <1>4 DEF RecordRun, RowOver
<1>5. CASE ReadStatus(r)
  BY <1>0, <1>5 DEF ReadStatus
<1>6. CASE WriteStatus(r)
  BY <1>0, <1>6, NextStatusTyped DEF WriteStatus, SetStatus, TaskStatuses
<1>7. CASE Announce(r)
  BY <1>0, <1>7 DEF Announce, Settled
<1>8. CASE Throw(r)
  BY <1>0, <1>8 DEF Throw
<1>9. CASE CancelAgent(r)
  <2>1. PICK a \in IF run[r].agent = "watched" THEN {"none", "stray"} ELSE {run[r].agent} :
          run' = [run EXCEPT ![r].at = "noting", ![r].agent = a]
    BY <1>9 DEF CancelAgent
  <2>2. a \in {"none", "watched", "stray"}
    BY <1>0, <2>1
  <2>3. run' \in [Runs -> Run]
    BY <1>0, <2>1, <2>2
  <2> QED BY <1>9, <2>3 DEF CancelAgent
<1>10. CASE NoteFailure(r)
  BY <1>0, <1>10 DEF NoteFailure, RowOver
<1>11. CASE FailTask(r)
  BY <1>0, <1>11 DEF FailTask, FailIfRunning, Settled, TaskStatuses
<1>12. CASE Beat(r)
  BY <1>0, <1>12 DEF Beat
<1>13. CASE GoStale(r)
  <2>1. run' \in [Runs -> Run]
    BY <1>0, <1>13 DEF GoStale
  <2>2. faults' \in 0..MaxFaults
    BY <1>13 DEF GoStale
  <2> QED BY <1>13, <2>1, <2>2 DEF GoStale
<1>14. CASE LoseRun(r)
  <2>1. run' \in [Runs -> Run]
    BY <1>0, <1>14 DEF LoseRun, Settled
  <2>2. faults' \in 0..MaxFaults
    BY <1>14 DEF LoseRun
  <2> QED BY <1>14, <2>1, <2>2 DEF LoseRun
<1>15. CASE StrayStops(r)
  BY <1>0, <1>15 DEF StrayStops
<1> QED BY <1>1, <1>2, <1>3, <1>4, <1>5, <1>6, <1>7, <1>8, <1>9, <1>10, <1>11, <1>12, <1>13, <1>14, <1>15 DEF RunMoves, RunStep

(* The steps of a tick, scan, claim and sweep, and a crash keep the types. *)
LEMMA TypeWorker ==
  ASSUME TypeOK, NEW w \in Workers, Worker(w)
  PROVE  TypeOK'
<1> USE TaskRunsAssumption DEF TaskRunsAssumption, TypeOK
<1>1. CASE ScanStart(w)
  BY <1>1 DEF ScanStart, Candidates
<1>2. CASE ScanCheck(w)
  <2>1. PICK t \in scan[w].left :
          scan' = [scan EXCEPT ![w] =
                     [left |-> @.left \ {t}, pick |-> IF t \in Closed \/ Blocked(t) THEN NoTask ELSE t]]
    BY <1>2 DEF ScanCheck
  <2>2. t \in Tasks /\ scan[w].left \ {t} \subseteq Tasks
    BY <2>1, TypeFacts
  <2>3. scan' \in [Workers -> [left : SUBSET Tasks, pick : Tasks \cup {NoTask}]]
    BY <2>1, <2>2
  <2> QED BY <1>2, <2>3 DEF ScanCheck
<1>3. CASE ScanClaim(w)
  <2> DEFINE t == scan[w].pick
  <2>1. t \in Tasks
    BY <1>3, TypeFacts DEF ScanClaim
  <2>2. CASE StillQueued(t)
    <3>1. PICK r \in Runs :
            run' = [run EXCEPT ![r] = [Unused EXCEPT !.task = t, !.worker = w,
                                                     !.queueing = queueing[t], !.at = "claimed"]]
      BY <1>3, <2>2 DEF ScanClaim
    <3>2. queueing[t] \in 0..MaxQueueings
      BY <2>1
    <3>3. run' \in [Runs -> Run]
      BY <2>1, <3>1, <3>2, UnusedTyped DEF Run, Unused, OnTrack
    <3>4. task' = [task EXCEPT ![t] = "running"] /\ scan' = [scan EXCEPT ![w] = NoScan]
      BY <1>3, <2>2 DEF ScanClaim
    <3>5. UNCHANGED <<queueing, sweep, deleting, merging, faults>>
      BY <1>3 DEF ScanClaim
    <3> QED BY <2>1, <3>3, <3>4, <3>5 DEF NoScan, TaskStatuses
  <2>3. CASE ~StillQueued(t)
    <3>1. scan' = [scan EXCEPT ![w].pick = NoTask] /\ UNCHANGED <<task, run, queueing, sweep, deleting, merging, faults>>
      BY <1>3, <2>3 DEF ScanClaim
    <3> QED BY <3>1
  <2> QED BY <2>2, <2>3
<1>4. CASE SweepRead(w)
  BY <1>4 DEF SweepRead, StaleRows
<1>5. CASE SweepRun(w)
  <2>1. PICK r \in sweep[w].left :
          /\ run' = [run EXCEPT ![r] = RowOver(@)]
          /\ sweep' = [sweep EXCEPT ![w] = [left |-> @.left \ {r}, half |-> r]]
    BY <1>5 DEF SweepRun
  <2>2. r \in Runs /\ sweep[w].left \ {r} \subseteq Runs
    BY <2>1, TypeFacts
  <2>3. RowOver(run[r]) \in Run
    BY <2>2, TypeFacts, ZenonT(60) DEF RowOver, Run
  <2>4. run' \in [Runs -> Run]
    BY <2>1, <2>2, <2>3
  <2>5. sweep' \in [Workers -> [left : SUBSET Runs, half : Runs \cup {NoRun}]]
    BY <2>1, <2>2
  <2> QED BY <1>5, <2>4, <2>5 DEF SweepRun
<1>6. CASE SweepTask(w)
  BY <1>6 DEF SweepTask, FailIfRunning, TaskStatuses
<1>7. CASE Crash(w)
  <2>1. ASSUME NEW r \in Runs
        PROVE  Settled([run[r] EXCEPT !.agent = IF @ = "watched" THEN "stray" ELSE @], "dead") \in Run
    <3>1. run[r] \in Run
      BY TypeFacts
    <3>2. PICK a \in {"none", "watched", "stray"} :
            a = IF run[r].agent = "watched" THEN "stray" ELSE run[r].agent
      BY <3>1 DEF Run
    <3>3. [run[r] EXCEPT !.agent = a] \in Run
      BY <3>1 DEF Run
    <3>4. Settled([run[r] EXCEPT !.agent = a], "dead") \in Run
      BY <3>3 DEF Settled, Run, Finished
    <3> QED BY <3>2, <3>4
  <2>2. run' \in [Runs -> Run]
    BY <1>7, <2>1 DEF Crash
  <2>3. faults' \in 0..MaxFaults
    BY <1>7 DEF Crash
  <2> QED BY <1>7, <2>2, <2>3 DEF Crash, NoScan, NoSweep
<1>8. CASE TickFails(w)
  BY <1>8 DEF TickFails, NoScan, NoSweep
<1> QED BY <1>1, <1>2, <1>3, <1>4, <1>5, <1>6, <1>7, <1>8 DEF Worker

(* Every step keeps the types. *)
LEMMA TypeStep == TypeOK /\ [Next]_vars => TypeOK'
<1> SUFFICES ASSUME TypeOK, [Next]_vars PROVE TypeOK'
  OBVIOUS
<1>1. CASE \E t \in Tasks : Web(t)
  BY <1>1, TypeWeb
<1>2. CASE \E w \in Workers : Worker(w)
  BY <1>2, TypeWorker
<1>3. CASE \E r \in Runs : RunMoves(r)
  BY <1>3, TypeRun
<1>4. CASE UNCHANGED vars
  BY <1>4 DEF vars, TypeOK
<1> QED BY <1>1, <1>2, <1>3, <1>4 DEF Next

(* Every value the model's state can take has its type: the statuses are
   those of the database's enum, a run belongs to a task of the system and to
   the queueing it was claimed for. *)
THEOREM TypeCorrect == Spec => []TypeOK
<1>1. Init => TypeOK
  BY TypeInit
<1>2. TypeOK /\ [Next]_vars => TypeOK'
  BY TypeStep
<1> QED BY <1>1, <1>2, PTL DEF Spec

-----------------------------------------------------------------------------
(* The inductive invariant.  ClaimedOnce alone is not inductive: that a claim
   finds no run of the same queueing rests on the task still being queued, and
   RunningIsOwned on what runTask has done to the task before it returns. *)

(* No run is of a queueing yet to come. *)
QueueingsPast ==
  \A r \in Runs : InUse(r) => run[r].task \in Tasks /\ run[r].queueing <= queueing[run[r].task]

(* While a task is queued no run has its latest queueing. *)
QueuedIsUnclaimed ==
  \A r \in Runs : InUse(r) /\ task[run[r].task] = "queued" => ~Current(r)

(* A running task has a run of its latest queueing. *)
RunningHasRun ==
  \A t \in Tasks : task[t] = "running" => \E r \in Runs : InUse(r) /\ run[r].task = t /\ Current(r)

(* A run that has written its outcome has left no running task of its own. *)
EndedLeftRunning ==
  \A r \in Runs : run[r].at \in {"announcing", "ended"} /\ Current(r) => task[run[r].task] # "running"

(* A queued task has been queued before. *)
QueuedIsNumbered ==
  \A t \in Tasks : task[t] = "queued" => queueing[t] > 0

QueueInv ==
  /\ ClaimedOnce
  /\ QueueingsPast
  /\ QueuedIsUnclaimed
  /\ RunningHasRun
  /\ EndedLeftRunning
  /\ QueuedIsNumbered

IInv == TypeOK /\ QueueInv

(* All that the steps do to tasks, queueings and the runs' identities comes to
   three kinds of step. *)

IdsKept ==
  \A r \in Runs : /\ run'[r].task = run[r].task
                  /\ run'[r].queueing = run[r].queueing
                  /\ run'[r].at = "unused" <=> run[r].at = "unused"

(* A task goes anywhere but into `queued` or `running`, or nowhere. *)
Quiet ==
  /\ IdsKept
  /\ queueing' = queueing
  /\ \/ task' = task
     \/ \E t \in Tasks, s \in (TaskStatuses \cup {"deleted"}) \ {"queued", "running"} :
          task' = [task EXCEPT ![t] = s]
  /\ \A r \in Runs : run'[r].at \in {"announcing", "ended"} =>
       run[r].at \in {"announcing", "ended"} \/ task'[run[r].task] # "running"

(* A task is queued, for the first time or again. *)
Queues(t) ==
  /\ task[t] # "queued"
  /\ run' = run
  /\ task' = [task EXCEPT ![t] = "queued"]
  /\ queueing' = [queueing EXCEPT ![t] = @ + 1]
  /\ queueing[t] < MaxQueueings

(* A queued task is claimed for a new run. *)
Claims(t, r) ==
  /\ task[t] = "queued"
  /\ task' = [task EXCEPT ![t] = "running"]
  /\ queueing' = queueing
  /\ run[r].at = "unused"
  /\ \A q \in Runs \ {r} : run'[q] = run[q]
  /\ run'[r].task = t /\ run'[r].queueing = queueing[t] /\ run'[r].at = "claimed"

(* The control plane makes a task claimable, or is quiet: it creates no run, and
   it never writes `running`. *)
LEMMA WebKinds ==
  ASSUME TypeOK, NEW t \in Tasks, Web(t)
  PROVE  Quiet \/ Queues(t)
<1> USE DEF TypeOK, WebUnchanged, Quiet, IdsKept, TaskStatuses
<1>1. CASE Create(t)
  BY <1>1 DEF Create, Queues
<1>2. CASE Approve(t)
  BY <1>2 DEF Approve
<1>3. CASE Cancel(t)
  BY <1>3 DEF Cancel
<1>4. CASE Requeue(t)
  <2>1. task[t] # "queued"
    BY <1>4 DEF Requeue, CanTransition, Transitions
  <2> QED BY <1>4, <2>1 DEF Requeue, Queues
<1>5. CASE DeleteCheck(t)
  BY <1>5 DEF DeleteCheck
<1>6. CASE DeleteRow(t)
  BY <1>6, TypeFacts DEF DeleteRow, RowOver, Run
<1>7. CASE MergeStart(t)
  BY <1>7 DEF MergeStart
<1>8. CASE MergeEnd(t)
  <2>1. run' = run /\ queueing' = queueing
    BY <1>8 DEF MergeEnd
  <2>2. task' = task \/ \E s \in TaskStatuses \ {"queued", "running"} : task' = [task EXCEPT ![t] = s]
    BY <1>8 DEF MergeEnd, SetStatus
  <2> QED BY <2>1, <2>2
<1> QED BY <1>1, <1>2, <1>3, <1>4, <1>5, <1>6, <1>7, <1>8 DEF Web

(* An update of one task, or of none. *)
LEMMA FailsOrKeeps ==
  ASSUME TypeOK, NEW t, task' = FailIfRunning(t)
  PROVE  /\ \/ task' = task
            \/ \E u \in Tasks, s \in (TaskStatuses \cup {"deleted"}) \ {"queued", "running"} :
                 task' = [task EXCEPT ![u] = s]
         /\ t \in Tasks => task'[t] # "running"
<1>1. CASE t \in Tasks
  BY <1>1 DEF FailIfRunning, TypeOK, TaskStatuses
<1>2. CASE t \notin Tasks
  <2>1. [task EXCEPT ![t] = "failed"] = task
    BY <1>2 DEF TypeOK
  <2> QED BY <1>2, <2>1 DEF FailIfRunning
<1> QED BY <1>1, <1>2

(* A run's own steps are quiet: none claims a task or queues one. *)
LEMMA RunKinds ==
  ASSUME TypeOK, QueueingsPast, NEW r \in Runs, RunMoves(r)
  PROVE  Quiet
<1> USE DEF RunUnchanged, IdsKept, OnTrack, InCatch
<1>0. run \in [Runs -> Run] /\ (run[r].at # "unused" => run[r].task \in Tasks)
  BY DEF TypeOK, QueueingsPast, InUse
<1>1. CASE InsertRun(r)
  BY <1>0, <1>1 DEF InsertRun, Settled, Run, Quiet
<1>2. CASE StartAgent(r)
  BY <1>0, <1>2 DEF StartAgent, Run, Quiet
<1>3. CASE StreamEnds(r)
  BY <1>0, <1>3 DEF StreamEnds, Run, Quiet
<1>4. CASE RecordRun(r)
  BY <1>0, <1>4 DEF RecordRun, RowOver, Run, Quiet
<1>5. CASE ReadStatus(r)
  BY <1>0, <1>5 DEF ReadStatus, Run, Quiet
<1>6. CASE WriteStatus(r)
  <2> DEFINE t == run[r].task
  <2>1. t \in Tasks /\ run' = [run EXCEPT ![r].at = "announcing", ![r].outcome = "failed"] /\ queueing' = queueing
    BY <1>0, <1>6 DEF WriteStatus
  <2>2. \/ task' = task /\ task[t] = "deleted"
        \/ \E s \in {"cancelled", "approved", "needs_review", "failed"} : task' = [task EXCEPT ![t] = s]
    BY <1>6, <2>1, NextStatusTyped DEF WriteStatus, SetStatus
  <2>3. task'[t] # "running"
    BY <2>1, <2>2 DEF TypeOK
  <2>4. \/ task' = task
        \/ \E u \in Tasks, s \in (TaskStatuses \cup {"deleted"}) \ {"queued", "running"} : task' = [task EXCEPT ![u] = s]
    BY <2>1, <2>2 DEF TaskStatuses
  <2>5. IdsKept
    BY <1>0, <1>6, <2>1 DEF WriteStatus, Run
  <2>6. \A q \in Runs : run'[q].at \in {"announcing", "ended"} =>
          run[q].at \in {"announcing", "ended"} \/ task'[run[q].task] # "running"
    BY <1>0, <2>1, <2>3 DEF Run
  <2> QED BY <2>1, <2>4, <2>5, <2>6 DEF Quiet
<1>7. CASE Announce(r)
  BY <1>0, <1>7 DEF Announce, Settled, Run, Quiet
<1>8. CASE Throw(r)
  BY <1>0, <1>8 DEF Throw, Run, Quiet
<1>9. CASE CancelAgent(r)
  BY <1>0, <1>9 DEF CancelAgent, Run, Quiet
<1>10. CASE NoteFailure(r)
  BY <1>0, <1>10 DEF NoteFailure, RowOver, Run, Quiet
<1>11. CASE FailTask(r)
  <2>1. run[r].task \in Tasks /\ run' = [run EXCEPT ![r] = Settled(@, "ended")] /\ queueing' = queueing
    BY <1>0, <1>11 DEF FailTask
  <2>2. task' = FailIfRunning(run[r].task)
    BY <1>11 DEF FailTask
  <2>3. IdsKept
    BY <1>0, <1>11, <2>1 DEF FailTask, Settled, Run
  <2>4. \A q \in Runs : run'[q].at \in {"announcing", "ended"} =>
          run[q].at \in {"announcing", "ended"} \/ task'[run[q].task] # "running"
    BY <1>0, <2>1, <2>2, FailsOrKeeps DEF Settled, Run
  <2> QED BY <2>1, <2>2, <2>3, <2>4, FailsOrKeeps DEF Quiet
<1>12. CASE Beat(r)
  BY <1>0, <1>12 DEF Beat, Run, Quiet
<1>13. CASE GoStale(r)
  BY <1>0, <1>13 DEF GoStale, Run, Quiet
<1>14. CASE LoseRun(r)
  BY <1>0, <1>14 DEF LoseRun, Settled, Run, Quiet
<1>15. CASE StrayStops(r)
  BY <1>0, <1>15 DEF StrayStops, Run, Quiet
<1> QED BY <1>1, <1>2, <1>3, <1>4, <1>5, <1>6, <1>7, <1>8, <1>9, <1>10, <1>11, <1>12, <1>13, <1>14, <1>15 DEF RunMoves, RunStep

(* A worker's steps are quiet, but for the claim that wins its compare-and-set. *)
LEMMA WorkerKinds ==
  ASSUME TypeOK, NEW w \in Workers, Worker(w)
  PROVE  Quiet \/ \E t \in Tasks, r \in Runs : Claims(t, r)
<1>1. CASE ScanStart(w)
  BY <1>1 DEF ScanStart, Quiet, IdsKept
<1>2. CASE ScanCheck(w)
  BY <1>2 DEF ScanCheck, Quiet, IdsKept
<1>3. CASE ScanClaim(w)
  <2> DEFINE t == scan[w].pick
  <2>1. CASE StillQueued(t)
    <3>1. PICK r \in Runs :
            /\ Fresh(r)
            /\ run' = [run EXCEPT ![r] = [Unused EXCEPT !.task = t, !.worker = w,
                                                        !.queueing = queueing[t], !.at = "claimed"]]
      BY <1>3, <2>1 DEF ScanClaim
    <3>2. t \in Tasks /\ task' = [task EXCEPT ![t] = "running"] /\ queueing' = queueing
      BY <1>3, <2>1, TypeFacts DEF ScanClaim
    <3>3. run'[r] = [Unused EXCEPT !.task = t, !.worker = w, !.queueing = queueing[t], !.at = "claimed"]
      BY <3>1 DEF TypeOK
    <3>4. run'[r].task = t /\ run'[r].queueing = queueing[t] /\ run'[r].at = "claimed"
      BY <3>3 DEF Unused
    <3>5. \A q \in Runs \ {r} : run'[q] = run[q]
      BY <3>1 DEF TypeOK
    <3>6. Claims(t, r)
      BY <2>1, <3>1, <3>2, <3>4, <3>5 DEF Claims, StillQueued, Fresh
    <3> QED BY <3>2, <3>6
  <2>2. CASE ~StillQueued(t)
    BY <1>3, <2>2 DEF ScanClaim, Quiet, IdsKept
  <2> QED BY <2>1, <2>2
<1>4. CASE SweepRead(w)
  BY <1>4 DEF SweepRead, Quiet, IdsKept
<1>5. CASE SweepRun(w)
  BY <1>5, TypeFacts DEF SweepRun, RowOver, TypeOK, Run, Quiet, IdsKept
<1>6. CASE SweepTask(w)
  BY <1>6, FailsOrKeeps DEF SweepTask, Quiet, IdsKept
<1>7. CASE Crash(w)
  <2>1. \A r \in Runs : run'[r] = run[r] \/ (Alive(r) /\ run'[r].at = "dead" /\ run'[r].task = run[r].task
                                                    /\ run'[r].queueing = run[r].queueing)
    BY <1>7, TypeFacts DEF Crash, RunsOf, Settled, Run
  <2>2. IdsKept
    BY <2>1 DEF IdsKept, Alive, OnTrack, InCatch
  <2> QED BY <1>7, <2>1, <2>2 DEF Crash, Quiet
<1>8. CASE TickFails(w)
  BY <1>8 DEF TickFails, Quiet, IdsKept
<1> QED BY <1>1, <1>2, <1>3, <1>4, <1>5, <1>6, <1>7, <1>8 DEF Worker

(* The three kinds are all there is. *)
LEMMA StepKinds ==
  ASSUME TypeOK, QueueingsPast, [Next]_vars
  PROVE  Quiet \/ (\E t \in Tasks : Queues(t)) \/ (\E t \in Tasks, r \in Runs : Claims(t, r))
<1>1. CASE \E t \in Tasks : Web(t)
  BY <1>1, WebKinds
<1>2. CASE \E w \in Workers : Worker(w)
  BY <1>2, WorkerKinds
<1>3. CASE \E r \in Runs : RunMoves(r)
  BY <1>3, RunKinds
<1>4. CASE UNCHANGED vars
  BY <1>4 DEF vars, Quiet, IdsKept
<1> QED BY <1>1, <1>2, <1>3, <1>4 DEF Next

(* What each kind of step does to the parts. *)

(* A quiet step keeps every part: it takes tasks out of `queued` and `running` only,
   and a run that it ends has seen its task leave `running`. *)
LEMMA QuietKeeps ==
  ASSUME IInv, Quiet
  PROVE  QueueInv'
<1> USE DEF IInv, QueueInv
<1>1. \A t \in Tasks : task'[t] \in {"queued", "running"} => task'[t] = task[t]
  BY DEF Quiet, TypeOK
<1>2. ClaimedOnce'
  BY DEF Quiet, IdsKept, ClaimedOnce, InUse
<1>3. QueueingsPast'
  BY DEF Quiet, IdsKept, QueueingsPast, InUse
<1>4. QueuedIsUnclaimed'
  BY <1>1 DEF Quiet, IdsKept, QueueingsPast, QueuedIsUnclaimed, InUse, Current
<1>5. RunningHasRun'
  BY <1>1 DEF Quiet, IdsKept, RunningHasRun, InUse, Current
<1>6. EndedLeftRunning'
  <2> SUFFICES ASSUME NEW r \in Runs, run'[r].at \in {"announcing", "ended"},
                      run'[r].queueing = queueing'[run'[r].task]
               PROVE  task'[run'[r].task] # "running"
    BY DEF EndedLeftRunning, Current
  <2>1. run'[r].task = run[r].task /\ run'[r].queueing = run[r].queueing /\ queueing' = queueing
    BY DEF Quiet, IdsKept
  <2>2. run[r].task \in Tasks
    BY DEF Quiet, IdsKept, QueueingsPast, InUse
  <2>3. CASE run[r].at \in {"announcing", "ended"}
    BY <1>1, <2>1, <2>2, <2>3 DEF EndedLeftRunning, Current
  <2>4. CASE run[r].at \notin {"announcing", "ended"}
    BY <2>1, <2>4 DEF Quiet
  <2> QED BY <2>3, <2>4
<1>7. QueuedIsNumbered'
  BY <1>1 DEF Quiet, QueuedIsNumbered
<1> QED BY <1>2, <1>3, <1>4, <1>5, <1>6, <1>7

(* A new queueing has a number no run bears yet, so nobody has claimed it. *)
LEMMA QueuesKeeps ==
  ASSUME IInv, NEW t \in Tasks, Queues(t)
  PROVE  QueueInv'
<1> USE DEF IInv, QueueInv
<1>1. /\ run' = run
      /\ \A u \in Tasks : /\ task'[u] = IF u = t THEN "queued" ELSE task[u]
                          /\ queueing'[u] = IF u = t THEN queueing[t] + 1 ELSE queueing[u]
                          /\ queueing[u] \in Nat
  BY TaskRunsAssumption DEF Queues, TypeOK, TaskRunsAssumption
<1>2. \A r \in Runs : InUse(r) => /\ run[r].task \in Tasks
                                  /\ run[r].queueing \in Nat
                                  /\ run[r].queueing <= queueing[run[r].task]
  BY TypeFacts, TaskRunsAssumption DEF QueueingsPast, Run, TaskRunsAssumption
<1>3. ClaimedOnce'
  BY <1>1 DEF ClaimedOnce, InUse
<1>4. QueueingsPast'
  BY <1>1, <1>2 DEF QueueingsPast, InUse
<1>5. QueuedIsUnclaimed'
  BY <1>1, <1>2 DEF QueuedIsUnclaimed, InUse, Current
<1>6. RunningHasRun'
  BY <1>1 DEF RunningHasRun, InUse, Current
<1>7. EndedLeftRunning'
  BY <1>1, <1>2 DEF EndedLeftRunning, InUse, Current
<1>8. QueuedIsNumbered'
  BY <1>1 DEF QueuedIsNumbered
<1> QED BY <1>3, <1>4, <1>5, <1>6, <1>7, <1>8

(* A claim gives the new run the latest queueing, which was unclaimed as long as the
   task was queued; the task is then owned by it. *)
LEMMA ClaimsKeeps ==
  ASSUME IInv, NEW t \in Tasks, NEW r \in Runs, Claims(t, r)
  PROVE  QueueInv'
<1> USE DEF IInv, QueueInv
<1>1. /\ \A u \in Tasks : task'[u] = IF u = t THEN "running" ELSE task[u]
      /\ queueing' = queueing
      /\ queueing[t] \in Nat
  BY TaskRunsAssumption DEF Claims, TypeOK, TaskRunsAssumption
<1>2. /\ \A q \in Runs \ {r} : run'[q] = run[q]
      /\ ~InUse(r)
      /\ run'[r].task = t /\ run'[r].queueing = queueing[t] /\ run'[r].at = "claimed"
  BY DEF Claims, InUse
<1>3. \A q \in Runs : InUse(q) /\ run[q].task = t => run[q].queueing # queueing[t]
  BY DEF Claims, QueuedIsUnclaimed, Current
<1>4. \A q \in Runs : InUse(q) => run[q].task \in Tasks
  BY DEF QueueingsPast
<1>5. ClaimedOnce'
  <2> SUFFICES ASSUME NEW p \in Runs, NEW q \in Runs, InUse(p)', InUse(q)',
                      run'[p].task = run'[q].task, run'[p].queueing = run'[q].queueing
               PROVE  p = q
    BY DEF ClaimedOnce
  <2>1. CASE p # r /\ q # r
    BY <1>2, <2>1 DEF ClaimedOnce, InUse
  <2>2. CASE p = r \/ q = r
    BY <1>2, <1>3, <2>2 DEF InUse
  <2> QED BY <2>1, <2>2
<1>6. QueueingsPast'
  BY <1>1, <1>2 DEF QueueingsPast, InUse
<1>7. QueuedIsUnclaimed'
  <2> SUFFICES ASSUME NEW q \in Runs, InUse(q)', task'[run'[q].task] = "queued"
               PROVE  run'[q].queueing # queueing'[run'[q].task]
    BY DEF QueuedIsUnclaimed, Current
  <2>1. q # r
    BY <1>1, <1>2
  <2> QED BY <1>1, <1>2, <1>4, <2>1 DEF QueuedIsUnclaimed, InUse, Current
<1>8. RunningHasRun'
  <2> SUFFICES ASSUME NEW u \in Tasks, task'[u] = "running"
               PROVE  \E q \in Runs : InUse(q)' /\ run'[q].task = u /\ run'[q].queueing = queueing'[u]
    BY DEF RunningHasRun, Current
  <2>1. CASE u = t
    BY <1>1, <1>2, <2>1 DEF InUse
  <2>2. CASE u # t
    <3>1. PICK q \in Runs : InUse(q) /\ run[q].task = u /\ run[q].queueing = queueing[u]
      BY <1>1, <2>2 DEF RunningHasRun, Current
    <3> QED BY <1>1, <1>2, <3>1 DEF InUse
  <2> QED BY <2>1, <2>2
<1>9. EndedLeftRunning'
  <2> SUFFICES ASSUME NEW q \in Runs, run'[q].at \in {"announcing", "ended"},
                      run'[q].queueing = queueing'[run'[q].task]
               PROVE  task'[run'[q].task] # "running"
    BY DEF EndedLeftRunning, Current
  <2>1. q # r /\ InUse(q) /\ run'[q] = run[q]
    BY <1>2 DEF InUse
  <2> QED BY <1>1, <1>3, <1>4, <2>1 DEF EndedLeftRunning, Current
<1>10. QueuedIsNumbered'
  BY <1>1 DEF QueuedIsNumbered
<1> QED BY <1>5, <1>6, <1>7, <1>8, <1>9, <1>10

(* No run and no queueing exists at first. *)
LEMMA IInvInit == Init => IInv
BY TypeInit, TaskRunsAssumption
   DEF Init, IInv, QueueInv, Unused, ClaimedOnce, QueueingsPast, QueuedIsUnclaimed, RunningHasRun,
       EndedLeftRunning, QueuedIsNumbered, InUse, TaskRunsAssumption

(* IInv is inductive. *)
LEMMA IInvStep == IInv /\ [Next]_vars => IInv'
<1> SUFFICES ASSUME IInv, [Next]_vars PROVE IInv'
  OBVIOUS
<1>1. TypeOK'
  BY TypeStep DEF IInv
<1>2. Quiet \/ (\E t \in Tasks : Queues(t)) \/ (\E t \in Tasks, r \in Runs : Claims(t, r))
  BY StepKinds DEF IInv, QueueInv
<1>3. QueueInv'
  BY <1>2, QuietKeeps, QueuesKeeps, ClaimsKeeps
<1> QED BY <1>1, <1>3 DEF IInv

(* What the queue rests on, whatever the interleaving of control plane, scans,
   sweeps, runs and crashes: the inductive invariant holds in every reachable state. *)
THEOREM Inductive == Spec => []IInv
BY IInvInit, IInvStep, PTL DEF Spec

(* Claiming: however many workers poll, and whatever is cancelled, requeued,
   recovered or deleted meanwhile, one queueing starts one run at most. *)
THEOREM ClaimsAreExclusive == Spec => []ClaimedOnce
<1>1. IInv => ClaimedOnce
  BY DEF IInv, QueueInv
<1> QED BY <1>1, Inductive, PTL

(* A task that reads `running` has a run of its latest queueing, and that run
   has not returned: runTask cannot return and leave its own task behind. *)
THEOREM RunningTasksAreOwned == Spec => []RunningIsOwned
<1>1. IInv => RunningIsOwned
  <2> SUFFICES ASSUME IInv, NEW t \in Tasks, task[t] = "running"
               PROVE  \E r \in Runs : InUse(r) /\ run[r].task = t /\ Current(r) /\ run[r].at # "ended"
    BY DEF RunningIsOwned
  <2>1. PICK r \in Runs : InUse(r) /\ run[r].task = t /\ Current(r)
    BY DEF IInv, QueueInv, RunningHasRun
  <2>2. run[r].at # "ended"
    BY <2>1 DEF IInv, QueueInv, EndedLeftRunning
  <2> QED BY <2>1, <2>2
<1> QED BY <1>1, Inductive, PTL

-----------------------------------------------------------------------------
(* Agents.  An agent is watched exactly where the code holds its run object:
   while the events are consumed, and in the catch block until it is killed. *)

WatchedWhere ==
  \A r \in Runs : run[r].agent = "watched" => run[r].at \in {"streaming", "failing"}

WInv == TypeOK /\ WatchedWhere

(* An agent is watched only by a run that consumes its events, or whose catch
   block is about to stop it: every other step has let go of it. *)
LEMMA WatchedStep == WInv /\ [Next]_vars => WatchedWhere'
<1> SUFFICES ASSUME WInv, [Next]_vars PROVE WatchedWhere'
  OBVIOUS
<1> USE DEF WatchedWhere, WInv
<1>0. run \in [Runs -> Run]
  BY DEF TypeOK
<1>1. ASSUME NEW t \in Tasks, Web(t)
      PROVE  WatchedWhere'
  <2>1. CASE DeleteRow(t)
    BY <1>0, <2>1 DEF DeleteRow, RowOver, Run
  <2>2. CASE ~DeleteRow(t)
    <3>1. run' = run
      BY <1>1, <2>2 DEF Web, WebUnchanged, Create, Approve, Cancel, Requeue, DeleteCheck, MergeStart, MergeEnd
    <3> QED BY <3>1
  <2> QED BY <2>1, <2>2
<1>2. ASSUME NEW r \in Runs, RunMoves(r)
      PROVE  WatchedWhere'
  <2> USE <1>0 DEF Run, OnTrack, InCatch
  <2>1. CASE InsertRun(r)
    BY <2>1 DEF InsertRun, Settled
  <2>2. CASE StartAgent(r)
    BY <2>2 DEF StartAgent
  <2>3. CASE StreamEnds(r)
    BY <2>3 DEF StreamEnds
  <2>4. CASE RecordRun(r)
    BY <2>4 DEF RecordRun, RowOver
  <2>5. CASE ReadStatus(r)
    BY <2>5 DEF ReadStatus
  <2>6. CASE WriteStatus(r)
    BY <2>6 DEF WriteStatus
  <2>7. CASE Announce(r)
    BY <2>7 DEF Announce, Settled
  <2>8. CASE Throw(r)
    BY <2>8 DEF Throw
  <2>9. CASE CancelAgent(r)
    BY <2>9 DEF CancelAgent
  <2>10. CASE NoteFailure(r)
    BY <2>10 DEF NoteFailure, RowOver
  <2>11. CASE FailTask(r)
    BY <2>11 DEF FailTask, Settled
  <2>12. CASE Beat(r)
    BY <2>12 DEF Beat
  <2>13. CASE GoStale(r)
    BY <2>13 DEF GoStale
  <2>14. CASE LoseRun(r)
    BY <2>14 DEF LoseRun, Settled
  <2>15. CASE StrayStops(r)
    BY <2>15 DEF StrayStops
  <2> QED BY <1>2, <2>1, <2>2, <2>3, <2>4, <2>5, <2>6, <2>7, <2>8, <2>9, <2>10, <2>11, <2>12,
             <2>13, <2>14, <2>15 DEF RunMoves, RunStep
<1>3. ASSUME NEW w \in Workers, Worker(w)
      PROVE  WatchedWhere'
  <2>1. CASE ScanStart(w) \/ ScanCheck(w) \/ SweepRead(w) \/ SweepTask(w) \/ TickFails(w)
    BY <2>1 DEF ScanStart, ScanCheck, SweepRead, SweepTask, TickFails
  <2>2. CASE ScanClaim(w)
    BY <1>0, <2>2 DEF ScanClaim, Unused
  <2>3. CASE SweepRun(w)
    BY <1>0, <2>3, TypeFacts DEF SweepRun, RowOver, Run
  <2>4. CASE Crash(w)
    BY <1>0, <2>4 DEF Crash, Settled, Run
  <2> QED BY <1>3, <2>1, <2>2, <2>3, <2>4 DEF Worker
<1>4. CASE UNCHANGED vars
  BY <1>4 DEF vars
<1> QED BY <1>1, <1>2, <1>3, <1>4 DEF Next

(* However a run ends, returned, rejected or with its process, nothing goes on
   believing it watches the agent: the catch block has asked it to stop. *)
THEOREM AgentsAreLetGo == Spec => []NoWatchedAgentLeft
<1>1. Init => WInv
  BY TypeInit DEF Init, WInv, WatchedWhere, Unused
<1>2. WInv /\ [Next]_vars => WInv'
  BY TypeStep, WatchedStep DEF WInv
<1>3. WInv => NoWatchedAgentLeft
  BY DEF WInv, WatchedWhere, NoWatchedAgentLeft, Finished
<1> QED BY <1>1, <1>2, <1>3, PTL DEF Spec

-----------------------------------------------------------------------------
(* Slots.  A free slot seen when a scan starts is still free when it claims,
   because a worker claims one task at a time and nobody else adds to its runs. *)

SlotInv ==
  /\ TypeOK
  /\ \A w \in Workers : /\ Cardinality(RunsOf(w)) <= Slots
                        /\ scan[w] # NoScan => Cardinality(RunsOf(w)) < Slots

(* The runs a worker holds are finitely many, so counting them means something. *)
LEMMA RunsOfFinite ==
  ASSUME NEW w
  PROVE  IsFiniteSet(RunsOf(w)) /\ Cardinality(RunsOf(w)) \in Nat
<1>1. IsFiniteSet(Runs)
  BY FS_Interval, TaskRunsAssumption DEF Runs, TaskRunsAssumption
<1>2. RunsOf(w) \subseteq Runs
  BY DEF RunsOf
<1> QED BY <1>1, <1>2, FS_Subset, FS_CardinalityType

(* No new run for v, and no new scan: its part of the invariant is kept. *)
LEMMA FewerKeeps ==
  ASSUME SlotInv, NEW v \in Workers, RunsOf(v)' \subseteq RunsOf(v),
         scan'[v] # NoScan => scan[v] # NoScan
  PROVE  /\ Cardinality(RunsOf(v)') <= Slots
         /\ scan'[v] # NoScan => Cardinality(RunsOf(v)') < Slots
<1>1. Cardinality(RunsOf(v)') <= Cardinality(RunsOf(v)) /\ Cardinality(RunsOf(v)') \in Nat
  BY RunsOfFinite, FS_Subset, FS_CardinalityType
<1> QED BY <1>1, RunsOfFinite, TaskRunsAssumption DEF SlotInv, TaskRunsAssumption

(* All but a claim leave a run its worker and bring none to life. *)
NoneAdded == \A r \in Runs : Alive(r)' => Alive(r) /\ run'[r].worker = run[r].worker

(* If no run comes to life, no worker holds more than before. *)
LEMMA NoneAddedKeeps ==
  ASSUME NoneAdded
  PROVE  \A v : RunsOf(v)' \subseteq RunsOf(v)
BY DEF NoneAdded, RunsOf

(* A run's own steps bring no run to life and leave the scans alone. *)
LEMMA RunsAddNone ==
  ASSUME TypeOK, NEW r \in Runs, RunMoves(r)
  PROVE  NoneAdded /\ scan' = scan
<1> USE DEF NoneAdded, Alive, OnTrack, InCatch, RunUnchanged, Run
<1>0. run \in [Runs -> Run]
  BY DEF TypeOK
<1>1. CASE InsertRun(r)
  BY <1>0, <1>1 DEF InsertRun, Settled
<1>2. CASE StartAgent(r)
  BY <1>0, <1>2 DEF StartAgent
<1>3. CASE StreamEnds(r)
  BY <1>0, <1>3 DEF StreamEnds
<1>4. CASE RecordRun(r)
  BY <1>0, <1>4 DEF RecordRun, RowOver
<1>5. CASE ReadStatus(r)
  BY <1>0, <1>5 DEF ReadStatus
<1>6. CASE WriteStatus(r)
  BY <1>0, <1>6 DEF WriteStatus
<1>7. CASE Announce(r)
  BY <1>0, <1>7 DEF Announce, Settled
<1>8. CASE Throw(r)
  BY <1>0, <1>8 DEF Throw
<1>9. CASE CancelAgent(r)
  BY <1>0, <1>9 DEF CancelAgent
<1>10. CASE NoteFailure(r)
  BY <1>0, <1>10 DEF NoteFailure, RowOver
<1>11. CASE FailTask(r)
  BY <1>0, <1>11 DEF FailTask, Settled
<1>12. CASE Beat(r)
  BY <1>0, <1>12 DEF Beat
<1>13. CASE GoStale(r)
  BY <1>0, <1>13 DEF GoStale
<1>14. CASE LoseRun(r)
  BY <1>0, <1>14 DEF LoseRun, Settled
<1>15. CASE StrayStops(r)
  BY <1>0, <1>15 DEF StrayStops
<1> QED BY <1>1, <1>2, <1>3, <1>4, <1>5, <1>6, <1>7, <1>8, <1>9, <1>10, <1>11, <1>12, <1>13, <1>14, <1>15
        DEF RunMoves, RunStep

(* Nor does the control plane. *)
LEMMA WebAddsNone ==
  ASSUME TypeOK, NEW t \in Tasks, Web(t)
  PROVE  NoneAdded /\ scan' = scan
<1>1. CASE DeleteRow(t)
  BY <1>1 DEF DeleteRow, RowOver, NoneAdded, Alive, TypeOK, Run
<1>2. CASE ~DeleteRow(t)
  <2>1. run' = run /\ scan' = scan
    BY <1>2 DEF Web, WebUnchanged, Create, Approve, Cancel, Requeue, DeleteCheck, MergeStart, MergeEnd
  <2> QED BY <2>1 DEF NoneAdded, Alive
<1> QED BY <1>1, <1>2

(* A worker's step keeps the bound for every worker: a scan starts only while a slot
   is free, and only a scan claims. *)
LEMMA WorkerSlots ==
  ASSUME SlotInv, NEW w \in Workers, Worker(w), NEW v \in Workers
  PROVE  /\ Cardinality(RunsOf(v)') <= Slots
         /\ scan'[v] # NoScan => Cardinality(RunsOf(v)') < Slots
<1>0. TypeOK
  BY DEF SlotInv
<1>1. CASE ScanStart(w)
  <2>1. RunsOf(v)' = RunsOf(v)
    BY <1>1 DEF ScanStart, RunsOf, Alive
  <2>2. CASE v = w
    <3>1. Cardinality(RunsOf(w)) < Slots
      BY <1>1, RunsOfFinite, TaskRunsAssumption DEF ScanStart, FreeSlots, TaskRunsAssumption
    <3> QED BY <2>1, <2>2, <3>1, RunsOfFinite, TaskRunsAssumption DEF TaskRunsAssumption
  <2>3. CASE v # w
    <3>1. scan'[v] = scan[v]
      BY <1>1, <2>3, <1>0 DEF ScanStart, TypeOK
    <3> QED BY <2>1, <3>1 DEF SlotInv
  <2> QED BY <2>2, <2>3
<1>2. CASE ScanCheck(w)
  <2>1. NoneAdded
    BY <1>2 DEF ScanCheck, NoneAdded, Alive
  <2>2. scan'[v] # NoScan => scan[v] # NoScan
    <3>1. scan[w] # NoScan
      BY <1>2 DEF ScanCheck, NoScan
    <3>2. v # w => scan'[v] = scan[v]
      BY <1>2, <1>0 DEF ScanCheck, TypeOK
    <3> QED BY <3>1, <3>2
  <2> QED BY <2>1, <2>2, NoneAddedKeeps, FewerKeeps
<1>3. CASE ScanClaim(w)
  <2>1. CASE StillQueued(scan[w].pick)
    <3>1. PICK r \in Runs :
            /\ Fresh(r)
            /\ run' = [run EXCEPT ![r] = [Unused EXCEPT !.task = scan[w].pick, !.worker = w,
                         !.queueing = queueing[scan[w].pick], !.at = "claimed"]]
      BY <1>3, <2>1 DEF ScanClaim
    <3>2. scan' = [scan EXCEPT ![w] = NoScan] /\ scan[w].pick # NoTask
      BY <1>3, <2>1 DEF ScanClaim
    <3>3. run'[r].worker = w /\ \A q \in Runs \ {r} : run'[q] = run[q]
      BY <3>1, <1>0 DEF TypeOK, Unused
    <3>4. CASE v = w
      <4>1. RunsOf(w)' \subseteq RunsOf(w) \cup {r}
        BY <3>3 DEF RunsOf, Alive
      <4>2. Cardinality(RunsOf(w) \cup {r}) <= Cardinality(RunsOf(w)) + 1 /\ IsFiniteSet(RunsOf(w) \cup {r})
        <5>1. /\ IsFiniteSet(RunsOf(w) \cup {r})
              /\ Cardinality(RunsOf(w) \cup {r}) =
                   IF r \in RunsOf(w) THEN Cardinality(RunsOf(w)) ELSE Cardinality(RunsOf(w)) + 1
          BY RunsOfFinite, FS_AddElement
        <5> QED BY <5>1, RunsOfFinite
      <4>3. Cardinality(RunsOf(w)') <= Cardinality(RunsOf(w) \cup {r})
        BY <4>1, <4>2, FS_Subset
      <4>4. Cardinality(RunsOf(w)') \in Nat /\ Cardinality(RunsOf(w) \cup {r}) \in Nat
        BY <4>1, <4>2, FS_Subset, FS_CardinalityType
      <4>5. Cardinality(RunsOf(w)) < Slots
        BY <3>2 DEF SlotInv, NoScan
      <4>6. scan'[w] = NoScan
        BY <3>2, <1>0 DEF TypeOK
      <4> QED BY <3>4, <4>2, <4>3, <4>4, <4>5, <4>6, RunsOfFinite, TaskRunsAssumption DEF TaskRunsAssumption
    <3>5. CASE v # w
      <4>1. RunsOf(v)' \subseteq RunsOf(v)
        BY <3>3, <3>5 DEF RunsOf, Alive
      <4>2. scan'[v] = scan[v]
        BY <3>2, <3>5, <1>0 DEF TypeOK
      <4> QED BY <4>1, <4>2, FewerKeeps
    <3> QED BY <3>4, <3>5
  <2>2. CASE ~StillQueued(scan[w].pick)
    <3>1. run' = run /\ scan' = [scan EXCEPT ![w].pick = NoTask] /\ scan[w].pick # NoTask
      BY <1>3, <2>2 DEF ScanClaim
    <3>2. NoneAdded
      BY <3>1 DEF NoneAdded, Alive
    <3>3. scan[w] # NoScan
      BY <3>1 DEF NoScan
    <3>4. v # w => scan'[v] = scan[v]
      BY <3>1, <1>0 DEF TypeOK
    <3> QED BY <3>2, <3>3, <3>4, NoneAddedKeeps, FewerKeeps
  <2> QED BY <2>1, <2>2
<1>4. CASE SweepRead(w) \/ SweepTask(w)
  <2>1. NoneAdded /\ scan' = scan
    BY <1>4 DEF SweepRead, SweepTask, NoneAdded, Alive
  <2> QED BY <2>1, NoneAddedKeeps, FewerKeeps
<1>5. CASE SweepRun(w)
  <2>1. NoneAdded /\ scan' = scan
    BY <1>5, <1>0, TypeFacts DEF SweepRun, RowOver, NoneAdded, Alive, TypeOK, Run
  <2> QED BY <2>1, NoneAddedKeeps, FewerKeeps
<1>6. CASE Crash(w)
  <2>1. \A r \in Runs : run'[r] = run[r] \/ run'[r].at = "dead"
    BY <1>6, <1>0, TypeFacts DEF Crash, Settled, Run
  <2>2. NoneAdded
    BY <2>1 DEF NoneAdded, Alive, OnTrack, InCatch
  <2>3. scan'[v] # NoScan => scan[v] # NoScan
    BY <1>6, <1>0 DEF Crash, TypeOK
  <2> QED BY <2>2, <2>3, NoneAddedKeeps, FewerKeeps
<1>7. CASE TickFails(w)
  <2>1. NoneAdded
    BY <1>7 DEF TickFails, NoneAdded, Alive
  <2>2. scan'[v] # NoScan => scan[v] # NoScan
    BY <1>7, <1>0 DEF TickFails, TypeOK
  <2> QED BY <2>1, <2>2, NoneAddedKeeps, FewerKeeps
<1> QED BY <1>1, <1>2, <1>3, <1>4, <1>5, <1>6, <1>7 DEF Worker

(* The bound, with a slot reserved for each scan under way, is inductive. *)
LEMMA SlotStep == SlotInv /\ [Next]_vars => SlotInv'
<1> SUFFICES ASSUME SlotInv, [Next]_vars PROVE SlotInv'
  OBVIOUS
<1>1. TypeOK'
  BY TypeStep DEF SlotInv
<1>2. ASSUME NEW v \in Workers
      PROVE  /\ Cardinality(RunsOf(v)') <= Slots
             /\ scan'[v] # NoScan => Cardinality(RunsOf(v)') < Slots
  <2>1. CASE \E w \in Workers : Worker(w)
    BY <2>1, WorkerSlots
  <2>2. CASE \/ \E t \in Tasks : Web(t)
             \/ \E r \in Runs : RunMoves(r)
             \/ UNCHANGED vars
    <3>1. NoneAdded /\ scan' = scan
      BY <2>2, WebAddsNone, RunsAddNone DEF SlotInv, vars, NoneAdded, Alive
    <3> QED BY <3>1, NoneAddedKeeps, FewerKeeps
  <2> QED BY <2>1, <2>2 DEF Next
<1> QED BY <1>1, <1>2 DEF SlotInv

(* A worker never holds more runs than WORKER_MAX_CONCURRENT_RUNS. *)
THEOREM SlotsAreKept == Spec => []SlotBound
<1>1. Init => SlotInv
  <2> SUFFICES ASSUME Init PROVE SlotInv
    OBVIOUS
  <2>1. \A w : RunsOf(w) = {}
    BY DEF Init, RunsOf, Alive, Unused, OnTrack, InCatch
  <2>2. \A w \in Workers : scan[w] = NoScan
    BY DEF Init
  <2> QED BY <2>1, <2>2, TypeInit, FS_EmptySet, TaskRunsAssumption DEF SlotInv, TaskRunsAssumption
<1>2. SlotInv /\ [Next]_vars => SlotInv'
  BY SlotStep
<1>3. SlotInv => SlotBound
  BY DEF SlotInv, SlotBound
<1> QED BY <1>1, <1>2, <1>3, PTL DEF Spec

-----------------------------------------------------------------------------
(* Refinement.  The k-th queueing of a task is a ticket of TicketQueue, open
   while the task is still queued from it, and the runs are the takers. *)

Keys == Tasks \X (1..MaxQueueings)
Issued == {k \in Keys : k[2] <= queueing[k[1]]}
Open == {k \in Keys : task[k[1]] = "queued" /\ k[2] = queueing[k[1]]}
HoldersOf(k) == {r \in Runs : InUse(r) /\ run[r].task = k[1] /\ run[r].queueing = k[2]}
Holders == [k \in Keys |-> HoldersOf(k)]

(* A ticket is a task with the number of one of its queueings. *)
LEMMA KeyFacts ==
  ASSUME NEW k \in Keys
  PROVE  k[1] \in Tasks /\ k[2] \in 1..MaxQueueings /\ k = <<k[1], k[2]>>
BY DEF Keys

(* At first no ticket has been issued. *)
LEMMA InitRefines == Init => Queue!TicketInit
<1> SUFFICES ASSUME Init PROVE Queue!TicketInit
  OBVIOUS
<1>1. Issued = {}
  BY KeyFacts DEF Init, Issued
<1>2. Open = {}
  BY KeyFacts DEF Init, Open
<1>3. Holders = [k \in Keys |-> {}]
  BY DEF Init, Holders, HoldersOf, InUse, Unused
<1> QED BY <1>1, <1>2, <1>3 DEF Queue!TicketInit, Issued, Open, Holders, HoldersOf, Keys

(* Who holds a ticket depends on the runs' identities alone. *)
LEMMA SameIdsSameHolders ==
  ASSUME IdsKept
  PROVE  Holders' = Holders
BY DEF IdsKept, Holders, HoldersOf, InUse

(* A quiet step changes no ticket, or withdraws one: its task leaves `queued`. *)
LEMMA QuietRefines ==
  ASSUME IInv, Quiet
  PROVE  \/ Issued' = Issued /\ Open' = Open /\ Holders' = Holders
         \/ \E k \in Keys : k \in Open /\ Open' = Open \ {k} /\ Issued' = Issued /\ Holders' = Holders
<1>1. Issued' = Issued /\ Holders' = Holders
  BY SameIdsSameHolders DEF Quiet, Issued
<1>2. CASE task' = task
  BY <1>1, <1>2 DEF Quiet, Open
<1>3. CASE \E t \in Tasks, s \in (TaskStatuses \cup {"deleted"}) \ {"queued", "running"} :
             task' = [task EXCEPT ![t] = s]
  <2>1. PICK t \in Tasks, s \in (TaskStatuses \cup {"deleted"}) \ {"queued", "running"} :
          task' = [task EXCEPT ![t] = s]
    BY <1>3
  <2>2. /\ queueing' = queueing
        /\ \A u \in Tasks : task'[u] = "queued" <=> task[u] = "queued" /\ u # t
    BY <2>1 DEF Quiet, IInv, TypeOK
  <2>3. Open' = {k \in Open : k[1] # t}
    BY <2>2, KeyFacts DEF Open
  <2>4. CASE task[t] = "queued"
    <3> DEFINE k == <<t, queueing[t]>>
    <3>1. queueing[t] \in 1..MaxQueueings
      BY <2>4, TaskRunsAssumption DEF IInv, QueueInv, TypeOK, QueuedIsNumbered, TaskRunsAssumption
    <3>2. k \in Keys /\ k \in Open
      BY <2>4, <3>1 DEF Keys, Open
    <3>3. \A j \in Open : j[1] = t => j = k
      BY KeyFacts DEF Open
    <3>4. Open' = Open \ {k}
      BY <2>3, <3>3
    <3> QED BY <1>1, <3>2, <3>4
  <2>5. CASE task[t] # "queued"
    <3>1. Open' = Open
      BY <2>3, <2>5 DEF Open
    <3> QED BY <1>1, <3>1
  <2> QED BY <2>4, <2>5
<1> QED BY <1>2, <1>3 DEF Quiet

(* Queueing a task issues the ticket of its next number. *)
LEMMA QueuesRefines ==
  ASSUME IInv, NEW t \in Tasks, Queues(t)
  PROVE  \E k \in Keys : /\ k \notin Issued
                         /\ Issued' = Issued \cup {k}
                         /\ Open' = Open \cup {k}
                         /\ Holders' = Holders
<1> DEFINE k == <<t, queueing[t] + 1>>
<1>0. /\ \A u \in Tasks : /\ task'[u] = IF u = t THEN "queued" ELSE task[u]
                          /\ queueing'[u] = IF u = t THEN queueing[t] + 1 ELSE queueing[u]
                          /\ queueing[u] \in Nat
      /\ queueing[t] < MaxQueueings /\ MaxQueueings \in Nat
      /\ task[t] # "queued"
  BY TaskRunsAssumption DEF Queues, IInv, TypeOK, TaskRunsAssumption
<1>1. k \in Keys /\ k \notin Issued
  BY <1>0 DEF Keys, Issued
<1>2. Issued' = Issued \cup {k}
  <2>1. ASSUME NEW j \in Keys
        PROVE  j[2] <= queueing'[j[1]] <=> j[2] <= queueing[j[1]] \/ j = k
    <3>1. j[1] \in Tasks /\ j[2] \in Nat /\ j = <<j[1], j[2]>>
      BY KeyFacts
    <3>2. CASE j[1] = t
      <4>1. j[2] <= queueing[t] + 1 <=> j[2] <= queueing[t] \/ j[2] = queueing[t] + 1
        BY <1>0, <3>1
      <4> QED BY <1>0, <3>1, <3>2, <4>1
    <3>3. CASE j[1] # t
      BY <1>0, <3>1, <3>3
    <3> QED BY <3>2, <3>3
  <2> QED BY <1>1, <2>1 DEF Issued
<1>3. Open' = Open \cup {k}
  <2>1. ASSUME NEW j \in Keys
        PROVE  (task'[j[1]] = "queued" /\ j[2] = queueing'[j[1]])
                 <=> (task[j[1]] = "queued" /\ j[2] = queueing[j[1]]) \/ j = k
    <3>1. j[1] \in Tasks /\ j[2] \in Nat /\ j = <<j[1], j[2]>>
      BY KeyFacts
    <3> QED BY <1>0, <3>1
  <2> QED BY <1>1, <2>1 DEF Open
<1>4. Holders' = Holders
  BY DEF Queues, Holders, HoldersOf, InUse
<1> QED BY <1>1, <1>2, <1>3, <1>4

(* A claim takes the open ticket of the task's latest queueing. *)
LEMMA ClaimsRefines ==
  ASSUME IInv, NEW t \in Tasks, NEW r \in Runs, Claims(t, r)
  PROVE  \E k \in Keys : /\ k \in Open
                         /\ Open' = Open \ {k}
                         /\ Holders' = [Holders EXCEPT ![k] = @ \cup {r}]
                         /\ Issued' = Issued
<1> DEFINE k == <<t, queueing[t]>>
<1>1. k \in Keys /\ k \in Open
  BY TaskRunsAssumption DEF Claims, Keys, Open, IInv, QueueInv, TypeOK, QueuedIsNumbered, TaskRunsAssumption
<1>2. Issued' = Issued
  BY DEF Claims, Issued
<1>3. Open' = Open \ {k}
  <2>1. ASSUME NEW j \in Keys
        PROVE  (task'[j[1]] = "queued" /\ j[2] = queueing'[j[1]])
                 <=> (task[j[1]] = "queued" /\ j[2] = queueing[j[1]]) /\ j # k
    <3>1. j[1] \in Tasks /\ j = <<j[1], j[2]>>
      BY KeyFacts
    <3>2. queueing' = queueing /\ task'[j[1]] = IF j[1] = t THEN "running" ELSE task[j[1]]
      BY <3>1 DEF Claims, IInv, TypeOK
    <3> QED BY <3>1, <3>2
  <2> QED BY <2>1 DEF Open
<1>4. ASSUME NEW j \in Keys
      PROVE  HoldersOf(j)' = IF j = k THEN HoldersOf(j) \cup {r} ELSE HoldersOf(j)
  <2>1. j = <<j[1], j[2]>>
    BY KeyFacts
  <2>2. /\ ~InUse(r) /\ InUse(r)'
        /\ run'[r].task = t /\ run'[r].queueing = queueing[t]
        /\ \A q \in Runs \ {r} : run'[q] = run[q]
    BY DEF Claims, InUse
  <2> QED BY <2>1, <2>2 DEF HoldersOf, InUse
<1>5. Holders' = [Holders EXCEPT ![k] = @ \cup {r}]
  BY <1>1, <1>4 DEF Holders
<1> QED BY <1>1, <1>2, <1>3, <1>5

(* Every step of the workers and the control plane is a step of the queue or none. *)
LEMMA StepRefines == IInv /\ [Next]_vars => [Queue!TicketNext]_(Queue!ticketVars)
<1> SUFFICES ASSUME IInv, [Next]_vars
             PROVE  Queue!TicketNext \/ UNCHANGED <<Issued, Open, Holders>>
  BY DEF Queue!ticketVars, Issued, Open, Holders, HoldersOf, Keys
<1>0. Quiet \/ (\E t \in Tasks : Queues(t)) \/ (\E t \in Tasks, r \in Runs : Claims(t, r))
  BY StepKinds DEF IInv, QueueInv
<1>1. CASE Quiet
  BY <1>1, QuietRefines DEF Queue!TicketNext, Queue!Withdraw, Issued, Open, Holders, HoldersOf, Keys
<1>2. CASE \E t \in Tasks : Queues(t)
  BY <1>2, QueuesRefines DEF Queue!TicketNext, Queue!Issue, Issued, Open, Holders, HoldersOf, Keys
<1>3. CASE \E t \in Tasks, r \in Runs : Claims(t, r)
  <2>1. PICK r \in Runs, k \in Keys : /\ k \in Open
                                      /\ Open' = Open \ {k}
                                      /\ Holders' = [Holders EXCEPT ![k] = @ \cup {r}]
                                      /\ Issued' = Issued
    BY <1>3, ClaimsRefines
  <2>2. Queue!Take(k, r)
    BY <2>1 DEF Queue!Take, Issued, Open, Holders, HoldersOf, Keys
  <2> QED BY <2>2 DEF Queue!TicketNext, Keys
<1> QED BY <1>0, <1>1, <1>2, <1>3

(* Every behaviour of the workers and the control plane is one of the ticket
   queue: each claim takes an open ticket, and no ticket is issued twice. *)
THEOREM TicketsAreTaken == Spec => ImplementsTicketQueue
<1>1. Init => Queue!TicketInit
  BY InitRefines
<1>2. IInv /\ [Next]_vars => [Queue!TicketNext]_(Queue!ticketVars)
  BY StepRefines
<1> QED BY <1>1, <1>2, Inductive, PTL DEF Spec, ImplementsTicketQueue, Queue!TicketSpec

-----------------------------------------------------------------------------
(* Scopes, for a single worker.  It compares a candidate with the running tasks
   and then claims it; until it does nothing else starts running, because it is
   the only one that claims. *)

(* Two running tasks do not overlap. *)
RunningApart ==
  \A t, u \in Tasks : t # u /\ task[t] = "running" /\ task[u] = "running" => <<t, u>> \notin Overlap

(* Nor does the task about to be claimed overlap a running one. *)
PickApart ==
  \A w \in Workers, u \in Tasks :
    scan[w].pick # NoTask /\ task[u] = "running" => ~Overlapping(scan[w].pick, u)

ApartInv == RunningApart /\ PickApart

(* What every step but a claim does to the two: no task starts running, and a
   pick was compared with what runs. *)
LEMMA NoneStartsKeeps ==
  ASSUME ApartInv,
         \A u \in Tasks : task'[u] = "running" => task[u] = "running",
         \A w \in Workers : scan'[w].pick \in {NoTask, scan[w].pick}
  PROVE  ApartInv'
BY DEF ApartInv, RunningApart, PickApart, Overlapping

(* No step of the control plane or of a run starts one, and neither picks. *)
LEMMA OthersPickNone ==
  ASSUME TypeOK, \/ \E t \in Tasks : Web(t)
                 \/ \E r \in Runs : RunMoves(r)
  PROVE  scan' = scan
<1>1. ASSUME NEW t \in Tasks, Web(t)
      PROVE  scan' = scan
  BY <1>1 DEF Web, WebUnchanged, Create, Approve, Cancel, Requeue, DeleteCheck, DeleteRow, MergeStart, MergeEnd
<1>2. ASSUME NEW r \in Runs, RunMoves(r)
      PROVE  scan' = scan
  BY <1>2 DEF RunMoves, RunStep, RunUnchanged, InsertRun, StartAgent, StreamEnds, RecordRun, ReadStatus,
              WriteStatus, Announce, Throw, CancelAgent, NoteFailure, FailTask, Beat, GoStale, LoseRun, StrayStops
<1> QED BY <1>1, <1>2

(* One worker that blocks keeps overlapping tasks from running together. *)
LEMMA ApartStep ==
  ASSUME Block, \A v, w \in Workers : v = w, IInv, ApartInv, [Next]_vars
  PROVE  ApartInv'
<1>0. TypeOK /\ QueueingsPast
  BY DEF IInv, QueueInv
<1>1. CASE \E t \in Tasks : Web(t)
  <2>1. \A u \in Tasks : task'[u] = "running" => task[u] = "running"
    BY <1>0, <1>1, WebKinds DEF Quiet, Queues, TypeOK
  <2> QED BY <1>0, <1>1, <2>1, OthersPickNone, NoneStartsKeeps
<1>2. CASE \E r \in Runs : RunMoves(r)
  <2>1. \A u \in Tasks : task'[u] = "running" => task[u] = "running"
    BY <1>0, <1>2, RunKinds DEF Quiet, TypeOK
  <2> QED BY <1>0, <1>2, <2>1, OthersPickNone, NoneStartsKeeps
<1>3. ASSUME NEW w \in Workers, Worker(w)
      PROVE  ApartInv'
  <2>0. scan \in [Workers -> [left : SUBSET Tasks, pick : Tasks \cup {NoTask}]]
    BY <1>0 DEF TypeOK
  <2>1. CASE ScanCheck(w)
    <3>1. PICK t \in scan[w].left :
            /\ scan[w].pick = NoTask
            /\ scan' = [scan EXCEPT ![w] = [left |-> @.left \ {t},
                                            pick |-> IF t \in Closed \/ Blocked(t) THEN NoTask ELSE t]]
            /\ task' = task
      BY <2>1 DEF ScanCheck
    <3>2. \A u \in Tasks : ~Blocked(t) /\ task[u] = "running" => ~Overlapping(t, u)
      BY DEF Blocked
    <3>3. scan'[w].pick \in {NoTask, t} /\ (Blocked(t) => scan'[w].pick = NoTask)
      BY <2>0, <3>1
    <3>4. \A v \in Workers : v = w
      OBVIOUS
    <3>5. PickApart'
      BY <3>1, <3>2, <3>3, <3>4 DEF PickApart, Overlapping
    <3> QED BY <3>1, <3>5 DEF ApartInv, RunningApart
  <2>2. CASE ScanClaim(w) /\ StillQueued(scan[w].pick)
    <3> DEFINE t == scan[w].pick
    <3>1. /\ t \in Tasks /\ t # NoTask
          /\ task' = [task EXCEPT ![t] = "running"]
          /\ scan' = [scan EXCEPT ![w] = NoScan]
      BY <2>0, <2>2 DEF ScanClaim, StillQueued
    <3>2. task'[t] = "running" /\ \A u \in Tasks \ {t} : task'[u] = task[u]
      BY <1>0, <3>1 DEF TypeOK
    <3>3. \A v \in Workers : scan'[v].pick = NoTask
      BY <2>0, <3>1 DEF NoScan
    <3>4. \A u \in Tasks \ {t} : task[u] = "running" => <<t, u>> \notin Overlap /\ <<u, t>> \notin Overlap
      BY <3>1 DEF ApartInv, PickApart, Overlapping
    <3>5. RunningApart'
      BY <3>2, <3>4 DEF ApartInv, RunningApart
    <3>6. PickApart'
      BY <3>3 DEF PickApart
    <3> QED BY <3>5, <3>6 DEF ApartInv
  <2>3. CASE ScanStart(w) \/ TickFails(w) \/ Crash(w) \/ (ScanClaim(w) /\ ~StillQueued(scan[w].pick))
    <3>1. task' = task
      BY <2>3 DEF ScanStart, TickFails, Crash, ScanClaim
    <3>2. \A v \in Workers : scan'[v].pick \in {NoTask, scan[v].pick}
      BY <2>0, <2>3 DEF ScanStart, TickFails, Crash, ScanClaim, NoScan
    <3> QED BY <3>1, <3>2, NoneStartsKeeps
  <2>4. CASE SweepRead(w) \/ SweepRun(w) \/ SweepTask(w)
    <3>1. scan' = scan
      BY <2>4 DEF SweepRead, SweepRun, SweepTask
    <3>2. \A u \in Tasks : task'[u] = "running" => task[u] = "running"
      BY <1>0, <2>4 DEF SweepRead, SweepRun, SweepTask, FailIfRunning, TypeOK
    <3> QED BY <3>1, <3>2, NoneStartsKeeps
  <2> QED BY <1>3, <2>1, <2>2, <2>3, <2>4 DEF Worker
<1>4. CASE UNCHANGED vars
  BY <1>4, NoneStartsKeeps DEF vars
<1> QED BY <1>1, <1>2, <1>3, <1>4 DEF Next

(* The pattern `**` of a task without a scope matches every path.  Its two rows
   exist (the second looks nothing up, the first only the second), so `rest` is
   what its equation says. *)
LEMMA StarsMatchAll ==
  ASSUME NEW M, NEW path \in Seq(M)
  PROVE  Matches(<<"**">>, path)
<1> DEFINE glob == <<"**">>
           G == Len(glob)
           P == Len(path)
           Past(i) == IF i < G /\ glob[i + 1] = "/" THEN i + 2 ELSE i + 1
           Row(h, i) == [j \in 1..P + 1 |->
             \/ i > G /\ j > P
             \/ /\ i <= G /\ glob[i] = "**"
                /\ \E k \in j..P + 1 : h[Past(i)][k]
             \/ /\ i <= G /\ glob[i] = "*"
                /\ \E k \in j..P + 1 : /\ \A n \in j..k - 1 : path[n] # "/"
                                       /\ h[i + 1][k]
             \/ /\ i <= G /\ j <= P
                /\ glob[i] = path[j] \/ (glob[i] = "?" /\ path[j] # "/")
                /\ h[i + 1][j + 1]]
           rest == CHOOSE h : h = [i \in 1..G + 1 |-> Row(h, i)]
<1>1. Matches(<<"**">>, path) = rest[1][1]
  BY Zenon DEF Matches
<1>2. G = 1 /\ P \in Nat /\ glob[1] = "**" /\ Past(1) = 2
  OBVIOUS
<1>3. \A h, g : Row(h, 2) = Row(g, 2)
  <2> SUFFICES ASSUME NEW h, NEW g PROVE Row(h, 2) = Row(g, 2)
    OBVIOUS
  <2>1. ~(2 <= G)
    BY <1>2
  <2> HIDE DEF G
  <2> QED BY <2>1
<1>4. \A h, g : h[2] = g[2] => Row(h, 1) = Row(g, 1)
  <2> SUFFICES ASSUME NEW h, NEW g, h[2] = g[2] PROVE Row(h, 1) = Row(g, 1)
    OBVIOUS
  <2>1. Past(1) = 2 /\ 1 + 1 = 2
    BY <1>2
  <2> HIDE DEF G, Past, glob, P
  <2> QED BY <2>1
<1> DEFINE two == [i \in {2} |-> Row(0, 2)]
           all == [i \in 1..2 |-> IF i = 1 THEN Row(two, 1) ELSE Row(two, 2)]
<1> HIDE DEF Row, G, P, Past, glob
<1>5. all = [i \in 1..G + 1 |-> Row(all, i)]
  <2>1. 1..G + 1 = {1, 2} /\ 1..2 = {1, 2}
    BY <1>2
  <2>2. all[1] = Row(two, 1) /\ all[2] = Row(two, 2) /\ two[2] = Row(two, 2)
    BY <1>3, <2>1
  <2>3. Row(all, 1) = all[1] /\ Row(all, 2) = all[2]
    BY <1>3, <1>4, <2>2
  <2>4. all = [i \in {1, 2} |-> all[i]]
    BY <2>1
  <2> HIDE DEF all
  <2> QED BY <2>1, <2>3, <2>4
<1>6. rest = [i \in 1..G + 1 |-> Row(rest, i)]
  BY <1>5
<1> HIDE DEF rest
<1>7. rest[1] = Row(rest, 1) /\ rest[2] = Row(rest, 2)
  BY <1>2, <1>6
<1> USE DEF Row
<1>8. rest[2][P + 1] = TRUE
  BY <1>2, <1>7
<1>9. rest[1][1]
  BY <1>2, <1>7, <1>8
<1> QED BY <1>1, <1>9

(* A pattern of one token that is a wildcard is among those compared. *)
LEMMA StarsIsPattern == <<"**">> \in SomePatterns
<1> DEFINE tokens == {"a", "b", "/"} \cup Wild
<1>1. <<"**">> \in [1..1 -> tokens]
  BY DEF Wild
<1>2. <<"**">> \in UNION {[1..k -> tokens] : k \in 1..3}
  BY <1>1
<1>3. <<"**">>[1] = "**" /\ Len(<<"**">>) = 1 /\ 1..Len(<<"**">>) - 1 = {}
  OBVIOUS
<1> QED BY <1>2, <1>3 DEF SomePatterns, WordsOver

(* What a task's scope names, some pattern of its effective scope names. *)
LEMMA NamedByPattern ==
  ASSUME NEW scope \in SUBSET SomePatterns, NEW p \in SomePaths, NamesIn(scope, p)
  PROVE  \E x \in EffectiveScope(scope) : x \in SomePatterns /\ Names(x, p)
<1>1. CASE scope = {}
  <2>1. \E k \in 1..4 : p \in [1..k -> {"a", "b", "/"}]
    BY DEF SomePaths, WordsOver
  <2>2. p \in Seq({"a", "b", "/"}) /\ Len(p) \in Nat /\ Len(p) >= 1
    BY <2>1
  <2>3. SubSeq(p, 1, Len(p)) \in Seq({"a", "b", "/"})
    BY <2>2
  <2>4. Matches(<<"**">>, SubSeq(p, 1, Len(p)))
    BY <2>3, StarsMatchAll
  <2>5. Len(p) \in 1..Len(p)
    BY <2>2
  <2>6. Names(<<"**">>, p)
    BY <2>4, <2>5 DEF Names
  <2> QED BY <1>1, <2>6, StarsIsPattern DEF EffectiveScope
<1>2. CASE scope # {}
  BY <1>2 DEF NamesIn, EffectiveScope
<1> QED BY <1>1, <1>2

(* Tasks that do not overlap name no path together: the comparison of patterns
   is conservative (OverlapIsConservative). *)
LEMMA PathsApart ==
  ASSUME NEW t \in Tasks, NEW u \in Tasks, t # u, <<t, u>> \notin Overlap, NEW p \in SomePaths
  PROVE  ~(NamesIn(Scope[t], p) /\ NamesIn(Scope[u], p))
<1> SUFFICES ASSUME NamesIn(Scope[t], p), NamesIn(Scope[u], p) PROVE FALSE
  OBVIOUS
<1>1. Scope[t] \in SUBSET SomePatterns /\ Scope[u] \in SUBSET SomePatterns
  BY ScopeAssumption DEF ScopeAssumption
<1>2. PICK x \in EffectiveScope(Scope[t]) : x \in SomePatterns /\ Names(x, p)
  BY <1>1, NamedByPattern
<1>3. PICK y \in EffectiveScope(Scope[u]) : y \in SomePatterns /\ Names(y, p)
  BY <1>1, NamedByPattern
<1>4. PatternsOverlap(x, y)
  <2> DEFINE named == [z \in SomePatterns |-> {q \in SomePaths : Names(z, q)}]
  <2>1. p \in named[x] /\ p \in named[y]
    BY <1>2, <1>3
  <2>2. \A z, w \in SomePatterns : named[z] \cap named[w] # {} => PatternsOverlap(z, w)
    BY OverlapIsConservative DEF OverlapIsConservative
  <2> HIDE DEF named
  <2> QED BY <1>2, <1>3, <2>1, <2>2
<1>5. ScopesOverlap(EffectiveScope(Scope[t]), EffectiveScope(Scope[u]))
  BY <1>2, <1>3, <1>4 DEF ScopesOverlap
<1>6. ScopesCollide(t, u)
  BY <1>5 DEF ScopesCollide
<1> DEFINE o == <<t, u>>
<1>7. o \in Tasks \X Tasks /\ o[1] = t /\ o[2] = u
  OBVIOUS
<1>8. o \in Overlap
  BY <1>6, <1>7, ScopeAssumption DEF ScopeAssumption
<1> QED BY <1>8

(* Under the policy `block`, the scopes of two tasks that run at once name no
   path together, provided that one worker process does all the claiming: it
   compares scopes with what runs and then claims (claimNextTask). *)
THEOREM PathsAreApart ==
  ASSUME Block, \A v, w \in Workers : v = w
  PROVE  Spec => []NoPathTwice
<1>1. Init => ApartInv
  BY DEF Init, ApartInv, RunningApart, PickApart, NoScan
<1>2. IInv /\ ApartInv /\ [Next]_vars => ApartInv'
  BY ApartStep
<1>3. ApartInv => NoPathTwice
  BY PathsApart DEF ApartInv, RunningApart, NoPathTwice
<1> QED BY <1>1, <1>2, <1>3, Inductive, PTL DEF Spec

=============================================================================
