-------------------------- MODULE IntegrationProofs --------------------------
(***************************************************************************)
(* Theorems about Integration, for any tasks, workers and bounds: the main *)
(* tree has one user at a time, a claim is exclusive, only what was        *)
(* checked reaches the base, and what reads done is in it.  They rest on   *)
(* the assumption the code makes about time: that an integration is over   *)
(* within the term of its lease (~Slow).                                   *)
(***************************************************************************)
EXTENDS Integration, TLAPS

-----------------------------------------------------------------------------
(* Types. *)

Tips == [ahead : BOOLEAN, behind : BOOLEAN, checked : BOOLEAN, rebasing : Rebasings, cut : BOOLEAN]

LEMMA JobThere ==
  /\ NoJob \in Job
  /\ \A t \in Tasks, w \in Workers : [NoJob EXCEPT !.task = t, !.worker = w, !.at = "marked"] \in Job
  /\ \A r \in Results, p \in Places, k \in Job : [k EXCEPT !.at = p] \in Job /\ [k EXCEPT !.at = p, !.result = r] \in Job
<1>1. NoJob \in Job
  BY DEF Job, NoJob, Places, Results, Nothing
<1>2. \A t \in Tasks, w \in Workers : [NoJob EXCEPT !.task = t, !.worker = w, !.at = "marked"] \in Job
  BY DEF Job, NoJob, Places, Results, Nothing
<1>3. \A r \in Results, p \in Places, k \in Job : [k EXCEPT !.at = p] \in Job /\ [k EXCEPT !.at = p, !.result = r] \in Job
  BY DEF Job
<1> QED BY <1>1, <1>2, <1>3

LEMMA CutThere ==
  ASSUME TypeOK, NEW t \in Tasks, NEW r \in Rebasings
  PROVE  Cut(t, r) \in Tips /\ Cut(t, r).ahead = tip[t].ahead /\ Cut(t, r).behind = tip[t].behind
         /\ Cut(t, r).checked = FALSE /\ (Cut(t, r).cut <=> Cut(t, r).rebasing # "no")
         /\ (Cut(t, r).rebasing = IF tip[t].rebasing = "no" THEN r ELSE tip[t].rebasing)
BY ZenonT(60) DEF TypeOK, Tips, Cut, Rebasings

(* What a move of one job does to all of them. *)
LEMMA Going ==
  ASSUME TypeOK, NEW j \in Jobs, NEW p \in Places, NEW r \in Results,
         \/ Go(j, p)
         \/ job' = [job EXCEPT ![j].at = p, ![j].result = r]
  PROVE  /\ job' \in [Jobs -> Job] /\ job'[j].at = p
         /\ \A k \in Jobs : job'[k].task = job[k].task /\ job'[k].worker = job[k].worker
         /\ \A k \in Jobs \ {j} : job'[k] = job[k]
<1>1. job \in [Jobs -> Job]
  BY DEF TypeOK
<1>2. CASE Go(j, p)
  <2>1. job' = [job EXCEPT ![j] = [job[j] EXCEPT !.at = p]]
    BY <1>2 DEF Go
  <2> QED BY <1>1, <2>1, JobThere DEF Job
<1>3. CASE job' = [job EXCEPT ![j].at = p, ![j].result = r]
  <2>1. job' = [job EXCEPT ![j] = [job[j] EXCEPT !.at = p, !.result = r]]
    BY <1>1, <1>3 DEF Job
  <2> QED BY <1>1, <2>1, JobThere DEF Job
<1> QED BY <1>2, <1>3

LEMMA SetStatusTypes ==
  ASSUME TypeOK, NEW t \in Tasks, NEW s \in Statuses, SetStatus(t, s)
  PROVE  status' \in [Tasks -> Statuses] /\ fresh' \in [Tasks -> 0..Term]
BY IntegrationAssumption DEF TypeOK, SetStatus

LEMMA ReturnTypes ==
  ASSUME TypeOK, NEW j \in Jobs, job[j].worker \in Workers, Return(j)
  PROVE  /\ job' = [job EXCEPT ![j] = NoJob] /\ job' \in [Jobs -> Job]
         /\ line' \in [Workers -> Seq(Jobs)] /\ ours' \in [Workers -> SUBSET Tasks]
<1>1. job' \in [Jobs -> Job]
  BY JobThere DEF TypeOK, Return
<1>2. \A q \in Seq(Jobs) : q # <<>> => Tail(q) \in Seq(Jobs)
  OBVIOUS
<1>3. line' \in [Workers -> Seq(Jobs)]
  BY <1>2 DEF TypeOK, Return
<1>4. ours' \in [Workers -> SUBSET Tasks]
  BY DEF TypeOK, Return
<1> QED BY <1>1, <1>3, <1>4 DEF Return

(* Steps of users, of recovery and of the workers' lives leave the jobs alone;
   the steps of a job within the main tree move it to another place there. *)
Outside ==
  \/ \E t \in Tasks : Approve(t) \/ Cancel(t) \/ Requeue(t) \/ RunApproved(t)
  \/ BaseMoves
  \/ \E w \in Workers : RecoverRead(w) \/ \E t \in Tasks : RecoverTask(w, t)

InsideTree(j) ==
  \/ Count(j) \/ Rebase(j) \/ Abort(j) \/ Check(j) \/ FastForward(j) \/ Record(j) \/ Finish(j) \/ Fail(j)
  \/ StatementFails(j) /\ job[j].at \in {"recording", "recorded", "failing"} /\ UNCHANGED <<line, ours>>

Returns(j) ==
  \/ Claim(j) /\ status[job[j].task] # "approved"
  \/ HandBack(j)
  \/ Release(j)
  \/ StatementFails(j) /\ job[j].at \in {"marked", "refused", "leased", "releasing"} /\ Return(j)

LEMMA StepKinds ==
  ASSUME Next
  PROVE  \/ Outside \/ Tick
         \/ \E w \in Workers : Start(w) \/ Crash(w) \/ \E t \in Tasks : Mark(w, t)
         \/ \E j \in Jobs : \/ InsideTree(j) \/ Returns(j) \/ TakeLease(j)
                            \/ Claim(j) /\ status[job[j].task] = "approved"
<1>1. CASE \E j \in Jobs : StatementFails(j)
  <2>1. PICK j \in Jobs : StatementFails(j)
    BY <1>1
  <2>2. \/ job[j].at \in {"recording", "recorded", "failing"} /\ UNCHANGED <<line, ours>>
        \/ job[j].at \in {"marked", "refused", "leased", "releasing"} /\ Return(j)
    BY <2>1 DEF StatementFails, At
  <2> QED BY <2>1, <2>2 DEF InsideTree, Returns
<1>2. CASE \E j \in Jobs : Step(j)
  BY <1>2 DEF Step, InsideTree, Returns
<1>3. CASE \/ \E t \in Tasks : Approve(t) \/ Cancel(t) \/ Requeue(t) \/ RunApproved(t)
           \/ BaseMoves \/ Tick
           \/ \E w \in Workers : Start(w) \/ Crash(w) \/ RecoverRead(w)
           \/ \E w \in Workers, t \in Tasks : RecoverTask(w, t) \/ Mark(w, t)
  BY <1>3 DEF Outside
<1> QED BY <1>1, <1>2, <1>3 DEF Next

LEMMA OutsideLeaves ==
  ASSUME Outside PROVE job' = job /\ line' = line /\ lease' = lease /\ proc' = proc /\ ours' = ours
                       /\ contested' = contested /\ failures' = failures
BY DEF Outside, Approve, Cancel, Requeue, RunApproved, BaseMoves, RecoverRead, RecoverTask, memVars, procVars, dbVars

LEMMA InsideLeaves ==
  ASSUME TypeOK, NEW j \in Jobs, InsideTree(j)
  PROVE  /\ job[j].at \in InTree /\ \E p \in InTree : job'[j].at = p
         /\ job' \in [Jobs -> Job]
         /\ \A k \in Jobs : job'[k].task = job[k].task /\ job'[k].worker = job[k].worker
         /\ \A k \in Jobs \ {j} : job'[k] = job[k]
         /\ line' = line /\ lease' = lease /\ proc' = proc /\ ours' = ours /\ sweep' = sweep
<1>1. /\ job[j].at \in InTree
      /\ \E p \in InTree, r \in Results : Go(j, p) \/ job' = [job EXCEPT ![j].at = p, ![j].result = r]
      /\ line' = line /\ lease' = lease /\ proc' = proc /\ ours' = ours /\ sweep' = sweep
  <2>1. CASE Count(j)
    BY <2>1 DEF Count, At, Conclude, InTree, Results, dbVars, procVars
  <2>2. CASE Rebase(j)
    BY <2>2 DEF Rebase, At, Conclude, InTree, Results, dbVars, procVars
  <2>3. CASE Abort(j)
    BY <2>3 DEF Abort, At, Conclude, InTree, Results, dbVars, procVars
  <2>4. CASE Check(j)
    BY <2>4 DEF Check, At, Conclude, InTree, Results, dbVars, procVars
  <2>5. CASE FastForward(j)
    BY <2>5 DEF FastForward, At, Conclude, InTree, Results, dbVars, procVars
  <2>6. CASE Record(j)
    BY <2>6 DEF Record, At, InTree, Results, dbVars, procVars
  <2>7. CASE Finish(j) \/ Fail(j)
    BY <2>7 DEF Finish, Fail, At, InTree, Results, dbVars, procVars
  <2>8. CASE StatementFails(j) /\ job[j].at \in {"recording", "recorded", "failing"} /\ UNCHANGED <<line, ours>>
    <3>1. Go(j, "failing") \/ Go(j, "releasing")
      BY <2>8 DEF StatementFails, At
    <3> QED BY <2>8, <3>1 DEF StatementFails, InTree, Results, dbVars
  <2> QED BY <2>1, <2>2, <2>3, <2>4, <2>5, <2>6, <2>7, <2>8 DEF InsideTree
<1>2. PICK p \in InTree, r \in Results : Go(j, p) \/ job' = [job EXCEPT ![j].at = p, ![j].result = r]
  BY <1>1
<1>3. p \in Places
  BY DEF Places
<1> QED BY <1>1, <1>2, <1>3, Going

-----------------------------------------------------------------------------
(* The lock: the mutex of each worker, and the lease between workers. *)

InLine == {"waiting", "refused"} \cup InTree

(* A job has a task, and a worker that is up. *)
JobsHaveWorkers ==
  \A j \in Jobs : ~At(j, "unused") => job[j].task \in Tasks /\ job[j].worker \in Workers /\ proc[job[j].worker] = "up"

(* The jobs of a worker that asked for its mutex are in line; only the first is
   past waiting. *)
JobsAreInLine ==
  \A j \in Jobs : job[j].at \in InLine =>
    /\ \E i \in 1..Len(line[job[j].worker]) : line[job[j].worker][i] = j
    /\ At(j, "waiting") \/ line[job[j].worker][1] = j
LinesAreOfJobs ==
  \A w \in Workers : \A i \in 1..Len(line[w]) :
    /\ job[line[w][i]].worker = w /\ job[line[w][i]].at \in InLine
    /\ i > 1 => At(line[w][i], "waiting")
LinesAreDistinct == \A w \in Workers : \A i, k \in 1..Len(line[w]) : line[w][i] = line[w][k] => i = k

MutexInv == TypeOK /\ JobsHaveWorkers /\ JobsAreInLine /\ LinesAreOfJobs /\ LinesAreDistinct

(* Who is in the main tree has the lease, and it has not run out. *)
TreeIsLeased == \A j \in Jobs : job[j].at \in InTree => lease.by = job[j].worker /\ lease.left > 0

-----------------------------------------------------------------------------
(* Types are kept. *)

LEMMA OutsideTypes == ASSUME TypeOK, Outside PROVE TypeOK'
<1>1. TypeOK' <=> /\ status' \in [Tasks -> Statuses] /\ fresh' \in [Tasks -> 0..Term]
                  /\ tip' \in [Tasks -> Tips] /\ sweep' \in [Workers -> SUBSET Tasks]
  BY OutsideLeaves DEF TypeOK, Tips
<1>2. CASE \E t \in Tasks : Approve(t) \/ Cancel(t) \/ Requeue(t)
  <2>1. PICK t \in Tasks, s \in Statuses : SetStatus(t, s) /\ tip' = tip /\ sweep' = sweep
    BY <1>2 DEF Approve, Cancel, Requeue, Statuses, memVars
  <2> QED BY <1>1, <2>1, SetStatusTypes DEF TypeOK, Tips
<1>3. CASE \E t \in Tasks : RunApproved(t)
  <2>1. PICK t \in Tasks : RunApproved(t)
    BY <1>3
  <2>2. SetStatus(t, "approved") /\ sweep' = sweep
    BY <2>1 DEF RunApproved, memVars
  <2>3. tip' \in [Tasks -> Tips]
    <3>1. tip \in [Tasks -> Tips]
      BY DEF TypeOK, Tips
    <3>2. \A b \in Tips : /\ [b EXCEPT !.ahead = TRUE, !.checked = FALSE] \in Tips
                          /\ [b EXCEPT !.rebasing = "half"] \in Tips
                          /\ [b EXCEPT !.rebasing = "no", !.cut = FALSE] \in Tips
      BY DEF Tips, Rebasings
    <3>3. \/ tip' = tip
          \/ tip' = [tip EXCEPT ![t] = [tip[t] EXCEPT !.ahead = TRUE, !.checked = FALSE]]
          \/ tip' = [tip EXCEPT ![t] = [tip[t] EXCEPT !.rebasing = "half"]]
          \/ tip' = [tip EXCEPT ![t] = [tip[t] EXCEPT !.rebasing = "no", !.cut = FALSE]]
      BY <2>1, <3>1 DEF RunApproved, Tips
    <3> QED BY <3>1, <3>2, <3>3, ZenonT(60)
  <2>4. "approved" \in Statuses
    BY DEF Statuses
  <2> QED BY <1>1, <2>2, <2>3, <2>4, SetStatusTypes DEF TypeOK
<1>4. CASE BaseMoves
  <2>1. \A t \in Tasks : [tip[t] EXCEPT !.behind = TRUE] \in Tips
    BY DEF TypeOK, Tips
  <2> QED BY <1>1, <1>4, <2>1 DEF BaseMoves, TypeOK, dbVars, memVars
<1>5. CASE \E w \in Workers : RecoverRead(w)
  BY <1>1, <1>5 DEF RecoverRead, TypeOK, dbVars, Tips
<1>6. CASE \E w \in Workers, t \in Tasks : RecoverTask(w, t)
  <2>1. PICK w \in Workers, t \in Tasks : RecoverTask(w, t)
    BY <1>6
  <2>2. tip' = tip /\ sweep' \in [Workers -> SUBSET Tasks]
    BY <2>1 DEF RecoverTask, TypeOK
  <2>3. status' \in [Tasks -> Statuses] /\ fresh' \in [Tasks -> 0..Term]
    <3>1. "approved" \in Statuses
      BY DEF Statuses
    <3>2. SetStatus(t, "approved") \/ UNCHANGED <<status, fresh>>
      BY <2>1 DEF RecoverTask
    <3> QED BY <3>1, <3>2, SetStatusTypes DEF TypeOK
  <2> QED BY <1>1, <2>2, <2>3 DEF TypeOK, Tips
<1> QED BY <1>2, <1>3, <1>4, <1>5, <1>6 DEF Outside

LEMMA TickTypes == ASSUME TypeOK, Tick PROVE TypeOK'
<1>1. \A n \in 0..Term : Less(n) \in 0..Term
  BY IntegrationAssumption DEF Less
<1>2. fresh' \in [Tasks -> 0..Term] /\ lease' \in [by : Workers \cup {Nothing}, left : 0..Term]
  BY <1>1 DEF Tick, TypeOK
<1> QED BY <1>2 DEF Tick, TypeOK, memVars, procVars

LEMMA StartTypes == ASSUME TypeOK, NEW w \in Workers, Start(w) PROVE TypeOK'
BY DEF Start, TypeOK, dbVars, memVars

LEMMA CrashTypes == ASSUME TypeOK, NEW w \in Workers, Crash(w) PROVE TypeOK'
<1>1. tip' \in [Tasks -> Tips]
  <2>1. PICK r \in Rebasings :
          tip' = [t \in Tasks |-> IF Engaged(w, t, {"rebasing"}) THEN Cut(t, r)
                                  ELSE IF Engaged(w, t, InTree) THEN Cut(t, "no") ELSE tip[t]]
    BY DEF Crash
  <2>2. \A t \in Tasks : Cut(t, r) \in Tips /\ Cut(t, "no") \in Tips /\ tip[t] \in Tips
    BY CutThere DEF Rebasings, TypeOK, Tips
  <2> QED BY <2>1, <2>2
<1>2. job' \in [Jobs -> Job]
  BY JobThere DEF Crash, TypeOK
<1>3. line' \in [Workers -> Seq(Jobs)]
  BY DEF Crash, TypeOK
<1>4. ours' \in [Workers -> SUBSET Tasks] /\ sweep' \in [Workers -> SUBSET Tasks] /\ proc' \in [Workers -> {"new", "up", "gone"}]
  BY DEF Crash, TypeOK
<1> QED BY <1>1, <1>2, <1>3, <1>4 DEF Crash, TypeOK, Tips, dbVars

LEMMA MarkTypes == ASSUME TypeOK, NEW w \in Workers, NEW t \in Tasks, Mark(w, t) PROVE TypeOK'
<1>1. job' \in [Jobs -> Job]
  <2>1. PICK j \in Jobs : job' = [job EXCEPT ![j] = [NoJob EXCEPT !.task = t, !.worker = w, !.at = "marked"]]
    BY DEF Mark
  <2> QED BY <2>1, JobThere DEF TypeOK
<1>2. ours' \in [Workers -> SUBSET Tasks]
  BY DEF Mark, TypeOK
<1> QED BY <1>1, <1>2 DEF Mark, TypeOK, dbVars, procVars

LEMMA ClaimTypes ==
  ASSUME TypeOK, JobsHaveWorkers, NEW j \in Jobs, Claim(j), status[job[j].task] = "approved" PROVE TypeOK'
<1>1. job[j].task \in Tasks /\ job[j].worker \in Workers
  BY DEF JobsHaveWorkers, Claim, At
<1>2. status' \in [Tasks -> Statuses] /\ fresh' \in [Tasks -> 0..Term]
  BY <1>1, SetStatusTypes DEF Claim, Statuses
<1>3. job' \in [Jobs -> Job]
  BY Going DEF Claim, Places, Working, Results
<1>4. line' \in [Workers -> Seq(Jobs)]
  <2>1. \A q \in Seq(Jobs) : Append(q, j) \in Seq(Jobs)
    OBVIOUS
  <2>2. line' = [line EXCEPT ![job[j].worker] = Append(line[job[j].worker], j)]
    BY DEF Claim
  <2> QED BY <2>1, <2>2, <1>1 DEF TypeOK
<1>5. contested' \subseteq Tasks
  BY <1>1 DEF Claim, TypeOK
<1> QED BY <1>2, <1>3, <1>4, <1>5 DEF Claim, TypeOK

LEMMA TakeLeaseTypes == ASSUME TypeOK, JobsHaveWorkers, NEW j \in Jobs, TakeLease(j) PROVE TypeOK'
<1>1. job[j].worker \in Workers
  BY DEF JobsHaveWorkers, TakeLease, At
<1>2. job' \in [Jobs -> Job]
  BY Going DEF TakeLease, Places, Working, InTree, Results
<1>3. lease' \in [by : Workers \cup {Nothing}, left : 0..Term]
  BY <1>1, IntegrationAssumption DEF TakeLease, TypeOK
<1> QED BY <1>2, <1>3 DEF TakeLease, TypeOK, procVars

LEMMA ReturnsLeaves ==
  ASSUME TypeOK, JobsHaveWorkers, NEW j \in Jobs, Returns(j)
  PROVE  /\ job[j].worker \in Workers /\ job[j].task \in Tasks /\ Return(j)
         /\ job[j].at \in {"marked", "refused", "leased", "releasing"}
         /\ tip' = tip /\ sweep' = sweep /\ proc' = proc /\ contested' = contested
         /\ \/ status' = status /\ fresh' = fresh
            \/ HandBack(j) /\ SetStatus(job[j].task, "approved") /\ status[job[j].task] = "integrating"
         /\ \/ lease' = lease
            \/ lease.by = job[j].worker /\ lease' = FreeLease
         /\ failures' \in 0..MaxFailures
<1>1. CASE Claim(j) /\ status[job[j].task] # "approved"
  BY <1>1 DEF Claim, At, procVars, JobsHaveWorkers, TypeOK
<1>2. CASE HandBack(j)
  BY <1>2 DEF HandBack, At, procVars, JobsHaveWorkers, TypeOK
<1>3. CASE Release(j)
  BY <1>3 DEF Release, At, procVars, JobsHaveWorkers, TypeOK
<1>4. CASE StatementFails(j) /\ job[j].at \in {"marked", "refused", "leased", "releasing"} /\ Return(j)
  <2>1. contested' = contested
    BY <1>4 DEF StatementFails, At, TypeOK
  <2>2. job[j].worker \in Workers /\ job[j].task \in Tasks
    BY <1>4 DEF JobsHaveWorkers, At
  <2>3. failures' \in 0..MaxFailures
    BY <1>4, IntegrationAssumption DEF StatementFails, TypeOK
  <2> QED BY <1>4, <2>1, <2>2, <2>3 DEF StatementFails, dbVars
<1> QED BY <1>1, <1>2, <1>3, <1>4 DEF Returns

LEMMA ReturnsTypes == ASSUME TypeOK, JobsHaveWorkers, NEW j \in Jobs, Returns(j) PROVE TypeOK'
<1>1. job' \in [Jobs -> Job] /\ line' \in [Workers -> Seq(Jobs)] /\ ours' \in [Workers -> SUBSET Tasks]
  BY ReturnsLeaves, ReturnTypes
<1>2. status' \in [Tasks -> Statuses] /\ fresh' \in [Tasks -> 0..Term]
  BY ReturnsLeaves, SetStatusTypes DEF TypeOK, Statuses
<1>3. lease' \in [by : Workers \cup {Nothing}, left : 0..Term]
  BY ReturnsLeaves, IntegrationAssumption DEF TypeOK, FreeLease
<1> QED BY <1>1, <1>2, <1>3, ReturnsLeaves DEF TypeOK

LEMMA InsideTypes == ASSUME TypeOK, JobsHaveWorkers, NEW j \in Jobs, InsideTree(j) PROVE TypeOK'
<1>1. job[j].task \in Tasks
  BY InsideLeaves DEF JobsHaveWorkers, At, InTree
<1> DEFINE t == job[j].task
<1>2. tip \in [Tasks -> Tips]
  BY DEF TypeOK, Tips
<1>3. tip' \in [Tasks -> Tips]
  <2>1. CASE tip' = tip
    BY <1>2, <2>1
  <2>2. CASE Rebase(j) \/ Abort(j) \/ Check(j)
    <3>1. \A b \in Tips : /\ [b EXCEPT !.behind = FALSE] \in Tips /\ [b EXCEPT !.checked = TRUE] \in Tips
                          /\ [b EXCEPT !.rebasing = "no", !.cut = FALSE] \in Tips
                          /\ \A r \in Rebasings : [b EXCEPT !.rebasing = r] \in Tips
      BY DEF Tips, Rebasings
    <3>2. \A r \in Rebasings : Cut(t, r) \in Tips
      BY <1>1, CutThere
    <3>3. "no" \in Rebasings
      BY DEF Rebasings
    <3>4. \/ tip' = tip
          \/ tip' = [tip EXCEPT ![t] = [tip[t] EXCEPT !.behind = FALSE]]
          \/ tip' = [tip EXCEPT ![t] = [tip[t] EXCEPT !.checked = TRUE]]
          \/ tip' = [tip EXCEPT ![t] = [tip[t] EXCEPT !.rebasing = "no", !.cut = FALSE]]
          \/ \E r \in Rebasings : tip' = [tip EXCEPT ![t] = [tip[t] EXCEPT !.rebasing = r]]
          \/ \E r \in Rebasings : tip' = [tip EXCEPT ![t] = Cut(t, r)]
      BY <1>1, <1>2, <2>2, <3>3 DEF Rebase, Abort, Check, Tips
    <3>5. tip[t] \in Tips /\ \A b \in Tips : [tip EXCEPT ![t] = b] \in [Tasks -> Tips]
      BY <1>1, <1>2
    <3> HIDE DEF t
    <3> QED BY <1>2, <3>1, <3>2, <3>4, <3>5
  <2>3. CASE FastForward(j)
    <3>1. [ahead |-> FALSE, behind |-> FALSE, checked |-> FALSE, rebasing |-> "no", cut |-> FALSE] \in Tips
      BY DEF Tips, Rebasings
    <3>2. \A b \in Tips : [b EXCEPT !.behind = TRUE] \in Tips /\ [b EXCEPT !.checked = FALSE] \in Tips
      BY DEF Tips
    <3>3. \/ tip' = [u \in Tasks |-> IF u = t THEN [ahead |-> FALSE, behind |-> FALSE, checked |-> FALSE, rebasing |-> "no", cut |-> FALSE]
                                     ELSE [tip[u] EXCEPT !.behind = TRUE]]
          \/ tip' = [tip EXCEPT ![t] = [tip[t] EXCEPT !.checked = FALSE]]
      BY <1>1, <1>2, <2>3 DEF FastForward, Tips
    <3> QED BY <1>1, <1>2, <3>1, <3>2, <3>3
  <2> QED BY <2>1, <2>2, <2>3 DEF InsideTree, Count, Record, Finish, Fail, StatementFails
<1>4. status' \in [Tasks -> Statuses] /\ fresh' \in [Tasks -> 0..Term]
  <2>1. UNCHANGED <<status, fresh>> \/ \E s \in Statuses : SetStatus(t, s)
    BY DEF InsideTree, Count, Rebase, Abort, Check, FastForward, Record, Finish, Fail, StatementFails, dbVars, Statuses, NextStatus
  <2> QED BY <1>1, <2>1, SetStatusTypes DEF TypeOK
<1>5. contested' \subseteq Tasks /\ failures' \in 0..MaxFailures
  BY IntegrationAssumption DEF InsideTree, Count, Rebase, Abort, Check, FastForward, Record, Finish, Fail, StatementFails, procVars, TypeOK
<1> QED BY <1>3, <1>4, <1>5, InsideLeaves DEF TypeOK, Tips

LEMMA TypesKept == ASSUME TypeOK, JobsHaveWorkers, [Next]_vars PROVE TypeOK'
<1>1. CASE UNCHANGED vars
  BY <1>1 DEF vars, dbVars, memVars, procVars, TypeOK
<1>2. CASE Next
  BY <1>2, StepKinds, OutsideTypes, TickTypes, StartTypes, CrashTypes, MarkTypes, ClaimTypes, TakeLeaseTypes, ReturnsTypes, InsideTypes
<1> QED BY <1>1, <1>2

-----------------------------------------------------------------------------
(* The mutex is kept. *)

LEMMA LineThere ==
  ASSUME MutexInv, NEW w \in Workers
  PROVE  /\ line[w] \in Seq(Jobs) /\ Len(line[w]) \in Nat
         /\ \A i \in 1..Len(line[w]) : line[w][i] \in Jobs
         /\ line[w] # <<>> => 1 \in 1..Len(line[w]) /\ Head(line[w]) = line[w][1]
BY DEF MutexInv, TypeOK

(* A job past waiting is the first of its line. *)
LEMMA FirstInLine ==
  ASSUME MutexInv, NEW j \in Jobs, job[j].at \in InLine
  PROVE  job[j].worker \in Workers /\ line[job[j].worker] # <<>>
         /\ (~At(j, "waiting") => Head(line[job[j].worker]) = j)
<1>1. job[j].worker \in Workers
  BY DEF MutexInv, JobsHaveWorkers, At, InLine, InTree
<1>2. \E i \in 1..Len(line[job[j].worker]) : line[job[j].worker][i] = j
  BY DEF MutexInv, JobsAreInLine
<1>3. line[job[j].worker] # <<>>
  BY <1>1, <1>2, LineThere
<1> QED BY <1>1, <1>3, LineThere DEF MutexInv, JobsAreInLine

LEMMA StillKeeps ==
  ASSUME MutexInv, TypeOK', line' = line, \A w \in Workers : proc[w] = "up" => proc'[w] = "up",
         \A k \in Jobs : /\ job'[k].worker = job[k].worker /\ job'[k].task = job[k].task
                         /\ job'[k].at = "unused" <=> job[k].at = "unused"
                         /\ job'[k].at \in InLine <=> job[k].at \in InLine
                         /\ job'[k].at = "waiting" <=> job[k].at = "waiting"
  PROVE  MutexInv'
<1>1. JobsHaveWorkers'
  BY DEF MutexInv, JobsHaveWorkers, At
<1>2. JobsAreInLine'
  BY DEF MutexInv, JobsAreInLine, At
<1>3. LinesAreOfJobs'
  BY LineThere DEF MutexInv, LinesAreOfJobs, At
<1>4. LinesAreDistinct'
  BY DEF MutexInv, LinesAreDistinct
<1> QED BY <1>1, <1>2, <1>3, <1>4 DEF MutexInv

LEMMA InsideKeeps == ASSUME MutexInv, TypeOK', NEW j \in Jobs, InsideTree(j) PROVE MutexInv'
<1>1. \A p \in InTree : p \in InLine /\ p # "unused" /\ p # "waiting"
  BY DEF InLine, InTree
<1> QED BY <1>1, InsideLeaves, StillKeeps DEF MutexInv

LEMMA TakeLeaseKeeps == ASSUME MutexInv, TypeOK', NEW j \in Jobs, TakeLease(j) PROVE MutexInv'
<1>1. /\ At(j, "waiting") /\ Head(line[job[j].worker]) = j /\ line' = line /\ proc' = proc
      /\ \E p \in {"leased", "refused"} : Go(j, p)
  BY DEF TakeLease, procVars
<1>2. /\ job'[j].at \in {"leased", "refused"}
      /\ \A k \in Jobs : job'[k].task = job[k].task /\ job'[k].worker = job[k].worker
      /\ \A k \in Jobs \ {j} : job'[k] = job[k]
  BY <1>1, Going DEF MutexInv, Places, Working, Results
<1>3. job[j].worker \in Workers /\ line[job[j].worker] # <<>> /\ line[job[j].worker][1] = j
  BY <1>1, FirstInLine, LineThere DEF At, InLine
<1>4. JobsHaveWorkers'
  BY <1>1, <1>2 DEF MutexInv, JobsHaveWorkers, At
<1>5. JobsAreInLine'
  BY <1>1, <1>2, <1>3 DEF MutexInv, JobsAreInLine, At, InLine
<1>6. LinesAreOfJobs'
  <2>1. ASSUME NEW w \in Workers, NEW i \in 1..Len(line[w])
        PROVE  /\ job'[line[w][i]].worker = w /\ job'[line[w][i]].at \in InLine
               /\ i > 1 => job'[line[w][i]].at = "waiting"
    <3>1. /\ line[w][i] \in Jobs /\ job[line[w][i]].worker = w /\ job[line[w][i]].at \in InLine
          /\ i > 1 => job[line[w][i]].at = "waiting"
      BY LineThere DEF MutexInv, LinesAreOfJobs, At
    <3>2. CASE line[w][i] = j
      <4>1. w = job[j].worker
        BY <3>1, <3>2
      <4>2. i = 1
        BY <1>3, <3>2, <4>1, LineThere DEF MutexInv, LinesAreDistinct
      <4> QED BY <1>2, <3>1, <3>2, <4>2 DEF InLine, InTree
    <3> QED BY <1>2, <3>1, <3>2
  <2> QED BY <1>1, <2>1 DEF LinesAreOfJobs, At
<1> QED BY <1>1, <1>4, <1>5, <1>6 DEF MutexInv, LinesAreDistinct

LEMMA MarkKeeps == ASSUME MutexInv, TypeOK', NEW w \in Workers, NEW t \in Tasks, Mark(w, t) PROVE MutexInv'
<1>1. PICK j \in Jobs : At(j, "unused") /\ job' = [job EXCEPT ![j] = [NoJob EXCEPT !.task = t, !.worker = w, !.at = "marked"]]
  BY DEF Mark
<1>2. /\ job[j].at = "unused" /\ job'[j].at = "marked" /\ job'[j].task = t /\ job'[j].worker = w
      /\ \A k \in Jobs \ {j} : job'[k] = job[k]
      /\ line' = line /\ proc' = proc /\ proc[w] = "up"
  BY <1>1 DEF Mark, At, MutexInv, TypeOK, NoJob, procVars
<1>3. JobsHaveWorkers'
  BY <1>2 DEF MutexInv, JobsHaveWorkers, At
<1>4. JobsAreInLine'
  BY <1>2 DEF MutexInv, JobsAreInLine, At, InLine, InTree
<1>5. LinesAreOfJobs'
  <2>1. \A v \in Workers : \A i \in 1..Len(line[v]) : line[v][i] # j /\ line[v][i] \in Jobs
    BY <1>2, LineThere DEF MutexInv, LinesAreOfJobs, InLine, InTree
  <2> QED BY <1>2, <2>1 DEF MutexInv, LinesAreOfJobs, At
<1> QED BY <1>2, <1>3, <1>4, <1>5 DEF MutexInv, LinesAreDistinct

LEMMA ClaimKeeps ==
  ASSUME MutexInv, TypeOK', NEW j \in Jobs, Claim(j), status[job[j].task] = "approved" PROVE MutexInv'
<1> DEFINE w == job[j].worker
<1>1. At(j, "marked") /\ Go(j, "waiting") /\ line' = [line EXCEPT ![w] = Append(line[w], j)] /\ proc' = proc
  BY DEF Claim
<1>2. /\ job'[j].at = "waiting"
      /\ \A k \in Jobs : job'[k].task = job[k].task /\ job'[k].worker = job[k].worker
      /\ \A k \in Jobs \ {j} : job'[k] = job[k]
  BY <1>1, Going DEF MutexInv, Places, Working, Results
<1>3. w \in Workers /\ proc[w] = "up"
  BY <1>1 DEF MutexInv, JobsHaveWorkers, At
<1>4. \A v \in Workers : \A i \in 1..Len(line[v]) : line[v][i] # j /\ line[v][i] \in Jobs
  BY <1>1, LineThere DEF MutexInv, LinesAreOfJobs, At, InLine, InTree
<1>5. /\ Len(line'[w]) = Len(line[w]) + 1 /\ line'[w][Len(line[w]) + 1] = j
      /\ \A i \in 1..Len(line[w]) : line'[w][i] = line[w][i]
      /\ \A v \in Workers \ {w} : line'[v] = line[v]
  BY <1>1, <1>3, LineThere DEF MutexInv, TypeOK
<1>6. Len(line[w]) \in Nat
  BY <1>3, LineThere
<1>7. JobsHaveWorkers'
  BY <1>1, <1>2, <1>3 DEF MutexInv, JobsHaveWorkers, At
<1> HIDE DEF w
<1>8. JobsAreInLine'
  <2>1. ASSUME NEW k \in Jobs, job'[k].at \in InLine
        PROVE  /\ \E i \in 1..Len(line'[job'[k].worker]) : line'[job'[k].worker][i] = k
               /\ job'[k].at = "waiting" \/ line'[job'[k].worker][1] = k
    <3>1. CASE k = j
      BY <1>2, <1>5, <1>6, <3>1 DEF w
    <3>2. CASE k # j
      <4>1. /\ job'[k] = job[k] /\ job[k].worker \in Workers
            /\ \E i \in 1..Len(line[job[k].worker]) : line[job[k].worker][i] = k
            /\ job[k].at = "waiting" \/ line[job[k].worker][1] = k
        BY <1>2, <2>1, <3>2, FirstInLine DEF MutexInv, JobsAreInLine, At
      <4> QED BY <1>5, <1>6, <4>1
    <3> QED BY <3>1, <3>2
  <2> QED BY <2>1 DEF JobsAreInLine, At
<1>9. LinesAreOfJobs'
  <2>1. ASSUME NEW v \in Workers, NEW i \in 1..Len(line'[v])
        PROVE  /\ job'[line'[v][i]].worker = v /\ job'[line'[v][i]].at \in InLine
               /\ i > 1 => job'[line'[v][i]].at = "waiting"
    <3>1. CASE i \in 1..Len(line[v])
      <4>1. /\ line[v][i] \in Jobs \ {j} /\ job[line[v][i]].worker = v /\ job[line[v][i]].at \in InLine
            /\ i > 1 => job[line[v][i]].at = "waiting"
        BY <1>4, <3>1 DEF MutexInv, LinesAreOfJobs, At
      <4>2. line'[v][i] = line[v][i]
        BY <1>5, <3>1
      <4> QED BY <1>2, <4>1, <4>2
    <3>2. CASE v = w /\ i = Len(line[w]) + 1
      BY <1>2, <1>5, <3>2 DEF w, InLine
    <3> QED BY <1>5, <1>6, <3>1, <3>2
  <2> QED BY <2>1 DEF LinesAreOfJobs, At
<1>10. LinesAreDistinct'
  <2>1. ASSUME NEW v \in Workers, NEW i \in 1..Len(line'[v]), NEW k \in 1..Len(line'[v]), line'[v][i] = line'[v][k]
        PROVE  i = k
    <3>1. CASE v # w
      BY <1>5, <2>1, <3>1 DEF MutexInv, LinesAreDistinct
    <3>2. CASE v = w
      BY <1>3, <1>4, <1>5, <1>6, <2>1, <3>2 DEF MutexInv, LinesAreDistinct
    <3> QED BY <3>1, <3>2
  <2> QED BY <2>1 DEF LinesAreDistinct
<1> QED BY <1>7, <1>8, <1>9, <1>10 DEF MutexInv

LEMMA CrashKeeps == ASSUME MutexInv, TypeOK', NEW w \in Workers, Crash(w) PROVE MutexInv'
<1>1. /\ \A k \in Jobs : job'[k] = IF job[k].worker = w THEN NoJob ELSE job[k]
      /\ line'[w] = <<>> /\ \A v \in Workers \ {w} : line'[v] = line[v] /\ proc'[v] = proc[v]
  BY DEF Crash, MutexInv, TypeOK
<1>2. NoJob.at = "unused"
  BY DEF NoJob
<1>3. "unused" \notin InLine
  BY DEF InLine, InTree
<1>4. JobsHaveWorkers'
  BY <1>1, <1>2 DEF MutexInv, JobsHaveWorkers, At
<1>5. JobsAreInLine'
  BY <1>1, <1>2, <1>3, FirstInLine DEF MutexInv, JobsAreInLine, At
<1>6. LinesAreOfJobs'
  BY <1>1, LineThere DEF MutexInv, LinesAreOfJobs, At
<1>7. LinesAreDistinct'
  BY <1>1 DEF MutexInv, LinesAreDistinct
<1> QED BY <1>4, <1>5, <1>6, <1>7 DEF MutexInv

(* The mutex passes on: to the next in line. *)
LEMMA ReturnsKeeps == ASSUME MutexInv, TypeOK', NEW j \in Jobs, Returns(j) PROVE MutexInv'
<1> DEFINE w == job[j].worker
<1>1. /\ w \in Workers /\ proc' = proc /\ job[j].at \in {"marked", "refused", "leased", "releasing"}
      /\ job' = [job EXCEPT ![j] = NoJob] /\ line' = [line EXCEPT ![w] = IF line[w] # <<>> /\ Head(line[w]) = j THEN Tail(line[w]) ELSE line[w]]
  BY ReturnsLeaves DEF Return, MutexInv
<1>2. job'[j].at = "unused" /\ \A k \in Jobs \ {j} : job'[k] = job[k]
  BY <1>1 DEF NoJob, MutexInv, TypeOK
<1>3. \A v \in Workers \ {w} : line'[v] = line[v]
  BY <1>1 DEF MutexInv, TypeOK
<1>4. JobsHaveWorkers'
  BY <1>1, <1>2 DEF MutexInv, JobsHaveWorkers, At
<1>5. "unused" \notin InLine /\ "marked" \notin InLine
  BY DEF InLine, InTree
<1>6. Len(line[w]) \in Nat
  BY <1>1, LineThere
<1>7. CASE line[w] # <<>> /\ Head(line[w]) = j
  <2>1. /\ Len(line'[w]) = Len(line[w]) - 1 /\ \A i \in 1..Len(line'[w]) : line'[w][i] = line[w][i + 1]
        /\ line[w][1] = j /\ Len(line[w]) > 0
    BY <1>1, <1>7, LineThere DEF MutexInv, TypeOK
  <2>2. \A i \in 1..Len(line[w]) : line[w][i] = j => i = 1
    BY <1>1, <1>6, <2>1 DEF MutexInv, LinesAreDistinct
  <2> HIDE DEF w
  <2>3. JobsAreInLine'
    <3>1. ASSUME NEW k \in Jobs, job'[k].at \in InLine
          PROVE  /\ \E i \in 1..Len(line'[job'[k].worker]) : line'[job'[k].worker][i] = k
                 /\ job'[k].at = "waiting" \/ line'[job'[k].worker][1] = k
      <4>1. k # j /\ job'[k] = job[k]
        BY <1>2, <1>5, <3>1
      <4>2. /\ job[k].at = "waiting" \/ line[job[k].worker][1] = k
            /\ \E i \in 1..Len(line[job[k].worker]) : line[job[k].worker][i] = k
        BY <3>1, <4>1, FirstInLine DEF MutexInv, JobsAreInLine, At
      <4>3. job[k].worker \in Workers
        BY <3>1, <4>1, FirstInLine
      <4>4. CASE job[k].worker # w
        BY <1>3, <4>1, <4>2, <4>3, <4>4
      <4>5. CASE job[k].worker = w
        <5>1. PICK i \in 1..Len(line[w]) : line[w][i] = k
          BY <4>2, <4>5
        <5>2. i # 1 /\ i - 1 \in 1..Len(line'[w]) /\ line'[w][i - 1] = k
          BY <1>6, <2>1, <4>1, <5>1
        <5>3. job[k].at = "waiting"
          BY <2>1, <4>1, <4>2, <4>5
        <5> QED BY <4>1, <4>5, <5>2, <5>3
      <4> QED BY <4>4, <4>5
    <3> QED BY <3>1 DEF JobsAreInLine, At
  <2>4. LinesAreOfJobs'
    <3>1. ASSUME NEW v \in Workers, NEW i \in 1..Len(line'[v])
          PROVE  /\ job'[line'[v][i]].worker = v /\ job'[line'[v][i]].at \in InLine
                 /\ i > 1 => job'[line'[v][i]].at = "waiting"
      <4>1. CASE v = w
        <5>1. i + 1 \in 1..Len(line[w]) /\ i + 1 > 1
          BY <1>6, <2>1, <4>1
        <5>2. /\ line[w][i + 1] \in Jobs /\ line[w][i + 1] # j /\ job[line[w][i + 1]].worker = w
              /\ job[line[w][i + 1]].at \in InLine /\ job[line[w][i + 1]].at = "waiting"
          BY <1>1, <2>2, <5>1, LineThere DEF MutexInv, LinesAreOfJobs, At
        <5> QED BY <1>2, <2>1, <4>1, <5>2
      <4>2. CASE v # w
        <5>1. /\ line'[v] = line[v] /\ line[v][i] \in Jobs /\ job[line[v][i]].worker = v /\ job[line[v][i]].at \in InLine
              /\ i > 1 => job[line[v][i]].at = "waiting"
          BY <1>3, <4>2, LineThere DEF MutexInv, LinesAreOfJobs, At
        <5>2. line[v][i] # j
          BY <4>2, <5>1 DEF w
        <5> QED BY <1>2, <5>1, <5>2
      <4> QED BY <4>1, <4>2
    <3> QED BY <3>1 DEF LinesAreOfJobs, At
  <2>5. LinesAreDistinct'
    <3>1. ASSUME NEW v \in Workers, NEW i \in 1..Len(line'[v]), NEW k \in 1..Len(line'[v]), line'[v][i] = line'[v][k]
          PROVE  i = k
      <4>1. CASE v = w
        <5>1. i + 1 \in 1..Len(line[w]) /\ k + 1 \in 1..Len(line[w]) /\ line[w][i + 1] = line[w][k + 1]
          BY <1>6, <2>1, <3>1, <4>1
        <5>2. i + 1 = k + 1
          BY <1>1, <5>1 DEF MutexInv, LinesAreDistinct
        <5> QED BY <5>2
      <4>2. CASE v # w
        BY <1>3, <3>1, <4>2 DEF MutexInv, LinesAreDistinct
      <4> QED BY <4>1, <4>2
    <3> QED BY <3>1 DEF LinesAreDistinct
  <2> QED BY <1>4, <2>3, <2>4, <2>5 DEF MutexInv
<1>8. CASE ~(line[w] # <<>> /\ Head(line[w]) = j)
  <2>1. job[j].at = "marked"
    BY <1>1, <1>8, FirstInLine DEF InLine, InTree, At
  <2>2. line' = line
    BY <1>1, <1>8 DEF MutexInv, TypeOK
  <2>3. \A v \in Workers : \A i \in 1..Len(line[v]) : line[v][i] \in Jobs \ {j}
    BY <1>5, <2>1, LineThere DEF MutexInv, LinesAreOfJobs
  <2>4. JobsAreInLine'
    BY <1>2, <1>5, <2>2 DEF MutexInv, JobsAreInLine, At
  <2>5. LinesAreOfJobs'
    BY <1>2, <2>2, <2>3 DEF MutexInv, LinesAreOfJobs, At
  <2> QED BY <1>4, <2>2, <2>4, <2>5 DEF MutexInv, LinesAreDistinct
<1> QED BY <1>7, <1>8

LEMMA MutexKept == MutexInv /\ [Next]_vars => MutexInv'
<1> SUFFICES ASSUME MutexInv, [Next]_vars PROVE MutexInv'
  OBVIOUS
<1>1. TypeOK'
  BY TypesKept DEF MutexInv
<1>2. CASE UNCHANGED vars \/ Outside \/ Tick \/ \E w \in Workers : Start(w)
  <2>1. job' = job /\ line' = line /\ \A w \in Workers : proc[w] = "up" => proc'[w] = "up"
    BY <1>2, OutsideLeaves DEF vars, memVars, procVars, Tick, Start, MutexInv, TypeOK
  <2> QED BY <1>1, <2>1, StillKeeps
<1> QED BY <1>1, <1>2, StepKinds, CrashKeeps, MarkKeeps, ReturnsKeeps, InsideKeeps, TakeLeaseKeeps, ClaimKeeps

LEMMA MutexInitially == Init => MutexInv
<1> SUFFICES ASSUME Init PROVE MutexInv
  OBVIOUS
<1>1. TypeOK
  <2>1. job \in [Jobs -> Job] /\ tip \in [Tasks -> Tips]
    BY JobThere DEF Init, Tips, Rebasings
  <2>2. line \in [Workers -> Seq(Jobs)]
    BY DEF Init
  <2>3. 0 \in 0..Term /\ 0 \in 0..MaxFailures
    BY IntegrationAssumption
  <2>4. lease \in [by : Workers \cup {Nothing}, left : 0..Term]
    BY <2>3 DEF Init, FreeLease
  <2> QED BY <2>1, <2>2, <2>3, <2>4 DEF Init, TypeOK, Tips, Statuses
<1>2. \A j \in Jobs : job[j].at = "unused"
  BY DEF Init, NoJob
<1>3. \A w \in Workers : Len(line[w]) = 0
  BY DEF Init
<1> QED BY <1>1, <1>2, <1>3 DEF MutexInv, JobsHaveWorkers, JobsAreInLine, LinesAreOfJobs, LinesAreDistinct, At, InLine, InTree

-----------------------------------------------------------------------------
(* The lease is kept, if integrations are over within its term. *)

LockInv == MutexInv /\ TreeIsLeased

(* Two jobs in the main tree are one: the lease says of which worker, and its
   mutex which of its jobs. *)
LEMMA Locked == LockInv => MainTreeExclusive
<1> SUFFICES ASSUME LockInv, NEW j \in Jobs, NEW k \in Jobs, job[j].at \in InTree, job[k].at \in InTree PROVE j = k
  BY DEF MainTreeExclusive
<1>1. job[j].worker = job[k].worker
  BY DEF LockInv, TreeIsLeased
<1>2. /\ job[j].at \in InLine /\ job[j].at # "waiting"
      /\ job[k].at \in InLine /\ job[k].at # "waiting"
  BY DEF InLine, InTree
<1> QED BY <1>1, <1>2, FirstInLine DEF LockInv, At

LEMMA LeaseKept == ASSUME ~Slow, LockInv, [Next]_vars PROVE TreeIsLeased'
<1>0. MutexInv /\ TypeOK
  BY DEF LockInv, MutexInv
<1>1. ASSUME lease' = lease, \A j \in Jobs : job'[j].at \in InTree => job[j].at \in InTree /\ job'[j].worker = job[j].worker
      PROVE  TreeIsLeased'
  BY <1>1 DEF LockInv, TreeIsLeased
<1>2. CASE UNCHANGED vars \/ Outside \/ \E w \in Workers : Start(w)
  <2>1. job' = job /\ lease' = lease
    BY <1>2, OutsideLeaves DEF vars, memVars, dbVars, Start
  <2> QED BY <1>1, <2>1
<1>3. CASE Tick
  <2>1. ASSUME NEW j \in Jobs, job[j].at \in InTree
        PROVE  lease'.by = job[j].worker /\ lease'.left > 0
    <3>1. lease.by = job[j].worker /\ lease.left > 0 /\ lease.left # 1
      BY <1>3, <2>1 DEF Tick, Overrunning, LockInv, TreeIsLeased
    <3>2. lease.left \in Nat /\ lease' = [lease EXCEPT !.left = Less(lease.left)]
      BY <1>0, <1>3, IntegrationAssumption DEF TypeOK, Tick
    <3>3. Less(lease.left) > 0
      BY <3>1, <3>2 DEF Less
    <3> QED BY <1>0, <3>1, <3>2, <3>3 DEF TypeOK
  <2> QED BY <1>3, <2>1 DEF TreeIsLeased, Tick, memVars
<1>4. ASSUME NEW w \in Workers, Crash(w) PROVE TreeIsLeased'
  <2>1. \A j \in Jobs : job'[j] = job[j] \/ job'[j].at = "unused"
    BY <1>4 DEF Crash, NoJob
  <2>2. lease' = lease
    BY <1>4 DEF Crash, dbVars
  <2> QED BY <1>1, <2>1, <2>2 DEF InTree
<1>5. ASSUME NEW w \in Workers, NEW t \in Tasks, Mark(w, t) PROVE TreeIsLeased'
  <2>1. \A j \in Jobs : job'[j] = job[j] \/ job'[j].at = "marked"
    BY <1>0, <1>5 DEF Mark, TypeOK, NoJob
  <2>2. lease' = lease
    BY <1>5 DEF Mark, dbVars
  <2> QED BY <1>1, <2>1, <2>2 DEF InTree
<1>6. ASSUME NEW j \in Jobs, Claim(j), status[job[j].task] = "approved" PROVE TreeIsLeased'
  <2>1. Go(j, "waiting") /\ lease' = lease
    BY <1>6 DEF Claim
  <2>2. job'[j].at = "waiting" /\ \A k \in Jobs \ {j} : job'[k] = job[k]
    BY <1>0, <2>1, Going DEF Places, Working, Results
  <2> QED BY <1>1, <2>1, <2>2 DEF InTree
<1>7. ASSUME NEW j \in Jobs, InsideTree(j) PROVE TreeIsLeased'
  BY <1>0, <1>1, <1>7, InsideLeaves
<1>8. ASSUME NEW j \in Jobs, Returns(j) PROVE TreeIsLeased'
  <2> DEFINE w == job[j].worker
  <2>1. /\ job[j].at \in {"marked", "refused", "leased", "releasing"} /\ w \in Workers
        /\ job' = [job EXCEPT ![j] = NoJob]
        /\ \/ lease' = lease
           \/ Release(j) /\ lease.by = w
    <3>1. Returns(j) => lease' = lease \/ Release(j)
      BY DEF Returns, Claim, HandBack, StatementFails, dbVars
    <3> QED BY <1>0, <1>8, <3>1, ReturnsLeaves DEF MutexInv, Return, Release
  <2>2. job'[j].at = "unused" /\ \A k \in Jobs \ {j} : job'[k] = job[k]
    BY <1>0, <2>1 DEF NoJob, TypeOK
  <2>3. CASE lease' = lease
    BY <1>1, <2>2, <2>3 DEF InTree
  <2>4. CASE Release(j) /\ lease.by = w
    <3>1. job[j].at \in InTree
      BY <2>4 DEF Release, At, InTree
    <3>2. \A k \in Jobs \ {j} : job[k].at \notin InTree
      BY <3>1, Locked DEF MainTreeExclusive
    <3> QED BY <2>2, <3>2 DEF TreeIsLeased, InTree
  <2> QED BY <2>1, <2>3, <2>4
<1>9. ASSUME NEW j \in Jobs, TakeLease(j) PROVE TreeIsLeased'
  <2> DEFINE w == job[j].worker
  <2>1. At(j, "waiting") /\ Head(line[w]) = j /\ w \in Workers
    BY <1>9, FirstInLine, <1>0 DEF TakeLease, At, InLine
  <2>2. CASE Go(j, "refused") /\ lease' = lease
    <3>1. job'[j].at = "refused" /\ \A k \in Jobs \ {j} : job'[k] = job[k]
      BY <1>0, <2>2, Going DEF Places, Results
    <3> QED BY <1>1, <2>2, <3>1 DEF InTree
  <2>3. CASE LeaseOpen(w) /\ Go(j, "leased") /\ lease' = [by |-> w, left |-> Term]
    <3>1. job'[j].at = "leased" /\ job'[j].worker = w /\ \A k \in Jobs \ {j} : job'[k] = job[k]
      BY <1>0, <2>3, Going DEF Places, Working, InTree, Results
    <3>2. ASSUME NEW k \in Jobs \ {j}, job[k].at \in InTree PROVE FALSE
      <4>1. lease.by = job[k].worker /\ lease.left > 0 /\ job[k].worker \in Workers
        BY <1>0, <3>2, FirstInLine DEF LockInv, TreeIsLeased, InLine
      <4>2. job[k].worker = w
        BY <2>3, <4>1, IntegrationAssumption DEF LeaseOpen, Nothing
      <4>3. Head(line[w]) = k
        BY <1>0, <3>2, <4>2, FirstInLine DEF InLine, InTree, At
      <4> QED BY <2>1, <4>3
    <3>3. Term > 0
      BY IntegrationAssumption
    <3> QED BY <2>3, <3>1, <3>2, <3>3 DEF TreeIsLeased
  <2> QED BY <1>9, <2>2, <2>3 DEF TakeLease
<1> QED BY <1>2, <1>3, <1>4, <1>5, <1>6, <1>7, <1>8, <1>9, StepKinds

LEMMA LockKept == ~Slow /\ LockInv /\ [Next]_vars => LockInv'
BY LeaseKept, MutexKept DEF LockInv

LEMMA LockInitially == Init => LockInv
BY MutexInitially DEF Init, NoJob, LockInv, TreeIsLeased, InTree

(* Each variable has its type, and the mutex its order, however long integrations take. *)
THEOREM TypeCorrect == Spec => []TypeOK
<1>1. MutexInv => TypeOK
  BY DEF MutexInv
<1> QED BY <1>1, MutexInitially, MutexKept, PTL DEF Spec

(* One integration at a time works in the main tree: the mutex of a worker and
   the lease between them keep jobs apart, whatever crashes or fails. *)
THEOREM OneInTheTree ==
  ASSUME ~Slow
  PROVE  Spec => []MainTreeExclusive
<1>1. LockInv /\ [Next]_vars => LockInv'
  BY LockKept
<1> QED BY <1>1, LockInitially, Locked, PTL DEF Spec

-----------------------------------------------------------------------------
(* The claims: while nobody is about to write over it, a claim has the task's
   status to itself, and it is younger than a lease. *)

ClaimsAreFresh == \A j \in Jobs : job[j].at \in Claiming /\ job[j].task \notin contested => fresh[job[j].task] > 0
ClaimsAreAlone == \A t \in Tasks \ contested : Claimed(t) => ~AboutToWrite(t)

ClaimInv == ClaimIsHeld /\ ClaimsAreFresh /\ ClaimsAreAlone

LEMMA ClaimingJobs ==
  ASSUME MutexInv, NEW j \in Jobs, job[j].at \in Claiming PROVE job[j].task \in Tasks
BY DEF MutexInv, JobsHaveWorkers, At, Claiming, Working

(* Steps that add no claim, and leave claimed tasks alone. *)
LEMMA ClaimsStill ==
  ASSUME MutexInv, MutexInv', ClaimInv, contested \subseteq contested',
         \A j \in Jobs : job'[j].at \in Claiming => job[j].at \in Claiming /\ job'[j].task = job[j].task,
         \A t \in Tasks \ contested' :
           Claimed(t)' => status'[t] = status[t] /\ fresh'[t] > 0 /\ (AboutToWrite(t)' => AboutToWrite(t))
  PROVE  ClaimInv'
<1>1. ASSUME NEW j \in Jobs, job'[j].at \in Claiming, job'[j].task \notin contested'
      PROVE  /\ status'[job'[j].task] = "integrating" /\ fresh'[job'[j].task] > 0
             /\ \A k \in Jobs : job'[k].at \in Claiming /\ job'[k].task = job'[j].task => k = j
  <2> DEFINE t == job[j].task
  <2>1. job[j].at \in Claiming /\ job'[j].task = t /\ t \in Tasks \ contested'
    BY <1>1, ClaimingJobs
  <2>2. Claimed(t)'
    BY <1>1, <2>1 DEF Claimed
  <2>3. status'[t] = status[t] /\ fresh'[t] > 0
    BY <2>1, <2>2
  <2>4. status[t] = "integrating" /\ \A k \in Jobs : job[k].at \in Claiming /\ job[k].task = t => k = j
    BY <2>1 DEF ClaimInv, ClaimIsHeld
  <2> QED BY <2>1, <2>3, <2>4
<1>2. ClaimIsHeld'
  BY <1>1 DEF ClaimIsHeld
<1>3. ClaimsAreFresh'
  BY <1>1 DEF ClaimsAreFresh
<1>4. ClaimsAreAlone'
  BY DEF ClaimInv, ClaimsAreAlone, Claimed
<1> QED BY <1>2, <1>3, <1>4 DEF ClaimInv

(* What the invariant says of one task. *)
LEMMA ClaimedTask ==
  ASSUME MutexInv, ClaimInv, NEW t \in Tasks \ contested, Claimed(t)
  PROVE  /\ status[t] = "integrating" /\ fresh[t] > 0 /\ ~AboutToWrite(t)
         /\ \A j, k \in Jobs : job[j].task = t /\ job[k].task = t /\ job[j].at \in Claiming /\ job[k].at \in Claiming => j = k
BY DEF ClaimInv, ClaimIsHeld, ClaimsAreFresh, ClaimsAreAlone, Claimed

LEMMA OutsideClaims == ASSUME MutexInv, MutexInv', ClaimInv, Outside PROVE ClaimInv'
<1>1. job' = job /\ contested' = contested
  BY OutsideLeaves
<1> SUFFICES ASSUME NEW u \in Tasks \ contested, Claimed(u)
             PROVE  status'[u] = status[u] /\ fresh'[u] > 0 /\ (AboutToWrite(u)' => AboutToWrite(u))
  BY <1>1, ClaimsStill DEF Claimed
<1>2. status[u] = "integrating" /\ fresh[u] > 0 /\ ~AboutToWrite(u)
  BY ClaimedTask
<1>3. ASSUME NEW t \in Tasks, NEW s \in Statuses, SetStatus(t, s), status[t] # "integrating" \/ AboutToWrite(t)
      PROVE  status'[u] = status[u] /\ fresh'[u] > 0
  BY <1>2, <1>3 DEF SetStatus, MutexInv, TypeOK
<1>4. \A s \in {"approved", "cancelled", "queued"} : ~CanTransition("integrating", s)
  BY DEF CanTransition, Transitions
<1>5. CASE \E t \in Tasks : Approve(t) \/ Cancel(t) \/ Requeue(t) \/ RunApproved(t)
  <2>1. PICK t \in Tasks : Approve(t) \/ Cancel(t) \/ Requeue(t) \/ RunApproved(t)
    BY <1>5
  <2>2. status[t] # "integrating" /\ sweep' = sweep /\ \E s \in Statuses : SetStatus(t, s)
    BY <1>4, <2>1 DEF Approve, Cancel, Requeue, RunApproved, memVars, Statuses
  <2> QED BY <1>1, <1>3, <2>2 DEF AboutToWrite
<1>6. CASE BaseMoves
  BY <1>1, <1>2, <1>6 DEF BaseMoves, dbVars, memVars, AboutToWrite
<1>7. CASE \E w \in Workers : RecoverRead(w)
  <2>1. PICK w \in Workers : RecoverRead(w)
    BY <1>7
  <2>2. sweep' = [sweep EXCEPT ![w] = {t \in Tasks : Abandoned(t)}] /\ status' = status /\ fresh' = fresh
    BY <2>1 DEF RecoverRead, dbVars
  <2>3. ~Abandoned(u)
    BY <1>2 DEF Abandoned
  <2> QED BY <1>1, <1>2, <2>2, <2>3 DEF AboutToWrite, MutexInv, TypeOK
<1>8. CASE \E w \in Workers, t \in Tasks : RecoverTask(w, t)
  <2>1. PICK w \in Workers, t \in Tasks : RecoverTask(w, t)
    BY <1>8
  <2>2. AboutToWrite(t) /\ sweep' = [sweep EXCEPT ![w] = sweep[w] \ {t}]
        /\ (UNCHANGED <<status, fresh>> \/ SetStatus(t, "approved"))
    BY <2>1 DEF RecoverTask, AboutToWrite
  <2>3. AboutToWrite(u)' => AboutToWrite(u)
    BY <1>1, <2>2 DEF AboutToWrite, MutexInv, TypeOK
  <2> QED BY <1>2, <1>3, <2>2, <2>3 DEF Statuses
<1> QED BY <1>5, <1>6, <1>7, <1>8 DEF Outside

LEMMA TickClaims == ASSUME ~Slow, MutexInv, MutexInv', ClaimInv, Tick PROVE ClaimInv'
<1>1. job' = job /\ contested' = contested /\ status' = status /\ sweep' = sweep
  BY DEF Tick, memVars, procVars
<1>2. ASSUME NEW u \in Tasks \ contested, Claimed(u) PROVE fresh'[u] > 0
  <2>1. fresh[u] > 0 /\ fresh[u] \in Nat
    BY <1>2, ClaimedTask, IntegrationAssumption DEF MutexInv, TypeOK
  <2>2. fresh[u] # 1
    BY <1>2 DEF Tick, Overrunning, Claimed
  <2> QED BY <2>1, <2>2 DEF Tick, Less
<1> QED BY <1>1, <1>2, ClaimsStill DEF Claimed, AboutToWrite

(* Jobs that go do not claim. *)
LEMMA FewerClaims ==
  ASSUME MutexInv, MutexInv', ClaimInv, contested' = contested, status' = status, fresh' = fresh,
         \A w \in Workers : sweep'[w] \subseteq sweep[w],
         \A j \in Jobs : job'[j] = job[j] \/ job'[j].at \in {"unused", "marked"}
  PROVE  ClaimInv'
<1>1. \A j \in Jobs : job'[j].at \in Claiming \cup {"failing"} => job'[j] = job[j]
  BY DEF Claiming, Working
<1>2. \A t \in Tasks : (Claimed(t)' => Claimed(t)) /\ (AboutToWrite(t)' => AboutToWrite(t))
  BY <1>1 DEF Claimed, AboutToWrite
<1> QED BY <1>1, <1>2, ClaimsStill, ClaimedTask

LEMMA LivesClaims ==
  ASSUME MutexInv, MutexInv', ClaimInv, NEW w \in Workers, Start(w) \/ Crash(w) \/ \E t \in Tasks : Mark(w, t)
  PROVE  ClaimInv'
<1>1. CASE Start(w)
  BY <1>1, FewerClaims DEF Start, dbVars, memVars
<1>2. CASE Crash(w)
  <2>1. \A j \in Jobs : job'[j] = job[j] \/ job'[j].at = "unused"
    BY <1>2 DEF Crash, NoJob
  <2>2. \A v \in Workers : sweep'[v] \subseteq sweep[v]
    BY <1>2 DEF Crash, MutexInv, TypeOK
  <2> QED BY <1>2, <2>1, <2>2, FewerClaims DEF Crash, dbVars
<1>3. CASE \E t \in Tasks : Mark(w, t)
  <2>0. PICK t \in Tasks, j \in Jobs : job' = [job EXCEPT ![j] = [NoJob EXCEPT !.task = t, !.worker = w, !.at = "marked"]]
    BY <1>3 DEF Mark
  <2>1. \A k \in Jobs : job'[k] = job[k] \/ job'[k].at = "marked"
    BY <2>0 DEF NoJob, MutexInv, TypeOK
  <2> QED BY <1>3, <2>1, FewerClaims DEF Mark, dbVars, procVars
<1> QED BY <1>1, <1>2, <1>3

LEMMA TakeLeaseClaims == ASSUME MutexInv, MutexInv', ClaimInv, NEW j \in Jobs, TakeLease(j) PROVE ClaimInv'
<1>1. /\ job[j].at = "waiting" /\ \E p \in {"leased", "refused"} : Go(j, p)
      /\ contested' = contested /\ status' = status /\ fresh' = fresh /\ sweep' = sweep
  BY DEF TakeLease, At, procVars
<1>2. /\ job'[j].at \in {"leased", "refused"} /\ job'[j].task = job[j].task
      /\ \A k \in Jobs \ {j} : job'[k] = job[k]
  BY <1>1, Going DEF MutexInv, Places, Working, Results
<1>3. \A t \in Tasks : (Claimed(t)' => Claimed(t)) /\ (AboutToWrite(t)' => AboutToWrite(t))
  BY <1>1, <1>2 DEF Claimed, AboutToWrite, Claiming, Working
<1> QED BY <1>1, <1>2, <1>3, ClaimsStill, ClaimedTask DEF Claiming, Working

LEMMA ReturnsClaims == ASSUME MutexInv, MutexInv', ClaimInv, NEW j \in Jobs, Returns(j) PROVE ClaimInv'
<1>0. TypeOK /\ JobsHaveWorkers
  BY DEF MutexInv
<1>1. /\ job' = [job EXCEPT ![j] = NoJob] /\ contested' = contested /\ sweep' = sweep /\ job[j].task \in Tasks
      /\ \/ status' = status /\ fresh' = fresh
         \/ HandBack(j) /\ SetStatus(job[j].task, "approved")
  BY <1>0, ReturnsLeaves DEF Return
<1>2. job'[j].at = "unused" /\ \A k \in Jobs \ {j} : job'[k] = job[k]
  BY <1>0, <1>1 DEF TypeOK, NoJob
<1>3. CASE status' = status /\ fresh' = fresh
  BY <1>1, <1>2, <1>3, FewerClaims
<1>4. CASE HandBack(j) /\ SetStatus(job[j].task, "approved")
  <2>1. job[j].at \in Claiming
    BY <1>4 DEF HandBack, At, Claiming
  <2>2. \A t \in Tasks : (Claimed(t)' => Claimed(t)) /\ (AboutToWrite(t)' => AboutToWrite(t))
    BY <1>1, <1>2 DEF Claimed, AboutToWrite, Claiming, Working
  <2>3. \A t \in Tasks \ contested : Claimed(t)' => t # job[j].task
    BY <1>2, <2>1, <2>2, ClaimedTask DEF Claimed, Claiming, Working
  <2>4. \A t \in Tasks \ {job[j].task} : status'[t] = status[t] /\ fresh'[t] = fresh[t]
    BY <1>0, <1>4 DEF SetStatus, TypeOK
  <2>5. \A t \in Tasks \ contested' :
          Claimed(t)' => status'[t] = status[t] /\ fresh'[t] > 0 /\ (AboutToWrite(t)' => AboutToWrite(t))
    BY <1>1, <2>2, <2>3, <2>4, ClaimedTask
  <2>6. \A k \in Jobs : job'[k].at \in Claiming => job[k].at \in Claiming /\ job'[k].task = job[k].task
    BY <1>2 DEF Claiming, Working
  <2> QED BY <1>1, <2>5, <2>6, ClaimsStill
<1> QED BY <1>1, <1>3, <1>4

LEMMA InsideClaims == ASSUME MutexInv, MutexInv', ClaimInv, NEW j \in Jobs, InsideTree(j) PROVE ClaimInv'
<1>0. TypeOK /\ JobsHaveWorkers
  BY DEF MutexInv
<1> DEFINE t == job[j].task
<1>1. /\ job'[j].task = t /\ \A k \in Jobs \ {j} : job'[k] = job[k]
      /\ sweep' = sweep /\ t \in Tasks
  BY <1>0, InsideLeaves DEF JobsHaveWorkers, At, InTree
(* Either the job goes on working, or it is done with the claim; and what it
   writes then is its own. *)
<1>2. \/ /\ job[j].at \in Claiming /\ job'[j].at \in Claiming \cup {"recorded", "failing"}
         /\ status' = status /\ fresh' = fresh /\ contested' = contested
      \/ /\ job[j].at \in Claiming /\ job'[j].at = "recorded" /\ contested' = contested
         /\ \E s \in Statuses : SetStatus(t, s)
      \/ /\ job[j].at = "failing" /\ job'[j].at = "releasing" /\ contested' = contested
         /\ SetStatus(t, "failed") \/ (status' = status /\ fresh' = fresh)
      \/ /\ job[j].at = "recorded" /\ job'[j].at = "releasing"
         /\ status' = status /\ fresh' = fresh /\ contested' = contested
      \/ /\ job[j].at = "recorded" /\ job'[j].at = "failing" /\ status' = status /\ fresh' = fresh
         /\ contested' = contested \cup {u \in Tasks : t = u /\ Claimed(u)}
  <2>0. \A p \in Places, r \in Results :
          Go(j, p) \/ job' = [job EXCEPT ![j].at = p, ![j].result = r] => job'[j].at = p
    BY <1>0, Going
  <2>1. CASE Count(j)
    <3>1. job[j].at = "leased" /\ \E p \in {"rebasing", "recording"}, r \in Results : Go(j, p) \/ job' = [job EXCEPT ![j].at = p, ![j].result = r]
      BY <2>1 DEF Count, At, Conclude, Results
    <3> QED BY <2>0, <2>1, <3>1 DEF Count, dbVars, procVars, Claiming, Working, Places
  <2>2. CASE Rebase(j)
    <3>1. job[j].at = "rebasing" /\ \E p \in {"checking", "stopped", "recording"}, r \in Results : Go(j, p) \/ job' = [job EXCEPT ![j].at = p, ![j].result = r]
      BY <2>2 DEF Rebase, At, Conclude, Results
    <3> QED BY <2>0, <2>2, <3>1 DEF Rebase, dbVars, procVars, Claiming, Working, Places
  <2>3. CASE Abort(j)
    <3>1. job[j].at = "stopped" /\ \E p \in {"recording"}, r \in Results : Go(j, p) \/ job' = [job EXCEPT ![j].at = p, ![j].result = r]
      BY <2>3 DEF Abort, At, Conclude, Results
    <3> QED BY <2>0, <2>3, <3>1 DEF Abort, dbVars, procVars, Claiming, Working, Places
  <2>4. CASE Check(j)
    <3>1. job[j].at = "checking" /\ \E p \in {"merging", "recording"}, r \in Results : Go(j, p) \/ job' = [job EXCEPT ![j].at = p, ![j].result = r]
      BY <2>4 DEF Check, At, Conclude, Results
    <3> QED BY <2>0, <2>4, <3>1 DEF Check, dbVars, procVars, Claiming, Working, Places
  <2>5. CASE FastForward(j)
    <3>1. job[j].at = "merging" /\ \E p \in {"recording"}, r \in Results : Go(j, p) \/ job' = [job EXCEPT ![j].at = p, ![j].result = r]
      BY <2>5 DEF FastForward, At, Conclude, Results
    <3> QED BY <2>0, <2>5, <3>1 DEF FastForward, dbVars, procVars, Claiming, Working, Places
  <2>6. CASE Record(j)
    <3>1. job[j].at = "recording" /\ job' = [job EXCEPT ![j].at = "recorded", ![j].result = "error"] /\ contested' = contested
          /\ \E s \in Statuses : SetStatus(t, s)
      BY <2>6 DEF Record, At, procVars, NextStatus, Statuses
    <3> QED BY <2>0, <3>1 DEF Claiming, Working, Places, InTree, Results
  <2>7. CASE Finish(j) \/ Fail(j)
    <3>1. Go(j, "releasing") /\ contested' = contested
      BY <2>7 DEF Finish, Fail, procVars
    <3>2. job'[j].at = "releasing"
      BY <2>0, <3>1 DEF Places, InTree, Results
    <3>3. CASE Finish(j)
      BY <3>1, <3>2, <3>3 DEF Finish, At, dbVars
    <3>4. CASE Fail(j)
      <4>1. job[j].at = "failing" /\ SetStatus(t, "failed")
        BY <3>4 DEF Fail, At
      <4> QED BY <3>1, <3>2, <4>1
    <3> QED BY <2>7, <3>3, <3>4
  <2>8. CASE StatementFails(j) /\ job[j].at \in {"recording", "recorded", "failing"} /\ UNCHANGED <<line, ours>>
    <3>1. \/ job[j].at \in {"recording", "recorded"} /\ Go(j, "failing")
          \/ job[j].at = "failing" /\ Go(j, "releasing")
      BY <2>8 DEF StatementFails, At
    <3>2. \/ job[j].at \in {"recording", "recorded"} /\ job'[j].at = "failing"
          \/ job[j].at = "failing" /\ job'[j].at = "releasing"
      BY <2>0, <3>1 DEF Places, InTree, Results
    <3>3. /\ status' = status /\ fresh' = fresh
          /\ contested' = contested \cup {u \in Tasks : job[j].at = "recorded" /\ t = u /\ Claimed(u)}
      BY <2>8 DEF StatementFails, At, dbVars
    <3>4. job[j].at # "recorded" => contested' = contested
      BY <1>0, <3>3 DEF TypeOK
    <3> QED BY <3>2, <3>3, <3>4 DEF Claiming, Working
  <2> QED BY <2>1, <2>2, <2>3, <2>4, <2>5, <2>6, <2>7, <2>8 DEF InsideTree
<1>3. contested \subseteq contested'
  BY <1>2
<1>4. \A k \in Jobs : job'[k].at \in Claiming => job[k].at \in Claiming /\ job'[k].task = job[k].task
  BY <1>1, <1>2 DEF Claiming, Working
<1>5. ASSUME NEW u \in Tasks \ contested', Claimed(u)'
      PROVE  status'[u] = status[u] /\ fresh'[u] > 0 /\ (AboutToWrite(u)' => AboutToWrite(u))
  <2>1. Claimed(u) /\ u \notin contested
    BY <1>3, <1>4, <1>5 DEF Claimed
  <2>2. fresh[u] > 0 /\ ~AboutToWrite(u)
    BY <2>1, ClaimedTask
  <2>3. CASE u # t
    <3>1. status'[u] = status[u] /\ fresh'[u] = fresh[u]
      BY <1>0, <1>1, <1>2, <2>3 DEF SetStatus, TypeOK
    <3>2. AboutToWrite(u)' => AboutToWrite(u)
      BY <1>1, <2>3 DEF AboutToWrite
    <3> QED BY <2>2, <3>1, <3>2
  <2>4. CASE u = t
    <3>1. job[j].at # "failing"
      BY <2>2, <2>4 DEF AboutToWrite
    <3>2. job[j].at \in Claiming => job'[j].at \in Claiming
      <4>1. PICK k \in Jobs : job'[k].task = u /\ job'[k].at \in Claiming
        BY <1>5 DEF Claimed
      <4>2. job[k].at \in Claiming /\ job[k].task = u
        BY <1>4, <4>1
      <4> QED BY <2>1, <2>4, <4>1, <4>2, ClaimedTask
    <3>3. job'[j].at # "failing" /\ status' = status /\ fresh' = fresh
      BY <1>2, <1>5, <2>1, <2>4, <3>1, <3>2 DEF Claiming, Working
    <3>4. AboutToWrite(u)' => AboutToWrite(u)
      BY <1>1, <3>3 DEF AboutToWrite
    <3> QED BY <2>2, <3>3, <3>4
  <2> QED BY <2>3, <2>4
<1> QED BY <1>3, <1>4, <1>5, ClaimsStill

LEMMA ClaimClaims ==
  ASSUME MutexInv, MutexInv', ClaimInv, NEW j \in Jobs, Claim(j), status[job[j].task] = "approved" PROVE ClaimInv'
<1> DEFINE t == job[j].task
<1>0. TypeOK /\ t \in Tasks
  BY DEF MutexInv, Claim, JobsHaveWorkers, At
<1>1. /\ SetStatus(t, "integrating") /\ Go(j, "waiting") /\ sweep' = sweep
      /\ contested' = IF AboutToWrite(t) THEN contested \cup {t} ELSE contested
  BY DEF Claim
<1>2. /\ job'[j].at = "waiting" /\ job'[j].task = t /\ \A k \in Jobs \ {j} : job'[k] = job[k]
  BY <1>0, <1>1, Going DEF Places, Working, Results
<1>3. status'[t] = "integrating" /\ fresh'[t] > 0 /\ \A u \in Tasks \ {t} : status'[u] = status[u] /\ fresh'[u] = fresh[u]
  BY <1>0, <1>1, IntegrationAssumption DEF SetStatus, TypeOK
<1>4. \A u \in Tasks : AboutToWrite(u)' => AboutToWrite(u)
  BY <1>1, <1>2 DEF AboutToWrite
<1>5. t \notin contested' => ~AboutToWrite(t) /\ \A k \in Jobs : job[k].at \in Claiming => job[k].task # t
  BY <1>0, <1>1 DEF ClaimInv, ClaimIsHeld
<1>6. contested \subseteq contested'
  BY <1>1
<1>t. t \in Tasks
  BY <1>0
<1> HIDE DEF t
<1>7. \A k \in Jobs : job'[k].at \in Claiming => job'[k].task \in Tasks /\ (k = j \/ (job[k].at \in Claiming /\ job'[k] = job[k]))
  <2>1. \A k \in Jobs : job'[k].at \in Claiming => (k = j \/ (job[k].at \in Claiming /\ job'[k] = job[k]))
    BY <1>2
  <2> QED BY <1>t, <1>2, <2>1, ClaimingJobs
<1>8. ClaimIsHeld'
  BY <1>2, <1>3, <1>5, <1>6, <1>7 DEF ClaimInv, ClaimIsHeld
<1>9. ClaimsAreFresh'
  BY <1>2, <1>3, <1>6, <1>7 DEF ClaimInv, ClaimsAreFresh
<1>10. ClaimsAreAlone'
  <2>1. ASSUME NEW u \in Tasks \ contested', Claimed(u)' PROVE ~AboutToWrite(u)'
    <3>1. CASE u = t
      BY <1>4, <1>5, <2>1, <3>1
    <3>2. CASE u # t
      <4>1. Claimed(u)
        BY <1>2, <1>7, <2>1, <3>2 DEF Claimed
      <4> QED BY <1>4, <1>6, <2>1, <4>1 DEF ClaimInv, ClaimsAreAlone
    <3> QED BY <3>1, <3>2
  <2> QED BY <2>1 DEF ClaimsAreAlone
<1> QED BY <1>8, <1>9, <1>10 DEF ClaimInv

LEMMA ClaimsKept == ASSUME ~Slow, MutexInv, MutexInv', ClaimInv, [Next]_vars PROVE ClaimInv'
<1>1. CASE UNCHANGED vars
  BY <1>1, FewerClaims DEF vars, dbVars, memVars, procVars
<1>2. CASE Next
  BY <1>2, StepKinds, OutsideClaims, TickClaims, LivesClaims, TakeLeaseClaims, ReturnsClaims, InsideClaims, ClaimClaims
<1> QED BY <1>1, <1>2

LEMMA ClaimsInitially == Init => ClaimInv
BY DEF Init, NoJob, ClaimInv, ClaimIsHeld, ClaimsAreFresh, ClaimsAreAlone, Claimed, Claiming, Working

(* A job that has claimed a task has it to itself until it has written its
   verdict: the table of transitions, the compare-and-set of the claim and the age
   that recovery asks for keep everybody else away. *)
THEOREM ClaimsAreKept ==
  ASSUME ~Slow
  PROVE  Spec => []ClaimIsHeld
<1> DEFINE I == MutexInv /\ ClaimInv
<1>1. I /\ [Next]_vars => I'
  BY MutexKept, ClaimsKept
<1>2. Init => I
  BY MutexInitially, ClaimsInitially
<1>3. I => ClaimIsHeld
  BY DEF ClaimInv
<1> QED BY <1>1, <1>2, <1>3, PTL DEF Spec

-----------------------------------------------------------------------------
(* The branches: what a job has found out about its branch is still so when it
   acts on it, and a worktree in the middle of a rebase was left so by something
   that was cut off, or is about to be cleared. *)

TipOf(t) ==
  /\ tip[t].cut => tip[t].rebasing # "no"
  /\ t \notin contested =>
       /\ tip[t].rebasing # "no" => tip[t].cut \/ \E j \in Jobs : job[j].task = t /\ job[j].at = "stopped"
       /\ status[t] = "done" => ~tip[t].ahead \/ tip[t].cut
       /\ \A j \in Jobs : job[j].task = t =>
            /\ job[j].at = "rebasing" /\ tip[t].rebasing = "no" => tip[t].ahead
            /\ job[j].at \in {"checking", "merging"} => tip[t].ahead
            /\ job[j].at = "merging" => tip[t].checked
            /\ job[j].at = "recording" /\ job[j].result = "integrated" => ~tip[t].ahead
            /\ job[j].at = "recording" /\ job[j].result = "nothing_to_integrate" => ~tip[t].ahead \/ tip[t].cut

TipInv == \A t \in Tasks : TipOf(t)

(* The places at which something found out before matters, and that of a rebase to be cleared. *)
Found == {"rebasing", "stopped", "checking", "merging", "recording"}

SameTip(t) ==
  /\ tip'[t].ahead = tip[t].ahead /\ tip'[t].checked = tip[t].checked
  /\ tip'[t].rebasing = tip[t].rebasing /\ tip'[t].cut = tip[t].cut

(* Steps that leave a branch as it was, and put no job to work on it. *)
LEMMA TipStill ==
  ASSUME NEW t \in Tasks, TipOf(t), SameTip(t), contested \subseteq contested',
         t \notin contested' /\ status'[t] = "done" => status[t] = "done",
         \A j \in Jobs : job[j].task = t \/ job'[j].task = t =>
           job'[j] = job[j] \/ (job[j].at # "stopped" /\ job'[j].at \notin Found)
  PROVE  TipOf(t)'
<1>1. tip'[t].cut => tip'[t].rebasing # "no"
  BY DEF TipOf, SameTip
<1>2. ASSUME t \notin contested', tip'[t].rebasing # "no"
      PROVE  tip'[t].cut \/ \E j \in Jobs : job'[j].task = t /\ job'[j].at = "stopped"
  <2>1. tip[t].cut \/ \E j \in Jobs : job[j].task = t /\ job[j].at = "stopped"
    BY <1>2 DEF TipOf, SameTip
  <2> QED BY <2>1 DEF SameTip
<1>3. t \notin contested' /\ status'[t] = "done" => ~tip'[t].ahead \/ tip'[t].cut
  BY DEF TipOf, SameTip
<1>4. ASSUME t \notin contested', NEW j \in Jobs, job'[j].task = t, job'[j].at \in Found
      PROVE  /\ job'[j].at = "rebasing" /\ tip'[t].rebasing = "no" => tip'[t].ahead
             /\ job'[j].at \in {"checking", "merging"} => tip'[t].ahead
             /\ job'[j].at = "merging" => tip'[t].checked
             /\ job'[j].at = "recording" /\ job'[j].result = "integrated" => ~tip'[t].ahead
             /\ job'[j].at = "recording" /\ job'[j].result = "nothing_to_integrate" => ~tip'[t].ahead \/ tip'[t].cut
  <2>1. job'[j] = job[j] /\ t \notin contested
    BY <1>4
  <2> QED BY <1>4, <2>1 DEF TipOf, SameTip
<1>5. ASSUME t \notin contested', NEW j \in Jobs, job'[j].task = t
      PROVE  /\ job'[j].at = "rebasing" /\ tip'[t].rebasing = "no" => tip'[t].ahead
             /\ job'[j].at \in {"checking", "merging"} => tip'[t].ahead
             /\ job'[j].at = "merging" => tip'[t].checked
             /\ job'[j].at = "recording" /\ job'[j].result = "integrated" => ~tip'[t].ahead
             /\ job'[j].at = "recording" /\ job'[j].result = "nothing_to_integrate" => ~tip'[t].ahead \/ tip'[t].cut
  <2>1. CASE job'[j].at \in Found
    BY <1>4, <1>5, <2>1
  <2>2. CASE job'[j].at \notin Found
    BY <2>2 DEF Found
  <2> QED BY <2>1, <2>2
<1> QED BY <1>1, <1>2, <1>3, <1>5 DEF TipOf

LEMMA TipUnchanged == ASSUME NEW t \in Tasks, tip'[t] = tip[t] PROVE SameTip(t)
BY DEF SameTip

LEMMA BehindOnly ==
  ASSUME TypeOK, NEW t \in Tasks, tip'[t] = [tip[t] EXCEPT !.behind = TRUE] PROVE SameTip(t)
BY DEF TypeOK, SameTip

LEMMA NotDone == ASSUME TypeOK, NEW t \in Tasks, NEW s \in Statuses \ {"done"}, SetStatus(t, s), NEW u \in Tasks, status'[u] = "done"
                 PROVE status[u] = "done"
BY DEF SetStatus, TypeOK

(* A run that was approved: nobody is working on its task. *)
LEMMA ApprovedTips == ASSUME MutexInv, ClaimInv, TipInv, NEW t \in Tasks, RunApproved(t) PROVE TipInv'
<1>0. TypeOK
  BY DEF MutexInv
<1>1. job' = job /\ contested' = contested /\ status[t] = "away" /\ SetStatus(t, "approved")
  BY DEF RunApproved, memVars, procVars
<1>2. \A u \in Tasks : status'[u] = "done" => status[u] = "done"
  BY <1>0, <1>1, NotDone DEF Statuses
<1>3. status'[t] # "done"
  BY <1>0, <1>1 DEF SetStatus, TypeOK
<1>4. ASSUME NEW u \in Tasks, tip'[u] = tip[u] PROVE TipOf(u)'
  BY <1>1, <1>2, <1>4, TipUnchanged, TipStill DEF TipInv
<1>5. ASSUME NEW b \in Tips, tip' = [tip EXCEPT ![t] = b], b.cut => b.rebasing # "no", b.rebasing # "no" => tip[t].rebasing # "no" /\ b.cut = tip[t].cut
      PROVE  TipInv'
  <2>1. \A u \in Tasks \ {t} : tip'[u] = tip[u]
    BY <1>0, <1>5 DEF TypeOK
  <2>2. tip'[t] = b
    BY <1>0, <1>5 DEF TypeOK
  <2>3. t \notin contested => \A j \in Jobs : job[j].task = t => job[j].at \notin Claiming
    BY <1>1, ClaimedTask DEF Claimed
  <2>4. TipOf(t)'
    BY <1>1, <1>3, <1>5, <2>2, <2>3 DEF TipOf, TipInv, Claiming, Working
  <2> QED BY <1>4, <2>1, <2>4 DEF TipInv
<1>6. tip[t] \in Tips /\ (tip[t].cut => tip[t].rebasing # "no")
  BY <1>0 DEF TypeOK, Tips, TipInv, TipOf
<1>7. CASE UNCHANGED tip
  BY <1>4, <1>7 DEF TipInv
<1>8. CASE tip[t].rebasing = "no" /\ tip' = [tip EXCEPT ![t].ahead = TRUE, ![t].checked = FALSE]
  <2> DEFINE b == [tip[t] EXCEPT !.ahead = TRUE, !.checked = FALSE]
  <2>1. b \in Tips /\ b.rebasing = "no" /\ ~b.cut
    BY <1>6, <1>8 DEF Tips
  <2>2. tip' = [tip EXCEPT ![t] = b]
    BY <1>0, <1>8 DEF TypeOK
  <2> HIDE DEF b
  <2> QED BY <1>5, <2>1, <2>2
<1>9. CASE tip[t].rebasing # "no" /\ tip' = [tip EXCEPT ![t].rebasing = "half"]
  <2> DEFINE b == [tip[t] EXCEPT !.rebasing = "half"]
  <2>1. b \in Tips /\ b.rebasing = "half" /\ b.cut = tip[t].cut
    BY <1>6 DEF Tips, Rebasings
  <2>2. tip' = [tip EXCEPT ![t] = b]
    BY <1>9
  <2> HIDE DEF b
  <2> QED BY <1>5, <1>9, <2>1, <2>2
<1>10. CASE tip[t].rebasing # "no" /\ tip' = [tip EXCEPT ![t].rebasing = "no", ![t].cut = FALSE]
  <2> DEFINE b == [tip[t] EXCEPT !.rebasing = "no", !.cut = FALSE]
  <2>1. b \in Tips /\ b.rebasing = "no" /\ ~b.cut
    BY <1>6 DEF Tips, Rebasings
  <2>2. tip' = [tip EXCEPT ![t] = b]
    BY <1>0, <1>10 DEF TypeOK
  <2> HIDE DEF b
  <2> QED BY <1>5, <2>1, <2>2
<1> QED BY <1>7, <1>8, <1>9, <1>10 DEF RunApproved

LEMMA OutsideTips == ASSUME MutexInv, ClaimInv, TipInv, Outside PROVE TipInv'
<1>0. TypeOK
  BY DEF MutexInv
<1>1. job' = job /\ contested' = contested
  BY OutsideLeaves
<1>2. ASSUME \A t \in Tasks : SameTip(t), \A t \in Tasks : status'[t] = "done" => status[t] = "done" PROVE TipInv'
  BY <1>1, <1>2, TipStill DEF TipInv
<1>3. CASE \E t \in Tasks : Approve(t) \/ Cancel(t) \/ Requeue(t)
  <2>1. PICK t \in Tasks, s \in {"approved", "cancelled", "away"} : SetStatus(t, s) /\ tip' = tip
    BY <1>3 DEF Approve, Cancel, Requeue
  <2> QED BY <1>0, <1>2, <2>1, NotDone, TipUnchanged DEF Statuses
<1>4. CASE \E t \in Tasks : RunApproved(t)
  BY <1>4, ApprovedTips
<1>5. CASE BaseMoves
  BY <1>0, <1>2, <1>5, BehindOnly DEF BaseMoves, dbVars
<1>6. CASE \E w \in Workers : RecoverRead(w)
  BY <1>2, <1>6, TipUnchanged DEF RecoverRead, dbVars
<1>7. CASE \E w \in Workers, t \in Tasks : RecoverTask(w, t)
  <2>1. PICK t \in Tasks : tip' = tip /\ (SetStatus(t, "approved") \/ status' = status)
    BY <1>7 DEF RecoverTask
  <2> QED BY <1>0, <1>2, <2>1, NotDone, TipUnchanged DEF Statuses
<1> QED BY <1>3, <1>4, <1>5, <1>6, <1>7 DEF Outside

(* Steps that do not touch any branch. *)
LEMMA TipsStill ==
  ASSUME TipInv, tip' = tip, contested \subseteq contested',
         \A t \in Tasks : status'[t] = "done" => status[t] = "done",
         \A j \in Jobs : job'[j] = job[j] \/ (job[j].at # "stopped" /\ job'[j].at \notin Found)
  PROVE  TipInv'
BY TipUnchanged, TipStill DEF TipInv

LEMMA TickTips == ASSUME TipInv, Tick PROVE TipInv'
BY TipsStill DEF Tick, memVars, procVars

LEMMA TakeLeaseTips == ASSUME MutexInv, TipInv, NEW j \in Jobs, TakeLease(j) PROVE TipInv'
<1>1. /\ job[j].at = "waiting" /\ \E p \in {"leased", "refused"} : Go(j, p)
      /\ contested' = contested /\ status' = status /\ tip' = tip
  BY DEF TakeLease, At, procVars
<1>2. job'[j].at \in {"leased", "refused"} /\ \A k \in Jobs \ {j} : job'[k] = job[k]
  BY <1>1, Going DEF MutexInv, Places, Working, Results
<1> QED BY <1>1, <1>2, TipsStill DEF Found

LEMMA ReturnsTips == ASSUME MutexInv, TipInv, NEW j \in Jobs, Returns(j) PROVE TipInv'
<1>0. TypeOK /\ JobsHaveWorkers
  BY DEF MutexInv
<1>1. /\ job' = [job EXCEPT ![j] = NoJob] /\ contested' = contested /\ job[j].task \in Tasks
      /\ \/ status' = status
         \/ HandBack(j) /\ SetStatus(job[j].task, "approved")
  BY <1>0, ReturnsLeaves DEF Return
<1>2. job'[j].at = "unused" /\ \A k \in Jobs \ {j} : job'[k] = job[k]
  BY <1>0, <1>1 DEF TypeOK, NoJob
<1>3. \A u \in Tasks : status'[u] = "done" => status[u] = "done"
  BY <1>0, <1>1, NotDone DEF Statuses
<1>4. job[j].at # "stopped" /\ tip' = tip
  BY DEF Returns, Claim, HandBack, Release, StatementFails, At
<1> QED BY <1>1, <1>2, <1>3, <1>4, TipsStill DEF Found

LEMMA ClaimTips == ASSUME MutexInv, TipInv, NEW j \in Jobs, Claim(j), status[job[j].task] = "approved" PROVE TipInv'
<1>0. TypeOK /\ job[j].task \in Tasks
  BY DEF MutexInv, Claim, JobsHaveWorkers, At
<1>1. /\ SetStatus(job[j].task, "integrating") /\ Go(j, "waiting") /\ job[j].at = "marked"
      /\ contested \subseteq contested' /\ tip' = tip
  BY DEF Claim, At
<1>2. job'[j].at = "waiting" /\ \A k \in Jobs \ {j} : job'[k] = job[k]
  BY <1>0, <1>1, Going DEF Places, Working, Results
<1>3. \A u \in Tasks : status'[u] = "done" => status[u] = "done"
  BY <1>0, <1>1, NotDone DEF Statuses
<1> QED BY <1>1, <1>2, <1>3, TipsStill DEF Found

(* A worker that dies takes its jobs with it, and only one of them was in the
   main tree: no other finds its branch changed. *)
LEMMA CrashTips ==
  ASSUME MutexInv, ClaimInv, MainTreeExclusive, TipInv, NEW w \in Workers, Crash(w) PROVE TipInv'
<1>0. TypeOK
  BY DEF MutexInv
<1>1. job' = [j \in Jobs |-> IF job[j].worker = w THEN NoJob ELSE job[j]] /\ contested' = contested /\ status' = status
  BY DEF Crash, dbVars
<1>2. PICK r \in Rebasings :
        tip' = [t \in Tasks |-> IF Engaged(w, t, {"rebasing"}) THEN Cut(t, r)
                                ELSE IF Engaged(w, t, InTree) THEN Cut(t, "no") ELSE tip[t]]
  BY DEF Crash
<1> SUFFICES ASSUME NEW t \in Tasks PROVE TipOf(t)'
  BY DEF TipInv
<1>3. TipOf(t) /\ tip[t] \in Tips
  BY <1>0 DEF TipInv, TypeOK, Tips
<1>4. \A j \in Jobs : job'[j] = job[j] \/ (job'[j] = NoJob /\ job[j].worker = w)
  BY <1>1
<1>5. CASE tip'[t] = tip[t] /\ ~Engaged(w, t, InTree)
  <2>1. \A j \in Jobs : job[j].task = t \/ job'[j].task = t =>
           job'[j] = job[j] \/ (job[j].at # "stopped" /\ job'[j].at \notin Found)
    <3>1. NoJob.at = "unused" /\ NoJob.task # t
      BY IntegrationAssumption DEF NoJob, Nothing
    <3>2. \A j \in Jobs : job[j].worker = w /\ job[j].task = t => job[j].at # "stopped"
      BY <1>5 DEF Engaged, InTree
    <3> QED BY <1>4, <3>1, <3>2 DEF Found
  <2> QED BY <1>1, <1>3, <1>5, <2>1, TipUnchanged, TipStill
<1>6. ASSUME NEW s \in Rebasings, tip'[t] = Cut(t, s), s = "no" \/ Engaged(w, t, {"rebasing"}), Engaged(w, t, InTree)
      PROVE  TipOf(t)'
  <2>1. /\ tip'[t].ahead = tip[t].ahead /\ tip'[t].checked = FALSE
        /\ (tip'[t].cut <=> tip'[t].rebasing # "no")
        /\ tip'[t].rebasing = (IF tip[t].rebasing = "no" THEN s ELSE tip[t].rebasing)
    BY <1>0, <1>6, CutThere
  <2>2. \A j \in Jobs : job[j].at \in InTree => job'[j] = NoJob
    BY <1>1, <1>6 DEF Engaged, MainTreeExclusive
  <2>3. ASSUME t \notin contested, Engaged(w, t, {"rebasing"}) PROVE status[t] # "done" /\ \A j \in Jobs : job[j].task = t => job[j].at \notin Claiming \/ job[j].worker = w
    <3>1. PICK j \in Jobs : job[j].worker = w /\ job[j].task = t /\ job[j].at \in Claiming
      BY <2>3 DEF Engaged, Claiming, Working
    <3> QED BY <2>3, <3>1, ClaimedTask DEF Claimed
  <2>4. tip[t].cut => tip'[t].cut
    BY <1>3, <2>1 DEF TipOf
  <2>5. t \notin contested /\ status[t] = "done" => ~tip'[t].ahead \/ tip'[t].cut
    BY <1>3, <2>1, <2>4 DEF TipOf
  <2>6. ASSUME NEW j \in Jobs, job'[j].task = t PROVE job'[j].at \notin Found
    <3>1. NoJob.at \notin Found /\ Found \subseteq InTree
      BY DEF NoJob, Found, InTree
    <3>2. CASE job'[j] = job[j]
      BY <2>2, <3>1, <3>2
    <3> QED BY <1>4, <3>1, <3>2
  <2> QED BY <1>1, <2>1, <2>5, <2>6 DEF TipOf, Found
<1>7. "no" \in Rebasings
  BY DEF Rebasings
<1>8. Engaged(w, t, {"rebasing"}) => Engaged(w, t, InTree)
  BY DEF Engaged, InTree
<1>9. \/ tip'[t] = tip[t] /\ ~Engaged(w, t, InTree)
      \/ tip'[t] = Cut(t, r) /\ Engaged(w, t, {"rebasing"})
      \/ tip'[t] = Cut(t, "no") /\ Engaged(w, t, InTree)
  BY <1>2, <1>8
<1> QED BY <1>5, <1>6, <1>7, <1>8, <1>9

LEMMA LivesTips ==
  ASSUME MutexInv, ClaimInv, MainTreeExclusive, TipInv, NEW w \in Workers, Start(w) \/ Crash(w) \/ \E t \in Tasks : Mark(w, t)
  PROVE  TipInv'
<1>1. CASE Start(w)
  BY <1>1, TipsStill DEF Start, dbVars, memVars
<1>2. CASE Crash(w)
  BY <1>2, CrashTips
<1>3. CASE \E t \in Tasks : Mark(w, t)
  <2>1. PICK t \in Tasks, j \in Jobs :
          job' = [job EXCEPT ![j] = [NoJob EXCEPT !.task = t, !.worker = w, !.at = "marked"]] /\ job[j].at = "unused"
    BY <1>3 DEF Mark, At
  <2>2. job'[j].at = "marked" /\ \A k \in Jobs \ {j} : job'[k] = job[k]
    BY <2>1 DEF NoJob, MutexInv, TypeOK
  <2> QED BY <1>3, <2>1, <2>2, TipsStill DEF Mark, Found, dbVars, procVars
<1> QED BY <1>1, <1>2, <1>3

(* A job in the main tree: it alone has its task, unless that is contested. *)
LEMMA InsideTips ==
  ASSUME MutexInv, MutexInv', ClaimInv, TipInv, NEW j \in Jobs, InsideTree(j) PROVE TipInv'
<1>0. TypeOK /\ TypeOK' /\ JobsHaveWorkers
  BY DEF MutexInv
<1>1. PICK t \in Tasks : job[j].task = t /\ job'[j].task = t /\ \A k \in Jobs \ {j} : job'[k] = job[k]
  BY <1>0, InsideLeaves DEF JobsHaveWorkers, At, InTree
<1> DEFINE b == tip[t]
<1>2. contested \subseteq contested'
  BY DEF InsideTree, Count, Rebase, Abort, Check, FastForward, Record, Finish, Fail, StatementFails, procVars
<1>3. \A p \in Places, r \in Results :
         /\ Go(j, p) => job'[j].at = p /\ job'[j].result = job[j].result
         /\ job' = [job EXCEPT ![j].at = p, ![j].result = r] => job'[j].at = p /\ job'[j].result = r
  <2>1. job[j] \in Job /\ \A x \in Job : [job EXCEPT ![j] = x][j] = x
    BY <1>0 DEF TypeOK
  <2> SUFFICES ASSUME NEW p \in Places, NEW r \in Results
               PROVE  /\ Go(j, p) => job'[j].at = p /\ job'[j].result = job[j].result
                      /\ job' = [job EXCEPT ![j].at = p, ![j].result = r] => job'[j].at = p /\ job'[j].result = r
    OBVIOUS
  <2>2. Go(j, p) => job'[j] = [job[j] EXCEPT !.at = p]
    BY <1>0 DEF Go, TypeOK
  <2>3. job' = [job EXCEPT ![j].at = p, ![j].result = r] => job'[j] = [job[j] EXCEPT !.at = p, !.result = r]
    BY <1>0 DEF TypeOK, Job
  <2> QED BY <2>1, <2>2, <2>3 DEF Job
<1>4. TipOf(t) /\ b \in Tips /\ tip \in [Tasks -> Tips]
  BY <1>0, <1>1 DEF TipInv, TypeOK, Tips
(* The other tasks. *)
<1>5. ASSUME NEW u \in Tasks \ {t}, SameTip(u), status'[u] = status[u] PROVE TipOf(u)'
  BY <1>1, <1>2, <1>5, TipStill DEF TipInv
(* This task, when the job was and is not concerned with its branch. *)
<1>6. ASSUME tip' = tip, status' = status \/ status'[t] # "done", job[j].at # "stopped", job'[j].at \notin Found PROVE TipOf(t)'
  BY <1>1, <1>2, <1>4, <1>6, TipUnchanged, TipStill
(* This task, when the job was working on it. *)
<1>7. ASSUME job[j].at \in Claiming, t \notin contested'
      PROVE  status[t] = "integrating" /\ \A k \in Jobs : k # j /\ job'[k].task = t => job'[k].at \notin Found
  <2>1. t \in Tasks \ contested /\ Claimed(t)
    BY <1>1, <1>2, <1>7 DEF Claimed
  <2> QED BY <1>1, <1>7, <2>1, ClaimedTask DEF Found, Claiming, Working
<1>8. ASSUME job[j].at \in Claiming, tip'[t].cut => tip'[t].rebasing # "no",
             status' = status \/ (status'[t] = "done" => ~tip'[t].ahead \/ tip'[t].cut),
             t \notin contested => (tip'[t].rebasing # "no" => tip'[t].cut \/ job'[j].at = "stopped"),
             t \notin contested =>
               /\ job'[j].at = "rebasing" /\ tip'[t].rebasing = "no" => tip'[t].ahead
               /\ job'[j].at \in {"checking", "merging"} => tip'[t].ahead
               /\ job'[j].at = "merging" => tip'[t].checked
               /\ job'[j].at = "recording" /\ job'[j].result = "integrated" => ~tip'[t].ahead
               /\ job'[j].at = "recording" /\ job'[j].result = "nothing_to_integrate" => ~tip'[t].ahead \/ tip'[t].cut
      PROVE  TipOf(t)'
  <2>1. CASE t \in contested'
    BY <1>8, <2>1 DEF TipOf
  <2>2. CASE t \notin contested'
    <3>1. t \notin contested /\ (status'[t] = "done" => ~tip'[t].ahead \/ tip'[t].cut)
      BY <1>2, <1>7, <1>8, <2>2
    <3>2. \A k \in Jobs : k # j /\ job'[k].task = t => job'[k].at \notin Found
      BY <1>7, <1>8, <2>2
    <3>3. tip'[t].rebasing # "no" => tip'[t].cut \/ \E k \in Jobs : job'[k].task = t /\ job'[k].at = "stopped"
      BY <1>1, <1>8, <3>1
    <3>4. ASSUME NEW k \in Jobs, job'[k].task = t
          PROVE  /\ job'[k].at = "rebasing" /\ tip'[t].rebasing = "no" => tip'[t].ahead
                 /\ job'[k].at \in {"checking", "merging"} => tip'[t].ahead
                 /\ job'[k].at = "merging" => tip'[t].checked
                 /\ job'[k].at = "recording" /\ job'[k].result = "integrated" => ~tip'[t].ahead
                 /\ job'[k].at = "recording" /\ job'[k].result = "nothing_to_integrate" => ~tip'[t].ahead \/ tip'[t].cut
      <4>1. CASE k = j
        BY <1>8, <3>1, <4>1
      <4>2. CASE k # j
        BY <3>2, <3>4, <4>2 DEF Found
      <4> QED BY <4>1, <4>2
    <3> QED BY <1>8, <3>1, <3>3, <3>4 DEF TipOf
  <2> QED BY <2>1, <2>2
<1>9. t \notin contested =>
        /\ b.rebasing # "no" => b.cut \/ \E k \in Jobs : job[k].task = t /\ job[k].at = "stopped"
        /\ job[j].at = "rebasing" /\ b.rebasing = "no" => b.ahead
        /\ job[j].at \in {"checking", "merging"} => b.ahead
        /\ job[j].at = "merging" => b.checked
        /\ job[j].at = "recording" /\ job[j].result = "integrated" => ~b.ahead
        /\ job[j].at = "recording" /\ job[j].result = "nothing_to_integrate" => ~b.ahead \/ b.cut
  BY <1>1, <1>4 DEF TipOf
<1>10. b.cut => b.rebasing # "no"
  BY <1>4 DEF TipOf
<1>11. ASSUME job[j].at \in Claiming, t \notin contested, job[j].at # "stopped", b.rebasing # "no" PROVE b.cut
  <2>1. \A k \in Jobs : job[k].task = t /\ job[k].at = "stopped" => k = j
    BY <1>1, <1>11, ClaimedTask DEF Claimed, Claiming, Working
  <2> QED BY <1>9, <1>11, <2>1
<1>12. ASSUME NEW c \in Tips, tip' = [tip EXCEPT ![t] = c]
       PROVE  tip'[t] = c /\ \A u \in Tasks \ {t} : SameTip(u)
  BY <1>1, <1>4, <1>12 DEF SameTip
<1>13. ASSUME TipOf(t)', tip' = tip, \A u \in Tasks \ {t} : status'[u] = status[u] PROVE TipInv'
  BY <1>5, <1>13, TipUnchanged DEF TipInv
<1>14. ASSUME TipOf(t)', NEW c \in Tips, tip' = [tip EXCEPT ![t] = c], status' = status PROVE TipInv'
  BY <1>5, <1>12, <1>14 DEF TipInv
<1>15. {"leased", "rebasing", "stopped", "checking", "merging", "recording"} \subseteq Claiming
  BY DEF Claiming, Working
<1>16. CASE Count(j)
  <2>1. job[j].at = "leased" /\ tip' = tip /\ status' = status
    BY <1>16 DEF Count, At, dbVars
  <2>2. \/ job'[j].at = "rebasing" /\ Ahead(t)
        \/ job'[j].at = "recording" /\ job'[j].result = "nothing_to_integrate" /\ ~Ahead(t)
        \/ job'[j].at = "recording" /\ job'[j].result = "error"
    BY <1>1, <1>3, <1>16 DEF Count, Conclude, Places, Working, Results
  <2>3. TipOf(t)'
    BY <1>8, <1>9, <1>10, <1>11, <1>15, <2>1, <2>2 DEF Ahead
  <2> QED BY <1>13, <2>1, <2>3
<1>17. CASE Rebase(j)
  <2>0. job[j].at = "rebasing" /\ status' = status
    BY <1>17 DEF Rebase, At, dbVars
  <2>1. ASSUME tip[t].rebasing = "no", tip' = [tip EXCEPT ![t].behind = FALSE], Go(j, "checking") PROVE TipInv'
    <3> DEFINE c == [b EXCEPT !.behind = FALSE]
    <3>1. c \in Tips /\ c.ahead = b.ahead /\ c.cut = b.cut /\ c.rebasing = "no" /\ c.checked = b.checked
      BY <1>4, <2>1 DEF Tips
    <3>2. tip' = [tip EXCEPT ![t] = c]
      BY <2>1
    <3> HIDE DEF c
    <3>3. job'[j].at = "checking"
      BY <1>3, <2>1 DEF Places, Working, Results
    <3>4. TipOf(t)'
      BY <1>8, <1>9, <1>10, <1>12, <1>15, <2>0, <2>1, <3>1, <3>2, <3>3
    <3> QED BY <1>14, <2>0, <3>1, <3>2, <3>4
  <2>2. ASSUME tip[t].rebasing = "no", NEW r \in Rebasings, tip' = [tip EXCEPT ![t].rebasing = r], Go(j, "stopped") PROVE TipInv'
    <3> DEFINE c == [b EXCEPT !.rebasing = r]
    <3>1. c \in Tips /\ c.cut = b.cut /\ c.rebasing = r
      BY <1>4 DEF Tips
    <3>2. tip' = [tip EXCEPT ![t] = c]
      BY <2>2
    <3> HIDE DEF c
    <3>3. job'[j].at = "stopped"
      BY <1>3, <2>2 DEF Places, Working, Results
    <3>4. TipOf(t)'
      BY <1>8, <1>10, <1>12, <1>15, <2>0, <2>2, <3>1, <3>2, <3>3
    <3> QED BY <1>14, <2>0, <3>1, <3>2, <3>4
  <2>3. ASSUME tip' = tip, Go(j, "stopped") PROVE TipInv'
    <3>1. job'[j].at = "stopped"
      BY <1>3, <2>3 DEF Places, Working, Results
    <3>2. TipOf(t)'
      BY <1>8, <1>10, <1>15, <2>0, <2>3, <3>1
    <3> QED BY <1>13, <2>0, <2>3, <3>2
  <2>4. ASSUME NEW r \in Rebasings, tip' = [tip EXCEPT ![t] = Cut(t, r)], Conclude(j, "error") PROVE TipInv'
    <3>1. Cut(t, r) \in Tips /\ (Cut(t, r).cut <=> Cut(t, r).rebasing # "no")
      BY <1>0, CutThere
    <3>2. job'[j].at = "recording" /\ job'[j].result = "error"
      BY <1>3, <2>4 DEF Conclude, Places, Working, Results
    <3>3. TipOf(t)'
      BY <1>8, <1>12, <1>15, <2>0, <2>4, <3>1, <3>2
    <3> QED BY <1>14, <2>0, <2>4, <3>1, <3>3
  <2> QED BY <1>1, <1>17, <2>1, <2>2, <2>3, <2>4 DEF Rebase
<1>18. CASE Abort(j)
  <2>0. job[j].at = "stopped" /\ status' = status
    BY <1>18 DEF Abort, At, dbVars
  <2>1. ASSUME tip' = [tip EXCEPT ![t].rebasing = "no", ![t].cut = FALSE], Conclude(j, "conflict") PROVE TipInv'
    <3> DEFINE c == [b EXCEPT !.rebasing = "no", !.cut = FALSE]
    <3>1. c \in Tips /\ ~c.cut /\ c.rebasing = "no"
      BY <1>4 DEF Tips, Rebasings
    <3>2. tip' = [tip EXCEPT ![t] = c]
      BY <1>4, <2>1
    <3> HIDE DEF c
    <3>3. job'[j].at = "recording" /\ job'[j].result = "conflict"
      BY <1>3, <2>1 DEF Conclude, Places, Working, Results
    <3>4. TipOf(t)'
      BY <1>8, <1>12, <1>15, <2>0, <3>1, <3>2, <3>3
    <3> QED BY <1>14, <2>0, <3>1, <3>2, <3>4
  <2>2. ASSUME tip' = [tip EXCEPT ![t] = Cut(t, "no")], Conclude(j, "error") PROVE TipInv'
    <3>1. Cut(t, "no") \in Tips /\ (Cut(t, "no").cut <=> Cut(t, "no").rebasing # "no")
      BY <1>0, CutThere DEF Rebasings
    <3>2. job'[j].at = "recording" /\ job'[j].result = "error"
      BY <1>3, <2>2 DEF Conclude, Places, Working, Results
    <3>3. TipOf(t)'
      BY <1>8, <1>12, <1>15, <2>0, <2>2, <3>1, <3>2
    <3> QED BY <1>14, <2>0, <2>2, <3>1, <3>3
  <2> QED BY <1>1, <1>18, <2>1, <2>2 DEF Abort
<1>19. CASE Check(j)
  <2>0. job[j].at = "checking" /\ status' = status
    BY <1>19 DEF Check, At, dbVars
  <2>1. ASSUME tip' = [tip EXCEPT ![t].checked = TRUE], Go(j, "merging") PROVE TipInv'
    <3> DEFINE c == [b EXCEPT !.checked = TRUE]
    <3>1. c \in Tips /\ c.ahead = b.ahead /\ c.cut = b.cut /\ c.rebasing = b.rebasing /\ c.checked
      BY <1>4 DEF Tips
    <3>2. tip' = [tip EXCEPT ![t] = c]
      BY <2>1
    <3> HIDE DEF c
    <3>3. job'[j].at = "merging"
      BY <1>3, <2>1 DEF Places, Working, Results
    <3>4. TipOf(t)'
      BY <1>8, <1>9, <1>10, <1>11, <1>12, <1>15, <2>0, <3>1, <3>2, <3>3
    <3> QED BY <1>14, <2>0, <3>1, <3>2, <3>4
  <2>2. ASSUME NEW result \in {"checks_failed", "error"}, Conclude(j, result), tip' = tip PROVE TipInv'
    <3>1. job'[j].at = "recording" /\ job'[j].result \in {"checks_failed", "error"}
      BY <1>3, <2>2 DEF Conclude, Places, Working, Results
    <3>2. TipOf(t)'
      BY <1>8, <1>10, <1>11, <1>15, <2>0, <2>2, <3>1
    <3> QED BY <1>13, <2>0, <2>2, <3>2
  <2> QED BY <1>1, <1>19, <2>1, <2>2 DEF Check
<1>20. CASE FastForward(j)
  <2>0. job[j].at = "merging" /\ status' = status
    BY <1>20 DEF FastForward, At, dbVars
  <2> DEFINE c == [ahead |-> FALSE, behind |-> FALSE, checked |-> FALSE, rebasing |-> "no", cut |-> FALSE]
  <2>1. ASSUME tip' = [u \in Tasks |-> IF u = t THEN c ELSE [tip[u] EXCEPT !.behind = TRUE]],
               NEW result \in {"integrated", "error"}, Conclude(j, result)
        PROVE  TipInv'
    <3>1. tip'[t] = c /\ \A u \in Tasks \ {t} : SameTip(u)
      BY <1>0, <2>1, BehindOnly
    <3>2. job'[j].at = "recording" /\ job'[j].result \in {"integrated", "error"}
      BY <1>3, <2>1 DEF Conclude, Places, Working, Results
    <3>3. TipOf(t)'
      BY <1>8, <1>15, <2>0, <3>1, <3>2
    <3> QED BY <1>5, <2>0, <3>1, <3>3 DEF TipInv
  <2>2. ASSUME tip' = [tip EXCEPT ![t].checked = FALSE], Conclude(j, "error") PROVE TipInv'
    <3> DEFINE d == [b EXCEPT !.checked = FALSE]
    <3>1. d \in Tips /\ d.cut = b.cut /\ d.rebasing = b.rebasing
      BY <1>4 DEF Tips
    <3>2. tip' = [tip EXCEPT ![t] = d]
      BY <2>2
    <3> HIDE DEF d
    <3>3. job'[j].at = "recording" /\ job'[j].result = "error"
      BY <1>3, <2>2 DEF Conclude, Places, Working, Results
    <3>4. TipOf(t)'
      BY <1>8, <1>10, <1>11, <1>12, <1>15, <2>0, <3>1, <3>2, <3>3
    <3> QED BY <1>14, <2>0, <3>1, <3>2, <3>4
  <2> QED BY <1>1, <1>20, <2>1, <2>2 DEF FastForward
<1>21. CASE Record(j)
  <2>1. /\ job[j].at = "recording" /\ tip' = tip /\ SetStatus(t, NextStatus(job[j].result))
        /\ job' = [job EXCEPT ![j].at = "recorded", ![j].result = "error"]
    BY <1>1, <1>21 DEF Record, At
  <2>2. status'[t] = NextStatus(job[j].result) /\ \A u \in Tasks \ {t} : status'[u] = status[u]
    BY <1>0, <1>1, <2>1 DEF SetStatus, TypeOK
  <2>3. job'[j].at = "recorded"
    BY <1>3, <2>1 DEF Places, InTree, Results
  <2>4. job[j].result \in Results
    BY <1>0 DEF TypeOK, Job
  <2>5. status'[t] = "done" => job[j].result \in {"integrated", "nothing_to_integrate"}
    BY <2>2, <2>4 DEF NextStatus, Results
  <2>6. ASSUME t \in contested' PROVE TipOf(t)'
    <3>1. tip'[t].cut => tip'[t].rebasing # "no"
      BY <1>10, <2>1
    <3> QED BY <2>6, <3>1 DEF TipOf
  <2>7. ASSUME t \notin contested' PROVE TipOf(t)'
    <3>1. t \notin contested
      BY <1>2, <2>7
    <3>2. status'[t] = "done" => ~b.ahead \/ b.cut
      BY <1>9, <2>1, <2>5, <3>1
    <3>3. b.rebasing # "no" => b.cut
      BY <1>11, <1>15, <2>1, <3>1
    <3>4. tip'[t] = tip[t] /\ job[j].at \in Claiming
      BY <1>15, <2>1
    <3> QED BY <1>8, <1>10, <2>3, <3>1, <3>2, <3>3, <3>4
  <2> QED BY <1>13, <2>1, <2>2, <2>6, <2>7
<1>22. CASE Finish(j) \/ Fail(j)
  <2>1. /\ job[j].at \in {"recorded", "failing"} /\ tip' = tip /\ Go(j, "releasing")
        /\ status' = status \/ SetStatus(t, "failed")
    BY <1>1, <1>22 DEF Finish, Fail, At, dbVars
  <2>2. /\ status' = status \/ status'[t] # "done"
        /\ \A u \in Tasks \ {t} : status'[u] = status[u]
    BY <1>0, <1>1, <2>1 DEF SetStatus, TypeOK
  <2>3. job'[j].at \notin Found
    <3>1. job'[j].at \in {"failing", "releasing"}
      BY <1>3, <2>1 DEF Places, InTree, Results
    <3> QED BY <3>1 DEF Found
  <2>4. TipOf(t)'
    BY <1>6, <2>1, <2>2, <2>3
  <2> QED BY <1>13, <2>1, <2>2, <2>4
<1>23. CASE StatementFails(j) /\ job[j].at \in {"recording", "recorded", "failing"} /\ UNCHANGED <<line, ours>>
  <2>1. tip' = tip /\ status' = status /\ (Go(j, "failing") \/ Go(j, "releasing"))
    BY <1>23 DEF StatementFails, At, dbVars
  <2>2. job'[j].at \notin Found
    <3>1. job'[j].at \in {"failing", "releasing"}
      BY <1>3, <2>1 DEF Places, InTree, Results
    <3> QED BY <3>1 DEF Found
  <2>3. TipOf(t)'
    BY <1>6, <1>23, <2>1, <2>2
  <2> QED BY <1>13, <2>1, <2>3
<1> QED BY <1>16, <1>17, <1>18, <1>19, <1>20, <1>21, <1>22, <1>23 DEF InsideTree

LEMMA TipsKept ==
  ASSUME ~Slow, LockInv, MutexInv', ClaimInv, TipInv, [Next]_vars PROVE TipInv'
<1>0. MutexInv /\ MainTreeExclusive
  BY Locked DEF LockInv
<1>1. CASE UNCHANGED vars
  BY <1>1, TipsStill DEF vars, dbVars, memVars, procVars
<1>2. CASE Next
  BY <1>0, <1>2, StepKinds, OutsideTips, TickTips, LivesTips, TakeLeaseTips, ReturnsTips, InsideTips, ClaimTips
<1> QED BY <1>1, <1>2

LEMMA TipsInitially == Init => TipInv
BY DEF Init, NoJob, TipInv, TipOf

(* All that is known of a state of the system. *)
IInv == LockInv /\ ClaimInv /\ TipInv

LEMMA IInvHolds ==
  ASSUME ~Slow
  PROVE  Spec => []IInv
<1>1. IInv /\ [Next]_vars => IInv'
  BY LockKept, ClaimsKept, TipsKept DEF IInv, LockInv
<1>2. Init => IInv
  BY LockInitially, ClaimsInitially, TipsInitially DEF IInv
<1> QED BY <1>1, <1>2, PTL DEF Spec

(* Nothing that reads done has work of its own left on its branch, but for what a
   rebase that was cut off hides, and for a claim somebody was about to overwrite:
   a verdict is written while what it says is still so. *)
THEOREM DoneIsInTheBase ==
  ASSUME ~Slow
  PROVE  Spec => []DoneIsMerged
<1>1. IInv => DoneIsMerged
  BY DEF IInv, TipInv, TipOf, DoneIsMerged
<1> QED BY <1>1, IInvHolds, PTL

(* A branch loses its own commits to the base by one step only. *)
LEMMA OnlyMerging ==
  ASSUME TypeOK, JobsHaveWorkers, Next, NEW t \in Tasks, tip[t].ahead, ~tip'[t].ahead
  PROVE  ~tip[t].behind /\ \E j \in Jobs : At(j, "merging") /\ job[j].task = t
<1>0. tip \in [Tasks -> Tips] /\ tip' # tip
  BY DEF TypeOK, Tips
<1>1. ASSUME NEW u \in Tasks, NEW c \in Tips, c.ahead = tip[u].ahead \/ c.ahead, tip' = [tip EXCEPT ![u] = c] PROVE FALSE
  BY <1>0, <1>1
<1>2. \A u \in Tasks, r \in Rebasings :
        LET with(c) == c \in Tips /\ c.ahead = tip[u].ahead
        IN with([tip[u] EXCEPT !.rebasing = r]) /\ with([tip[u] EXCEPT !.rebasing = r, !.cut = FALSE])
  BY <1>0 DEF Tips
<1>3. "no" \in Rebasings /\ "half" \in Rebasings
  BY DEF Rebasings
<1>4. CASE Outside
  <2>1. CASE \E u \in Tasks : RunApproved(u)
    <3>1. PICK u \in Tasks : RunApproved(u)
      BY <2>1
    <3>2. CASE tip' = [tip EXCEPT ![u].ahead = TRUE, ![u].checked = FALSE]
      <4>1. tip' = [tip EXCEPT ![u] = [tip[u] EXCEPT !.ahead = TRUE, !.checked = FALSE]]
        BY <1>0, <3>2
      <4>2. [tip[u] EXCEPT !.ahead = TRUE, !.checked = FALSE] \in Tips /\ [tip[u] EXCEPT !.ahead = TRUE, !.checked = FALSE].ahead
        BY <1>0 DEF Tips
      <4> QED BY <1>1, <4>1, <4>2
    <3>3. CASE tip' = [tip EXCEPT ![u].rebasing = "half"]
      BY <1>1, <1>2, <1>3, <3>3
    <3>4. CASE tip' = [tip EXCEPT ![u].rebasing = "no", ![u].cut = FALSE]
      <4>1. tip' = [tip EXCEPT ![u] = [tip[u] EXCEPT !.rebasing = "no", !.cut = FALSE]]
        BY <1>0, <3>4
      <4> QED BY <1>1, <1>2, <1>3, <4>1
    <3> QED BY <1>0, <3>1, <3>2, <3>3, <3>4 DEF RunApproved
  <2>2. CASE BaseMoves
    BY <1>0, <2>2, BehindOnly DEF BaseMoves, SameTip
  <2> QED BY <1>0, <1>4, <2>1, <2>2 DEF Outside, Approve, Cancel, Requeue, RecoverRead, RecoverTask, dbVars
<1>5. CASE \E w \in Workers : Start(w) \/ Crash(w) \/ \E u \in Tasks : Mark(w, u)
  <2>1. PICK w \in Workers : Crash(w)
    BY <1>0, <1>5 DEF Start, Mark
  <2>2. PICK r \in Rebasings : tip'[t] \in {Cut(t, r), Cut(t, "no"), tip[t]}
    BY <2>1 DEF Crash
  <2> QED BY <1>3, <2>2, CutThere
<1>6. CASE \E j \in Jobs : InsideTree(j)
  <2>1. PICK j \in Jobs : InsideTree(j)
    BY <1>6
  <2>2. PICK u \in Tasks : u = job[j].task
    BY <2>1, InsideLeaves DEF JobsHaveWorkers, At, InTree
  <2>3. CASE Rebase(j)
    <3>1. \/ tip' = [tip EXCEPT ![u].behind = FALSE]
          \/ \E r \in Rebasings : tip' = [tip EXCEPT ![u].rebasing = r]
          \/ \E r \in Rebasings : tip' = [tip EXCEPT ![u] = Cut(u, r)]
      BY <1>0, <2>2, <2>3 DEF Rebase
    <3>2. CASE tip' = [tip EXCEPT ![u].behind = FALSE]
      <4>1. [tip[u] EXCEPT !.behind = FALSE] \in Tips /\ [tip[u] EXCEPT !.behind = FALSE].ahead = tip[u].ahead
        BY <1>0 DEF Tips
      <4> QED BY <1>1, <3>2, <4>1
    <3> QED BY <1>1, <1>2, <3>1, <3>2, CutThere
  <2>4. CASE Abort(j)
    <3>1. CASE tip' = [tip EXCEPT ![u].rebasing = "no", ![u].cut = FALSE]
      <4>1. tip' = [tip EXCEPT ![u] = [tip[u] EXCEPT !.rebasing = "no", !.cut = FALSE]]
        BY <1>0, <3>1
      <4> QED BY <1>1, <1>2, <1>3, <4>1
    <3>2. CASE tip' = [tip EXCEPT ![u] = Cut(u, "no")]
      BY <1>1, <1>3, <3>2, CutThere
    <3> QED BY <2>2, <2>4, <3>1, <3>2 DEF Abort
  <2>5. CASE Check(j)
    <3>1. tip' = [tip EXCEPT ![u].checked = TRUE]
      BY <1>0, <2>2, <2>5 DEF Check
    <3>2. [tip[u] EXCEPT !.checked = TRUE] \in Tips /\ [tip[u] EXCEPT !.checked = TRUE].ahead = tip[u].ahead
      BY <1>0 DEF Tips
    <3> QED BY <1>1, <3>1, <3>2
  <2>6. CASE FastForward(j)
    <3>1. CASE tip' = [tip EXCEPT ![u].checked = FALSE]
      <4>1. [tip[u] EXCEPT !.checked = FALSE] \in Tips /\ [tip[u] EXCEPT !.checked = FALSE].ahead = tip[u].ahead
        BY <1>0 DEF Tips
      <4> QED BY <1>1, <3>1, <4>1
    <3>2. CASE /\ FastForwards(u)
               /\ \A v \in Tasks \ {u} : tip'[v] = [tip[v] EXCEPT !.behind = TRUE]
      <4>1. u = t
        BY <1>0, <3>2, BehindOnly DEF SameTip
      <4> QED BY <2>2, <2>6, <3>2, <4>1 DEF FastForward, FastForwards
    <3> QED BY <2>2, <2>6, <3>1, <3>2 DEF FastForward
  <2> QED BY <1>0, <2>1, <2>3, <2>4, <2>5, <2>6 DEF InsideTree, Count, Record, Finish, Fail, StatementFails
<1>7. CASE \E j \in Jobs : Returns(j) \/ TakeLease(j) \/ Claim(j)
  BY <1>0, <1>7 DEF Returns, Claim, HandBack, Release, StatementFails, TakeLease
<1>8. CASE Tick
  BY <1>0, <1>8 DEF Tick
<1> QED BY <1>4, <1>5, <1>6, <1>7, <1>8, StepKinds

(* What the base moves to has passed the checks on top of exactly what the base
   contained: what a job found out before it merged still holds when it does. *)
THEOREM OnlyTheCheckedIsMerged ==
  ASSUME ~Slow
  PROVE  Spec => MergedWasChecked
<1>1. ASSUME IInv, [Next]_vars, NEW j \in Jobs, NEW t, t = job[j].task,
             At(j, "merging"), t \notin contested, tip'[t] # tip[t], ~tip'[t].ahead
      PROVE  tip[t].checked /\ ~tip[t].behind
  <2>1. Next
    BY <1>1 DEF vars
  <2>2. t \in Tasks
    BY <1>1 DEF IInv, LockInv, MutexInv, JobsHaveWorkers, At
  <2>3. tip[t].ahead /\ tip[t].checked
    BY <1>1, <2>2 DEF IInv, TipInv, TipOf, At
  <2>4. ~tip[t].behind
    BY <1>1, <2>1, <2>2, <2>3, OnlyMerging DEF IInv, LockInv, MutexInv
  <2> QED BY <2>3, <2>4
<1>2. IInv /\ [Next]_vars => [\A j \in Jobs :
       LET t == job[j].task IN
         At(j, "merging") /\ t \notin contested /\ tip'[t] # tip[t] /\ ~tip'[t].ahead
           => tip[t].checked /\ ~tip[t].behind]_vars
  BY <1>1
<1> QED BY <1>2, IInvHolds, PTL DEF Spec, MergedWasChecked
=============================================================================
