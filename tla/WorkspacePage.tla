--------------------------- MODULE WorkspacePage ----------------------------
(***************************************************************************)
(* The workspace page of apps/web: what each member's browser shows of the *)
(* tasks, the members and the container, the buttons it offers for them,   *)
(* the server actions behind the buttons, and the timer that refreshes a   *)
(* page while a task on it is active.  A page is a copy: the workers and   *)
(* the other members go on while a button is being pressed.                *)
(*                                                                         *)
(* A browser's requests run one at a time (Next's router queues them); a   *)
(* press made meanwhile waits behind the one that is being answered.       *)
(***************************************************************************)
EXTENDS TaskStatus, Naturals, FiniteSets

CONSTANTS
  Members, Owner,   \* the people with an account, and the workspace's owner
  Tasks,
  MaxPresses, MaxMoves, MaxFailures   \* bounds on buttons, worker moves and failures

ASSUME PageAssumption ==
  /\ Owner \in Members
  /\ {MaxPresses, MaxMoves, MaxFailures} \subseteq Nat

VARIABLES
  status,      \* the agent_tasks rows
  role,        \* the workspace_members rows
  containerStatus,   \* what the orchestrator says of the container
  deletedAt,   \* whether the workspaces row is marked as deleted
  page,        \* what each member's browser shows
  request,     \* what each member's browser has sent
  left         \* presses, worker moves and failures still to come

pageVars == <<status, role, containerStatus, deletedAt, page, request, left>>

-----------------------------------------------------------------------------

NoMove == <<"none", "none">>
NoPress == [act |-> "none", on |-> "none", showed |-> "none", as |-> "none"]

(* notFound: a page that shows nothing of the workspace. *)
NotFound ==
  [ at |-> "gone", tasks |-> [t \in Tasks |-> "unborn"], roles |-> [m \in Members |-> "none"],
    runtime |-> "stopped" ]

(* `from` is the status a server action loaded, `move` what it did to the
   row, `seen` the page that was rendered and is on its way. *)
NoRequest == [ at |-> "idle", press |-> NoPress, next |-> NoPress,
           from |-> "none", move |-> NoMove, answer |-> "none", seen |-> NotFound ]

TaskActs == {"approve", "cancel", "requeue"}

Target == [approve |-> "approved", cancel |-> "cancelled", requeue |-> "queued"]

Exists(s) == s \in TaskStatuses

(* ACTIVE_STATUSES: those in which a worker is about to move the task.
   Mistaken: an approved task is waiting for nobody. *)
ActiveButApproved == {"queued", "running", "integrating"}

ActiveStatuses == {"queued", "running", "approved", "integrating"}

PageTypeOK ==
  /\ status \in [Tasks -> TaskStatuses \cup {"unborn", "deleted"}]
  /\ role \in [Members -> {"none", "viewer", "editor", "owner"}]
  /\ containerStatus \in {"running", "stopped"} /\ deletedAt \in BOOLEAN
  /\ \A m \in Members :
       /\ page[m].at \in {"open", "gone"}
       /\ page[m].runtime \in {"running", "stopped", "unavailable"}
       /\ request[m].at \in {"idle", "asked", "rendered", "pressed", "loaded", "moved"}
       /\ request[m].answer \in {"none", "done", "refused", "raced", "failed"}
  /\ left \in [{"presses", "moves", "faults"} -> Nat]

(* A workspace in the middle of its life, its page open in every browser. *)
PageInit ==
  /\ status \in [Tasks -> {"unborn", "needs_review", "approved"}]
  /\ role = [m \in Members |-> IF m = Owner THEN "owner" ELSE "editor"]
  /\ containerStatus = "running" /\ deletedAt = FALSE
  /\ page = [m \in Members |-> [ at |-> "open", tasks |-> status, roles |-> role,
                                 runtime |-> "running" ]]
  /\ request = [m \in Members |-> NoRequest]
  /\ left = [presses |-> MaxPresses, moves |-> MaxMoves, faults |-> MaxFailures]

Spent(what) == left[what] > 0 /\ left' = [left EXCEPT ![what] = @ - 1]

Rank == [none |-> 0, viewer |-> 1, editor |-> 2, owner |-> 3]
RoleAtLeast(r, minimum) == Rank[r] >= Rank[minimum]

-----------------------------------------------------------------------------
(* The buttons.                                                              *)

CanApprove(s) == s \in {"needs_review", "checks_failed"}
CanRequeue(s) == s \in {"failed", "needs_rebase", "checks_failed", "cancelled", "needs_review"}

(* Mistaken: as if a task could be cancelled until it is over. *)
CanCancelUntilDone(s) == s \in {"queued", "running", "needs_review", "approved", "integrating"}

CanCancel(s) == s \in {"queued", "running", "needs_review", "approved"}
CanDelete(s, r) == r = "owner" /\ Exists(s) /\ s \notin {"running", "integrating"}

Button(act, on, showed, as) == [act |-> act, on |-> on, showed |-> showed, as |-> as]

(* TasksPanel: a task's buttons follow its status as it is shown. *)
TaskButtons(p, r) ==
  UNION {LET s == p.tasks[t]
         IN  {Button(act, t, s, r) :
                act \in {a \in TaskActs \cup {"delete"} :
                           \/ a = "approve" /\ CanApprove(s)
                           \/ a = "requeue" /\ CanRequeue(s)
                           \/ a = "cancel" /\ CanCancel(s)
                           \/ a = "delete" /\ CanDelete(s, r)}} : t \in Tasks}

(* PeoplePanel, a part of the live view: the owner adds and removes members. *)
PeopleButtons(p, r) ==
  IF r = "owner" /\ p.runtime # "stopped"
  THEN {Button(act, m, p.roles[m], r) : act \in {"editor", "viewer"}, m \in Members \ {Owner}}
       \cup {Button("remove", m, p.roles[m], r) : m \in {n \in Members : p.roles[n] \in {"editor", "viewer"}}}
  ELSE {}

(* The top bar starts or stops the container, as it was last seen. *)
ContainerButton(p, r) == Button(IF p.runtime = "running" THEN "stop" ELSE "start", "workspace", p.runtime, r)

(* The form of a new task. *)
CreateButton(r) == Button("create", "workspace", "none", r)

(* WorkspaceActions: the owner deletes the workspace, its slug typed out. *)
DeleteButton(r) == IF r = "owner" THEN {Button("erase", "workspace", "none", r)} ELSE {}

(* What a page offers the member who looks at it. *)
Offered(m) ==
  LET p == page[m]
      r == p.roles[m]
  IN  IF r = "viewer" THEN {}
      ELSE TaskButtons(p, r) \cup PeopleButtons(p, r)
           \cup {ContainerButton(p, r), CreateButton(r)} \cup DeleteButton(r)

(* SubmitButton: a form that is being answered is disabled, the others are not. *)
Press(m) ==
  /\ page[m].at = "open"
  /\ Spent("presses")
  /\ \E b \in Offered(m) :
       \/ /\ request[m].at = "idle"
          /\ request' = [request EXCEPT ![m] = [NoRequest EXCEPT !.at = "pressed", !.press = b]]
       \/ /\ request[m].at # "idle" /\ request[m].next = NoPress
          /\ <<b.act, b.on>> # <<request[m].press.act, request[m].press.on>>
          /\ request' = [request EXCEPT ![m].next = b]
  /\ UNCHANGED <<status, role, containerStatus, deletedAt, page>>

-----------------------------------------------------------------------------
(* The server actions.                                                       *)

MinimumRole(act) == IF act \in {"delete", "editor", "viewer", "remove", "erase"} THEN "owner" ELSE "editor"

(* requireMembership, loadWorkspace (which the actions on tasks do not call),
   and the check of the status that was loaded: assertTransition, or
   deleteTask's own. *)
Allowed(b, r, s) ==
  /\ RoleAtLeast(r, MinimumRole(b.act))
  /\ b.act \notin TaskActs \cup {"delete", "create"} => ~deletedAt
  /\ b.act \in TaskActs => CanTransition(s, Target[b.act])
  /\ b.act = "delete" => Exists(s) /\ s \notin {"running", "integrating"}

(* withError and stayOnPage both end with the page rendered again, the first
   with the error on it. *)
Answer(m, how) == request' = [request EXCEPT ![m].at = "asked", ![m].answer = how]

Load(m) ==
  LET b == request[m].press
      s == IF b.on \in Tasks THEN status[b.on] ELSE "none"
  IN  /\ request[m].at = "pressed"
      /\ \/ /\ Allowed(b, role[m], s)
            /\ request' = [request EXCEPT ![m].at = "loaded", ![m].from = s]
         \/ /\ ~Allowed(b, role[m], s)
            /\ Answer(m, "refused")
      /\ UNCHANGED <<status, role, containerStatus, deletedAt, page, left>>

(* Mistaken: the update names the task only. *)
ById(s, from) == Exists(s)

(* transition()'s WHERE clause: the status is still the one that was loaded. *)
Unchanged(s, from) == s = from

Moved(m, t, to) ==
  /\ status' = [status EXCEPT ![t] = to]
  /\ request' = [request EXCEPT ![m].at = "moved", ![m].move = <<status[t], to>>]
  /\ UNCHANGED <<role, containerStatus, deletedAt>>

UpdateTask(m) ==
  LET b == request[m].press IN
    \/ /\ b.act \in TaskActs
       /\ Unchanged(status[b.on], request[m].from)
       /\ Moved(m, b.on, Target[b.act])
    \/ /\ b.act \in TaskActs
       /\ ~Unchanged(status[b.on], request[m].from)
       /\ Answer(m, "raced")
       /\ UNCHANGED <<status, role, containerStatus, deletedAt>>
    \/ /\ b.act = "delete"
       /\ Moved(m, b.on, "deleted")

(* createTask inserts a queued task, or refuses what was typed (or there is no
   task left: the bound). *)
CreateTask(m) ==
  /\ request[m].press.act = "create"
  /\ \/ \E t \in Tasks : status[t] = "unborn" /\ Moved(m, t, "queued")
     \/ Answer(m, "failed") /\ UNCHANGED <<status, role, containerStatus, deletedAt>>

(* addMember inserts the row or changes its role; removeMember deletes it. *)
UpdateMember(m) ==
  LET b == request[m].press IN
    /\ b.act \in {"editor", "viewer", "remove"}
    /\ role' = [role EXCEPT ![b.on] = IF b.act = "remove" THEN "none" ELSE b.act]
    /\ request' = [request EXCEPT ![m].at = "moved"]
    /\ UNCHANGED <<status, containerStatus, deletedAt>>

(* startWorkspace and stopWorkspace wait for the orchestrator. *)
UpdateContainer(m) ==
  LET b == request[m].press IN
    /\ b.act \in {"start", "stop"}
    /\ containerStatus' = IF b.act = "start" THEN "running" ELSE "stopped"
    /\ request' = [request EXCEPT ![m].at = "moved"]
    /\ UNCHANGED <<status, role, deletedAt>>

(* deleteWorkspace: the container and its volume, then the row is marked. *)
DeleteWorkspace(m) ==
  /\ request[m].press.act = "erase"
  /\ containerStatus' = "stopped" /\ deletedAt' = TRUE
  /\ request' = [request EXCEPT ![m].at = "moved"]
  /\ UNCHANGED <<status, role>>

Update(m) ==
  /\ request[m].at = "loaded"
  /\ UpdateTask(m) \/ CreateTask(m) \/ UpdateMember(m) \/ UpdateContainer(m) \/ DeleteWorkspace(m)
  /\ UNCHANGED <<page, left>>

(* A call of an action throws: the orchestrator's or the database's. *)
ActionFails(m) ==
  /\ request[m].at \in {"loaded", "moved"}
  /\ Spent("faults")
  /\ Answer(m, "failed")
  /\ UNCHANGED <<status, role, containerStatus, deletedAt, page>>

(* recordEvent, after the change itself. *)
Record(m) ==
  /\ request[m].at = "moved"
  /\ Answer(m, "done")
  /\ UNCHANGED <<status, role, containerStatus, deletedAt, page, left>>

-----------------------------------------------------------------------------
(* Pages.                                                                    *)

(* The timer of AutoRefresh, set while a task on the page is active. *)
Refresh(m) ==
  /\ request[m].at = "idle" /\ page[m].at = "open"
  /\ \E t \in Tasks : page[m].tasks[t] \in ActiveStatuses
  /\ request' = [request EXCEPT ![m].at = "asked"]
  /\ UNCHANGED <<status, role, containerStatus, deletedAt, page, left>>

(* getWorkspaceDetail and listTasksForWorkspace.  A member who is one no more
   gets notFound; an orchestrator that cannot be asked leaves the view live. *)
Rendered(m, runtime) ==
  IF role[m] = "none" \/ deletedAt THEN NotFound
  ELSE [at |-> "open", tasks |-> status, roles |-> role, runtime |-> runtime]

Render(m) ==
  /\ request[m].at = "asked"
  /\ \E runtime \in {containerStatus, "unavailable"} :
       /\ request' = [request EXCEPT ![m] = [NoRequest EXCEPT !.at = "rendered", !.press = request[m].press, !.next = request[m].next,
                                                          !.seen = Rendered(m, runtime)]]
       /\ IF runtime = "unavailable" THEN Spent("faults") ELSE UNCHANGED left
  /\ UNCHANGED <<status, role, containerStatus, deletedAt, page>>

(* The browser shows what was rendered, and sends the press that waited. *)
Show(m) ==
  LET next == request[m].next IN
    /\ request[m].at = "rendered"
    /\ page' = [page EXCEPT ![m] = request[m].seen]
    /\ request' = [request EXCEPT ![m] = IF next = NoPress THEN NoRequest
                                         ELSE [NoRequest EXCEPT !.at = "pressed", !.press = next]]
    /\ UNCHANGED <<status, role, containerStatus, deletedAt, left>>

-----------------------------------------------------------------------------
(* The workers: the moves of TaskRuns and Integration, in one step each.  A  *)
(* run's last write names the task only, and may fall on a cancelled one.    *)

WorkerMoves ==
  [ s \in TaskStatuses |->
      CASE s = "queued"      -> {"running"}
        [] s = "running"     -> {"needs_review", "approved", "failed"}
        [] s = "cancelled"   -> {"needs_review", "failed"}
        [] s = "approved"    -> {"integrating"}
        [] s = "integrating" -> {"done", "needs_rebase", "checks_failed", "failed", "approved"}
        [] OTHER             -> {} ]

Work(t) ==
  /\ Exists(status[t])
  /\ Spent("moves")
  /\ \E to \in WorkerMoves[status[t]] : status' = [status EXCEPT ![t] = to]
  /\ UNCHANGED <<role, containerStatus, deletedAt, page, request>>

Acts(m) == Load(m) \/ Update(m) \/ Record(m) \/ ActionFails(m)
Looks(m) == Refresh(m) \/ Render(m) \/ Show(m)

PageNext ==
  \/ \E m \in Members : Press(m) \/ Acts(m) \/ Looks(m)
  \/ \E t \in Tasks : Work(t)

PageSpec == PageInit /\ [][PageNext]_pageVars

(* The timer fires, the server answers and the browser shows the answer; no
   person has to do anything, no worker has to move and nothing has to fail. *)
PageFairness ==
  \A m \in Members :
    WF_pageVars(Refresh(m)) /\ WF_pageVars(Load(m) \/ Update(m) \/ Record(m))
    /\ WF_pageVars(Render(m)) /\ WF_pageVars(Show(m))

PageFairSpec == PageSpec /\ PageFairness

-----------------------------------------------------------------------------
(* Properties.                                                               *)

(* A press that is answered as done made one move, from the status that was
   loaded, and it is in TASK_TRANSITIONS: two people, or a person and a worker,
   who move the same task at once do not both succeed (transition() in
   lib/tasks.ts).  One that was refused or overtaken made none. *)
PressesAreTrue ==
  \A m \in Members :
    LET q == request[m] IN
      /\ q.answer = "done" /\ q.press.act \in TaskActs =>
           CanTransition(q.move[1], q.move[2])
      /\ q.answer \in {"refused", "raced"} => q.move = NoMove

(* The buttons agree with the server's checks: a press is refused only if the
   task, the member's role or the workspace is no longer what the page showed
   when the button was pressed (TasksPanel and PeoplePanel against assertTransition and
   requireMembership). *)
RefusedIsStale ==
  [][\A m \in Members :
       LET b == request[m].press IN
         request[m].answer = "none" /\ request'[m].answer = "refused" =>
           \/ b.as # role[m]
           \/ deletedAt
           \/ b.on \in Tasks /\ b.showed # status[b.on]]_pageVars

(* A page does not go on showing a task as active when it is not, nor to
   someone who was removed or of a workspace that was deleted: it shows
   something else (AutoRefresh and ACTIVE_STATUSES). *)
PageSettles ==
  \A m \in Members, t \in Tasks, s \in {"queued", "running", "approved", "integrating"} :
    LET shown == page[m].at = "open" /\ page[m].tasks[t] = s
        true == status[t] = s /\ role[m] # "none" /\ ~deletedAt
    IN  shown /\ ~true ~> ~shown \/ true
=============================================================================
