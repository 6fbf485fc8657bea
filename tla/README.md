# Notea Workspace: TLA+ models, checks and proofs

This directory holds TLA+ models of the parts of Notea whose correctness depends
on the order in which things happen: agent tasks between the web control plane
and the workers, the run of one agent, the integration and the reaping of
branches, the connections to a workspace and the terminals behind them, the
workspaces' containers, and the pages that show all this. TLC checks the models
on small instances; TLAPS proves properties of ten of them for every instance.
`PROJECT.json` maps each definition to the source lines it translates and lists
the runs, mutants, theorems and hazards.

    tlc -workers 2 -config TaskRuns.cfg MCTaskRuns     # model-check
    tlapm TaskRunsProofs.tla                           # check proofs

## 1. Inventory

| Part | State it keeps | Operations | Interacts by | Module |
|---|---|---|---|---|
| Control plane, tasks (`apps/web/src/lib/tasks.ts`) | rows of `agent_tasks` | create, approve, cancel, requeue, delete, updatePolicy | database | `TaskRuns`, `WorkspacePage` |
| Worker, task runs (`apps/worker/src/processor.ts`, `index.ts`) | slots, promises; rows of `agent_tasks`, `agent_runs` | claimNextTask, runTask, startDueRuns, recoverStaleRuns | database, orchestrator, the workspace's agent | `TaskRuns`, `Scopes` |
| Worker, integration (`processor.ts`, `integration-lease.ts`, `packages/agents/src/integration.ts`, `git.ts`) | PerKeyMutex, integratingHere, the lease in `workspaces`, the repository | integrateApprovedTask, recoverStaleIntegrations | database, commands in the container | `Integration` |
| Worker, reaper (`reaper.ts`) | worktrees and branches of a workspace | planReap, reapWorkspace, reapAll | database, commands in the container | `Reaper` |
| Agent run (`terminal-run.ts`, `isolated-session.ts`, runtimes; orchestrator's `agent-exec.ts`) | event queue, deadline and grace timers, listeners; pid files, backstop timers | start, output, exit, cancel, deadline, kill | the exec's response, Docker | `AgentRun`, `AgentStream` |
| Orchestrator, agent terminals (`agent-terminals.ts`, `docker/agent-terminal.ts`, `routes/agent-terminal.ts`) | one entry per member: screen, listeners, status, handle | attach, start, stop, input, resize, shutdown | Docker, WebSocket routes | `AgentTerminals`, `TerminalPane` |
| Orchestrator, workspace runtimes (`docker/workspace-runtime.ts`) | containers and volumes | create, start, stop, remove | Docker; called by control plane and worker | `Workspaces` |
| Orchestrator, bridge (`routes/bridge.ts`, `tokens.ts`) | two sockets, frames held back | open, forward, close | WebSockets | `Connection` |
| Workspace agent (`packages/workspace-agent`) | clients, sessions, processes, scrollback, files | hub messages, limits, etag writes | WebSockets, processes | `Connection`, `Sessions` |
| Workspace client (`packages/workspace-client`) | generations of sockets, pending requests, timers | connect, request, runExec, close | WebSocket, HTTP | `Connection`, `TerminalPane` |
| Worker, workspace connection (`workspace-connection.ts`) | a client until hello | connect, close | the two above | `Connection`, `Workspaces` |
| Control plane, workspaces and members (`apps/web/src/lib/workspaces.ts`, `authz.ts`) | rows of `workspaces`, `workspace_members` | create, start, stop, delete, members | database, orchestrator | `Workspaces`, `WorkspacePage` |
| Web pages (`apps/web/src/components`, `app/page.tsx`) | what a browser shows | buttons, refreshes, panes | server actions, WebSockets | `WorkspacePage`, `TerminalPane`, `Sessions` |
| Agents library, the rest; protocol; schema; infrastructure | none, data or configuration | | | |

What is hard here. Several worker processes and the control plane share nothing
but PostgreSQL; there are no transactions around the worker's steps, so every
statement is a point where anything may have happened since the one before. A
worker may die between any two statements, a statement may fail, the event
stream of an agent may be lost while the agent works on, and heartbeats stop
without their run having stopped. Cancelling and requeueing happen at any time,
so that runs of one task overlap. Integrations take up to tens of minutes under
a lease that is not renewed. The orchestrator keeps no queue of its calls: a
caller gives up while its call goes on, and other calls change the container
between two requests to Docker. A socket lives in three processes with three
ideas of when it ended, and xterm parses what it was given later, perhaps when
the next socket is there. A page is a copy that ages while its buttons are
pressed. `PROJECT.json` lists the hazards line by line.

What makes each part correct:

- Task runs: a queueing of a task is run once at most; `running` always has
  somebody behind it; slots are not exceeded; agents are not left behind; tasks
  leave `running` and `queued`; overlapping scopes do not run together.
- Integration: the main tree has one user among the workers; only checked content
  reaches the base; `done` means merged; a claim is exclusive; approved tasks get
  somewhere, crashes included.
- Reaper: no commit is lost; no run loses its worktree; what is left over goes.
- Agent run: the event stream ends exactly once, whatever is lost, after all the
  output; the process does not outlive it for ever.
- Agent terminals: a viewer sees every byte once; one process per member; a stop
  is not lost; a pane that reconnects shows what the terminal shows.
- Workspace runtimes: at most one container per workspace; none without a record.
- Connection: each request is answered once or rejected; frames keep their order;
  processes do not outlive their client; who left is not present.
- Shared sessions: a screen continues its snapshot; pages agree with the agent;
  what is killed ends.
- Pages: a press does what its page said, or nothing; a page catches up.

## 2. Modules

| Module | Content |
|---|---|
| `TaskStatus` | the status enum and TASK_TRANSITIONS |
| `TicketQueue` | what the queue promises, abstractly: tickets are issued, taken once, or withdrawn |
| `TaskRuns` | control plane, workers, runs, recovery, crashes; implements `TicketQueue` |
| `Scopes` | the comparison of two tasks' scopes, and which paths a scope names |
| `ScopedRuns` | `TaskRuns` with tasks that have scopes: what overlaps, and which paths are worked on |
| `TaskRunsProofs` | theorems about `TaskRuns` and `ScopedRuns` |
| `Integration`, `IntegrationProofs` | jobs, mutex, lease, recovery, the repository abstracted, and theorems |
| `AgentStream` | what the worker relies on about one run of an agent |
| `AgentRun`, `WorkerProofs` | one run through worker, orchestrator and container; implements `AgentStream`; the theorems about it stand beside those about `Reaper` |
| `Reaper`, `WorkerProofs` | the removal of worktrees and branches, and theorems about it |
| `AgentTerminals`, `AgentTerminalsProofs` | a member's terminal in the orchestrator, and theorems about it |
| `TerminalPane`, `WebProofs` | the pane that shows it, its client and its route, and theorems |
| `Connection`, `ConnectionProofs` | client, bridge, hub and processes, and theorems about them |
| `Sessions`, `SessionsProofs` | the shared terminals of a workspace, what pages make of them, and theorems |
| `Workspaces`, `WebProofs` | records, containers and volumes, and theorems |
| `WorkspacePage`, `WebProofs` | the pages of a workspace's members, their buttons and refreshes, and theorems |
| `Folding` | what a fold over a queue computes, for any operator: lemmas for the proofs |
| `MC...` | definitions and constants for TLC |

How they fit together. `TaskRuns` sees an agent as something that is watched
through a stream or strays; `AgentStream` states just that, and `AgentRun` shows
that the real thing behaves so. `TaskRuns` summarises integration in two steps
which `Integration` has in detail; `Reaper` has the life of a task as far as git sees it.
`TerminalPane` has of the terminal what a viewer can tell; `AgentTerminals` has
the inside. `ScopedRuns` says that the constant `Overlap` of `TaskRuns`
is what `Scopes` computes, and the two are checked and proved about together. A type invariant is in a cfg
where it says something the other properties do not; the others' `TypeOK` hold
with the constants of the same cfg (replace its properties by `TypeOK`; all
have been run).

### TaskRuns

One atomic step is one database statement together with the synchronous code up
to the next `await`. `transition()` of the control plane reads a row, checks the
table and updates `WHERE status` is still what it read; the whole is one step,
since it has an effect only if nothing changed. `deleteTask` has no such guard
and is two steps. `claimNextTask` reads its candidates, checks them one by one
and claims by compare-and-set: `ScanStart`, `ScanCheck`, `ScanClaim`.
`recoverStaleRuns` reads its rows and makes two updates per row: `SweepRead`,
`SweepRun`, `SweepTask`. A tick whose statement fails is dropped (`TickFails`).

A run of the model is one call of `runTask`, from the claim that led to it to
the settling of its promise. Its place (`at`) goes through

    claimed -> preparing -> streaming -> committing -> recorded -> deciding -> announcing -> ended
                  any of these but the first -> failing -> noting -> closing -> ended

or to `lost` (a statement outside the try block failed) and `dead` (its worker
died). Its row, its agent's process and its heartbeat are separate parts of its
state, because they outlive it or end before it. `watched` is an agent whose
event stream the run consumes, `stray` one that may still run without. `Beat`
is the heartbeat's update and the read of the status after it; between the two
there is nothing another step could tell apart, except that a cancellation is
noticed one beat later, which is another beat. After a cancellation is noticed
the agent is asked to stop; it shows in the model as the end of the stream.
What lies between the claim and the agent's start (owner, worktree, brief,
credential) is one place that may throw. Integration is summarised by
`MergeStart` and `MergeEnd`; its own module has the detail.

Tasks carry a history variable, `queueing`: how often they have been queued. It
numbers the claims, so that "twice" can be said.

Bounds: `MaxRuns`, `MaxQueueings`, and `MaxFaults` for crashes, failed
statements outside try blocks and live runs whose heartbeat is more than two
minutes old. `Deletable` says which tasks an owner may delete. The code's limit
of 20 candidates is the constant `CandidateLimit`.

### Integration

A job is one call of `integrateApprovedTask`. The mutex is the queue `line` per
worker, `integratingHere` the set `ours`, the lease a holder and the ticks it
has left; a claim's age counts down from the lease's term too (`fresh`). A tick
is the passing of a term's part (the term is one tick in the runs: what matters
is before or after). With `Slow = FALSE` time does not pass a lease or a claim of
a job in progress, which states the assumption the code rests on: an
integration, waiting included, is shorter than 30 minutes. Nothing in the code
enforces it: the check command alone may take 15 minutes, and jobs wait for each
other. The repository is abstracted to a few facts per branch (`tip`): has it
commits of its own, is it behind the base, did the checks of this integration
pass on what it contains, and is its worktree in the middle of a rebase, before
the first commit (`started`) or behind one (`half`). A rebase that stops is a place
of its own (`stopped`), because the abort that follows is another command: it
may fail, and the worker may die before it. `cut` remembers that one was left so.
Git counts commits on HEAD, which in the middle of a rebase is not the branch
(`Ahead`). A run that finds such a worktree commits to the detached HEAD, or its
agent clears the rebase away. A workspace without a check command counts as one
whose check passes. Members commit to the base at any time.

Two of the writes look at the task's status, or at nothing, and never at who has
claimed it (`AboutToWrite`): that of a recovery, between its selection and its
update, and that of the catch block, when the event after a recorded verdict
fails. A task that is claimed while one of them is under way, or the other way
round, is `contested`, a history variable: the claim may be taken back or the
verdict overwritten, and two jobs may then have claimed the task at once.
`ClaimIsHeld`, `MergedWasChecked` and `DoneIsMerged` except these tasks;
`MainTreeExclusive` does not. A crash and a failed statement are a fault each
(`MaxCrashes`, `MaxFailures`, both within `MaxFaults`).

WORKER_ID defaults to host name and process id (`config.ts`), so a process that
died does not return under its id. A fixed WORKER_ID would let a restarted worker
take its own old lease at once, which is safe for the same reason: the old
process is gone.

### AgentTerminals

One terminal, of one member in one workspace: entries share nothing, and the stop
script ends the processes of one uid in one container. A step is what runs
between two awaits. `entry` is the map's entry with `known` for being in the
map; its `text` and `queue` are the screen as the parser has it and what the
parser has been given. `Attach` is attach() up to its await, `Parse` the parser's
work on one item: behind the empty write it takes the snapshot, and the route
sends its hello and resumes in the same step, because nothing but the parser
comes between. `shown` is what a viewer has seen: the snapshot and the messages
since; the socket keeps their order, so sending is showing.

start() is at `preparing` until its stop script has looked for processes,
`ending` until that script returns, `launching` until Docker hands the process
over. `live` are the member's terminal processes in the container, `doomed` those
that a stop script has hung up: it takes its list once and kills what is left
after five seconds. Several stops may be under way (`stops`). Processes survive
the loss of their stream (`StreamLost`) and of the orchestrator (`Crash`); a
container that stops is its processes ending. Docker calls fail (`StartFails`,
`StopFails`), the start of a process possibly after it has come about, and a
stop script's stream may be lost before the script is done (`StartCleared`). A call
that is cut off takes its effect at once or not at all: a process whose start a
crashed orchestrator had asked for does not appear after the next one has looked.

Left out: input(), hyperlink addresses, the reflow of the screen when its size
changes, tokens, a failing pty resize, and viewers who attach after
shutdown() has cleared the entries (they would see an empty terminal of an
orchestrator about to exit).

A stop that arrives before start() has set its status has no effect: the route
looks up the container first, and stop() sees a terminal that is not starting.
`StopTakesEffect` says nothing about it. Nor does anything stop a slow stop from
ending the run after the one it was meant for.

### AgentRun and AgentStream

One run from the request to the orchestrator to the event the worker stores last.
`proc` is the process: `young` until the wrapper has written its pid file, before
which a kill finds nothing; `doomed` once it is signalled. `orch` is the
orchestrator with the route of this run and its backstop timer, `wire` the NDJSON
response, `session` the isolated session (what it keeps until there are
listeners, its attempts at stopping a lost process), `run` the terminal run with
its timers, its queue of events and the worker's loop over them. A kill is asked
for by the deadline, by a cancellation, and by the retries after a lost stream
(`Callers`); each may fail, and what it answers may be lost. A line of output is
a value; one that has no newline yet is another, because settle() parses it in
another place. Faults are counted by kind: worker, orchestrator, connection,
Docker. `MaxPieces` is one: the order of several pieces is that of one queue
behind another, and what the properties tell apart is the first, the last and the
one without a newline. The refinement maps the run to `AgentStream`: a process
that is `watched` has a live run, a `stray` has none.

### Connection

A client, the sockets it opens one after another, the bridge of each, and the hub.
A socket is a record: the state of its ends (`client`, `bridge`, `hub`) and the frames
between them; `gone` says that the client's close has reached the bridge.
`holder` is who asked for the client, among them the worker's connector that
waits for hello and gives up. Requests are plain (`Pings`) or start a process
(`Execs`): behind its await `ProcessStarts` looks again whether who asked is there. What
arrives of a process before the response that names it is kept in `early`. A
message of an older socket is dropped by its generation, which is `sock`. A
break loses what is under way, and each end notices in its time. `handled` and
`sent` are histories of the frames.

### Sessions

The shared terminals, whose output is a stream of numbered bytes; a chunk is an
interval, so that a gap or a repetition shows. A page's screen is the interval
it has drawn, `torn` if a message did not continue it. The agent's hub runs on
one event loop, so each frame is one step; what it sends waits in the client's
queue. The properties speak of a page that has read its queue (`Drained`), in
every state, not just when the queue is empty.

### TerminalPane

One pane: the component, its xterm, its client, its sockets and the route. What
is written to xterm is parsed later (`queue`), also when the next socket is there
already. Of the terminal behind it there is its state, its output since it was
cleared and who listens. The pane is its member's own or somebody else's.

### Workspaces

A workspace's record, the container that has its name, its volume, and the calls
under way in the orchestrator, each at its next request to Docker. A caller that
gives up does not end its call. `container.id` tells a container from the one that
has its name later. `past` remembers what may leave a container behind or take one
away (a removal crossed by a start, an undo that failed, a removal, a container
that could not be made), so that the properties can say what they are about.

### Reaper

The tasks of a workspace as far as git sees them (status, worktree, branch, the
commits they have, in their archive and in the base) and overlapping passes,
each a sequence of commands between which the tasks go on. A directory git does
not know is told from a worktree. `late` are the tasks created while a pass was
under way, which the pass takes for deleted ones (see the disagreements).

### WorkspacePage

The rows (tasks, members, the workspace), the container, and what each member's
browser shows, has sent and has waiting. A server action is loading, updating,
recording and rendering, with everybody else in between; the workers' moves are
taken from TASK_TRANSITIONS in one step each. A browser has one request at a time and one press
waiting behind it; closing the tab, notices, and what createTask checks of its
input are abstracted.

### Scopes

A pattern is a sequence of characters and of the wildcards `*`, `**` and `?`;
`Matches` is the regular expression's matching as a recursive function,
`NamesIn` the reference: which paths a scope names, among all the short paths
over two letters. The assumption `OverlapIsConservative` compares the two for every
pair of patterns of up to three tokens; TLC evaluates it with the runs of
`ScopedRuns`. `NoPathTwice` asks that the code's comparison, as it is used by
the claims of `TaskRuns`, keeps apart whatever the reference says is shared.

## 3. Runs

| Run | Instance | Shows |
|---|---|---|
| `task_runs` | 1 task queued at most twice, 2 workers with 1 slot, 3 runs, 2 faults, deletion | types, ClaimedOnce, RunningIsOwned, SlotBound, NoWatchedAgentLeft, refinement of TicketQueue |
| `task_runs_live` | 3 tasks with scopes (one in a deleted workspace), 1 worker with 2 slots, 2 runs, 1 fault, `block` and `auto` | NoPathTwice, RunningSettles, QueuedIsTaken, OrphansAreRecovered |
| `integration` | 2 tasks, 2 jobs, 2 workers at a time, 1 fault (a crash or a failed statement), rebases that are cut off | MainTreeExclusive, DoneIsMerged, ClaimIsHeld, MergedWasChecked |
| `integration_live` | 1 task, 2 jobs, 2 workers at a time, 2 faults (a crash, a failed statement) | ApprovedSettles |
| `agent_terminals` | 2 starts, 2 pieces of output, 1 resize, 1 stop under way, 1 fault, 1 viewer who may come back | ViewersAgree, OneProcess, EntryKept, StopTakesEffect |
| `agent_run` | 1 piece of output, 1 attempt at a lost process, 2 kinds of faults | OutputComplete, ImplementsAgentStream, StreamIsDone, AgentStops |
| `connection` | 2 sockets, 1 process with 2 pieces of output, 1 plain request, 1 frame held back, 1 break | FramesInOrder, NoOwnerless, ExecSettles, LeavesPresence |
| `workspaces` | 2 calls at a time and the undo, 3 containers, 1 new image, 2 faults | NoOrphan, CurrentIsKept |
| `reaper` | 1 task with 2 runs and 2 commits, 2 passes at a time, 1 fault | WorkKept, RunsKeepTheirTrees, DebrisReaped |
| `sessions` | an editor and a viewer, 2 sessions, 1 at a time, 2 bytes of which 1 is kept, 3 frames | ScreensContinue, PagesAgree, KilledIsGone |
| `terminal_pane` | 2 sockets, 2 pieces of output, 2 presses, 1 fault, 1 frame held back | PaneShows, IdleIsStarted |
| `workspace_page` | the owner and a member, 1 task, 2 presses, 1 move of a worker, 1 fault | PressesAreTrue, RefusedIsStale, PageSettles |

The bounds let the cases happen that the properties are about.

- Two queueings and three runs are a task that is cancelled, requeued and claimed
  while its first run is still going, by the same or by another worker, and one
  claim more to go wrong; two faults are, for instance, a stale live run and a
  crash, or a crash in the middle of the recovery of another.
- Two tasks and two jobs are a job behind another on the mutex or on the lease,
  and two calls for one task; a crash leaves a lease, a claim and perhaps a rebase;
  a failed statement leaves a lease, or writes over somebody's claim. Two faults
  of one task are in the other integration run; two of two tasks make more states
  than a run may take, and the proofs have any number.
- Two starts and two pieces of output are output of one run still in the parser
  when the next begins, and a process left behind when its successor starts.
- Two kinds of faults in a run of an agent are, for instance, a lost connection
  and an orchestrator that is down when the process is to be stopped.
- Two sockets are a reconnect, with frames of the first still on their way; one
  frame held back is full, two are too many.
- Two calls of the orchestrator interleave at each of their requests to Docker;
  a third, the undo, comes on top. Three containers are an old one, its
  replacement, and one more of a call that crosses.
- Two runs and two passes are a task that comes back between the reading and the
  removing, and passes that remove the same things.
- One session at a time makes the limit, one byte kept makes every further byte trim,
  and unread messages are a client that attaches while it is behind.
- Two presses by two people are the same button pressed at once, on pages of
  which one is older.

Every property has a mutant in `PROJECT.json`, a plausible mistake in one
definition that the same run finds.

Symmetry is used only in runs of safety properties; workers, tasks in
`Integration` and calls in `Workspaces` differ in name alone. Deadlock is not
checked: with everything done and the bounds exhausted the models may stop.

### Fairness

Promises settle and timers fire, so a run, a job, a pass or a handler that can
take its next step does: weak fairness of each. Waiting on an agent's events is
bounded by the run's deadline. Users, faults, heartbeats, agents' output and the
summary of integration in `TaskRuns` are not obliged to happen.

- `task_runs_live`, `integration_live`. Workers poll for ever. A tick recovers
  before it claims, whatever the last scan found, so `SweepRead` cannot be put off
  for ever by scans that claim nothing: strong fairness. The same holds of
  `RecoverRead` and `Mark`, which are enabled again and again when the statuses
  they look at go back and forth, and of `Tick`: time passes between
  integrations. Services are restarted by systemd (`Start`). The liveness of
  `TaskRuns` is claimed up to faults, since a fault may strand a task (see
  below); `OrphansAreRecovered` allows the crash it is about.
- `agent_terminals`. Docker answers, a process that has been hung up ends (the
  script kills it if not), and the daemon reports the end of a stream.
  `StopTakesEffect` is claimed up to a shutdown (see below).
- `agent_run`. Calls are answered or time out, frames are read, a script runs,
  what it signals ends, an orchestrator is started again. An agent need not end
  by itself and nobody has to cancel it: `StreamIsDone` and `AgentStops` rest on
  the deadline and the backstop. `AgentStops` excepts an orchestrator or a Docker
  that failed: their timers are gone.
- `connection`, `terminal_pane`, `sessions`. Frames arrive or their connection
  breaks, event loops run what is queued, a token is verified or refused, an agent
  answers or is refused (each handshake has a timeout), a parser works, a process
  ends that was sent SIGKILL. Nothing makes a process heed SIGHUP.
- `reaper`. The reaper is called every minute, its commands end; runs end
  (max_minutes) and what is approved is integrated or refused.
- `workspace_page`. The refresh timer fires, the server answers and the browser
  shows it. Nobody has to press anything and no worker has to move.

### Where the code does not keep what is said of it

The modules state these properties too. TLC ends each with a counterexample: take
the cfg of the run, let it check the property instead of its own, without
SYMMETRY, and change the constants as given. (No cfg is kept for them; the runs
are those of what holds.)

| Property (cfg, changes) | What is said | What happens |
|---|---|---|
| `CancelSticks` (TaskRuns, MaxFaults = 0) | DATABASE_SCHEMA.md:48 "so concurrent transitions cannot clobber each other" | runTask reads the status (processor.ts:274), the user cancels, runTask writes its verdict by id (283-294); in `auto` the cancelled work is merged. |
| `RunningIsRecoverable` (TaskRuns, MaxFaults = 1) | AGENT_SYSTEM.md:101 "worker crash → stale-run recovery marks runs failed after 2 minutes without a heartbeat" | A worker dies between the claim (processor.ts:100) and the run's row (120), or in recovery between the row and the task (417, 418): the task reads `running` for ever, because recovery goes by rows. |
| `QueuedIsTaken` (TaskRunsLive, Tasks <- TwoTasks, Overlap <- None, CandidateLimit = 1, MaxFaults = 0) | processor.ts:81-84 "Claims the oldest queued task whose scope does not collide … Returns null when nothing is claimable" | Queued tasks of a deleted workspace fill the window of candidates (88, 91). One task and a window of one stand for twenty. |
| `RecoversOnlyAbandoned` (IntegrationLive, SPECIFICATION Spec, Slow = TRUE, MaxAlive = 1, MaxFaults = 0; or Slow = FALSE, MaxFaults = 1) | processor.ts:317 of integratingHere: "recoverStaleIntegrations must never take one of these back" | Two calls for one task share one entry; the loser deletes it (330), and recovery takes the winner's claim back while it waits on the mutex. Needs an integration that outlasts the term. Without one it takes two workers and a failed statement: both recoveries select the task left behind, one hands it back, it is claimed again, and the other takes the new claim back, since its update looks at the status alone (463-469). |
| `DoneIsFinal` (IntegrationLive, SPECIFICATION Spec, MaxAlive = 1, MaxCrashes = 0) | tasks.ts:3 "Anything not listed is rejected", `done: []` (13) | The event after a recorded `done` fails (processor.ts:388); the catch block writes `failed` (400). |
| `RepeatsAreSafe` (Integration) | DECISIONS.md:219 "Integration is written to be repeated: a rebase that already finished is a no-op" | A worker dies in the middle of a rebase, or its abort fails. The next integration counts the commits of HEAD (integration.ts:30): none before the first commit of the rebase, so there is nothing to integrate and the task reads `done`, its work not merged. |
| `GridIsOwners` (AgentTerminals, MaxStarts = 1, MaxFaults = 0) | ARCHITECTURE.md:112 "A pty has one grid, and its owner's pane decides it" | A resize during a start changes the entry and all viewers; the pty is created with the size the start was asked for (agent-terminals.ts:146, 185). |
| `ShutdownEndsAll` (AgentTerminals, MaxStarts = 1, MaxFaults = 0) | agent-terminals.ts:204 "Stops every terminal (orchestrator shutdown)" | A terminal that is starting is not among those it stops (207); its entry is cleared, so that the stop made up for later finds nothing. |
| `SummaryKept` (AgentRun, MaxFaults = 0) | terminal-run.ts:31-33 "can keep the CLI's own explanation instead of reporting a bare failure" | The result is still without its newline when the exit comes: onExit is evaluated before the rest of the buffer is parsed, so the last event has no summary. |
| `BytePipe` (Connection, Pings = {p1, p2}, MaxSockets = 1, MaxPieces = 0, MaxBreaks = 0) | bridge.ts:13 "After verifying the connect token this is a byte-for-byte pipe in both directions" | Frames held back overflow and one is dropped; the client is told to go, but the upstream opens first and what follows is forwarded behind the gap. |
| `OutputCollected` (Connection) | client.ts:256 "resolves when it exits, with its collected output" | The agent reports Node's `exit`, which does not wait for the pipes; chunks read after it are dropped. |
| `RestartsAreHarmless` (Workspaces) | workspace-runtime.ts:42 "nothing is cached here, so restarts of this service are harmless" | A restart between the removal of the old container and the making of the new one leaves none; start() then answers that there is none. |
| `UndoLeavesNothing` (Workspaces) | workspaces.ts:150 "remove the row so the user can retry with the same slug, and whatever the orchestrator did create" | The client gives up while the orchestrator has not made the container yet: the removal finds none, and the creation goes on behind it. |
| `RunsAreLeftAlone` (Reaper, ReaperSpec) | reaper.ts:29-31 "skipped whole so the reaper never races a live run's or integration's git operations" | A task created and claimed after a pass has read the statuses is unknown to it and taken for a deleted one: its worktree and branch are removed (the branch is archived). |

## 4. Proofs

The theorems hold for any values of the constants that the assumptions of the
modules admit (types, for the most part, and bounds that are numbers). Some need
more, and state it: those about `Integration` that time does not
pass a lease (`~Slow`), and `PathsAreApart` that one worker does the claiming.
Where an invariant is stronger than what it proves, TLC checked it first, on
instances like those of the runs.

`TaskRuns` (any tasks, workers, overlaps, policies and bounds):

- `TypeCorrect`: TypeOK.
- `ClaimsAreExclusive`: ClaimedOnce. `RunningTasksAreOwned`: RunningIsOwned. Neither
  is inductive. That a claim meets no other run of its queueing rests on the
  task being queued, so the invariant says that a queued task's latest queueing
  is unclaimed, and that no run belongs to a queueing yet to come. That a running
  task's run has not returned rests on what runTask does to the task before it
  returns (`EndedLeftRunning`). `IInv` is the conjunction of these with the types
  (`Inductive`). The proof does not go through the actions for each conjunct:
  every step is shown to be of one of three kinds, a quiet step, a queueing or a
  claim (`StepKinds`), and each kind to keep `IInv`.
- `TicketsAreTaken`: every behaviour of TaskRuns is one of TicketQueue, with the
  pairs of a task and a number of a queueing as tickets. A quiet step stutters or
  withdraws, a queueing issues, a claim takes. This is proved from `IInv` and the
  three kinds.
- `AgentsAreLetGo`: NoWatchedAgentLeft, from the invariant that an agent is
  watched only while its events are consumed or in the catch block before the kill.
- `SlotsAreKept`: SlotBound, from the invariant that a worker with a scan under
  way has a slot to spare: only its own scan can fill it.
- `PathsAreApart`: NoPathTwice, under `block` and for one worker. `ApartInv`: running
  tasks do not overlap, nor does the task about to be claimed overlap one that
  runs. The claim comes after the comparison, and in between only the one worker
  could have started something. That tasks which do not overlap name no path
  together is `OverlapIsConservative`: an assumption of `Scopes` about short
  patterns and paths that TLC evaluates in full, since matching is a recursion over
  text that the provers cannot follow.

`Integration` (any tasks, workers, jobs and faults):

- `TypeCorrect`: TypeOK, with the order of the mutexes (`MutexInv`): who asked is in
  its worker's line, once, and only the first is past waiting.
- `OneInTheTree`: MainTreeExclusive, if `~Slow`. The mutex keeps the jobs of a worker
  apart, the lease the workers (`TreeIsLeased`: who is in the main tree has the
  lease, and it has not run out). A lease stays behind when its worker dies or a
  statement fails; the next takes it when it has lapsed, and by then nobody is in
  the tree on account of it.
- `ClaimsAreKept`: ClaimIsHeld, if `~Slow`. `ClaimInv` adds that a claim is younger than
  a lease, which is why recovery does not select it, and that nobody is about to
  write to a claimed task that is not contested.
- `OnlyTheCheckedIsMerged`: MergedWasChecked, and `DoneIsInTheBase`: DoneIsMerged, if
  `~Slow`. What a job found out about its branch and the base is old when it acts.
  `TipInv` says what is still so at each place of a job, and whence a worktree can be
  in the middle of a rebase; it rests on both of the above, since otherwise another
  job could have moved the branch. That the base has not moved since the check
  is what the fast-forward itself refuses.

`AgentTerminals` (any viewers, sizes and bounds):

- `OneProcessOnly`: OneProcess. A start's script hangs up what it finds, and
  nothing else brings a process about before that start does: once it has looked,
  everything alive is hung up until the launch, which adds one.
- `EntriesAreKept`: EntryKept. The listeners are the connections that are not
  away, the status tells whether there is a start or a process, and the entry is
  in the map exactly when either keeps it in use.
- `ViewersSeeTheSame`: ViewersAgree. A viewer who waits for its snapshot will be
  shown the screen as the parser will have it by then, and then the messages held
  back since. `VInv` says that the two together are what the screen will show:
  what was printed before the snapshot was asked for is in the queue before it, and
  what came later is held back and behind it.

`Workspaces` (any calls, containers, rebuilds and faults):

- `StartsDoNotTakeAway`: CurrentIsKept. What start() is about to drop it looked at
  earlier, and the container may be another by then. The invariant (`WInv`) says
  that the container a call remembers, if it still is the one there, is of an older image (`OldIsDropped`):
  ids are never used again and images only get newer.
- `NothingIsLeft`: NoOrphan. A removal takes container and volume away in two steps,
  with other calls in between. `OInv` says where a call of each kind may be, and
  that from the first of the two steps on whoever could still make a container
  was crossed by the removal (`MakersAreCrossed`).

`Reaper` (any tasks, passes, runs and faults):

- `NoWorkIsLost`: WorkKept, and `TreesAreKept`: RunsKeepTheirTrees. What a pass
  has read is old when it acts. The invariant (`RInv`) says what stays true of it: a task
  it did not find is gone, one it found `done` is done or gone (`KnowsEnough`);
  what it plans to remove is one of the two, and by force only the first
  (`PlansWell`); a branch that was found merged has nothing of its own, and one
  that was archived is in its archive, until the branch is deleted (`Reachable`,
  `ArchivedOK`). All of it is about the tasks the pass could know, which is why
  `late` is there.

`AgentRun` (any output, tries and faults):

- `OutputIsComplete`: OutputComplete. A piece that has been written is parsed, kept until
  somebody listens, or in the response, and the three are in that order what the
  process wrote (`Exact`), as long as nothing has been lost (`Whole`): the route still
  streams into an open response, or an exit that the process really made is at the
  response's end or has been taken from it. A run that is lost stops being `Whole` and never is again, and
  it then settles without an exit. What was kept is replayed by a fold, followed
  with `Folding`.
- `AgentStreamHolds`: every behaviour is one of AgentStream. The start of the process,
  also one that a crashing orchestrator had asked for, is its Launch; settling, from
  whichever of its four callers, its End, which needs a `finished` event among those
  of a run that has ended; the events stay as they are afterwards. The greatest
  position of such an event is there because there is a least distance from the end.
- `RunTyped`: TypeOK.

`WorkspacePage` (any members, tasks, presses, moves and failures):

- `PressesTrue`: PressesAreTrue. A request that has loaded a status may move the task
  from it (`MoveOK`), and the update moves it from that status or not at all.
- `RefusalsStale`: RefusedIsStale. Every button that waits or is being answered was
  offered on a status and to a role on which the server would allow it (`ButtonOK`):
  what the panels offer is compared with what the actions check, for all of them.
  Pages that show a workspace are members' pages (`MembersPage`).
- `PageTyped`: PageTypeOK.

`TerminalPane` (any sockets, output, presses, broken connections and restarts):

- `PanesShow`: PaneShows. The invariant (`PaneInv`) says it of every socket that is
  in use, whatever the parser has still to do: what xterm will show when it has
  parsed everything (`Ahead`), followed by what the messages on their way write
  (`SeenIn`), is what the terminal has, and the last state they tell is its state.
  Parsing an item does not change `Ahead`, and a message that is drawn changes it as
  it was going to (`AheadDrawn`, which for a hello needs the reset that is queued
  before the screen). Besides, a socket in use is the pane's current one, and
  nothing is on its way to a client that is not attached yet (`Follows`).
- `PaneTyped`: PaneTypeOK.

`Connection` (any processes, sockets and bounds):

- `NoneIsOwnerless`: NoOwnerless. The invariant (`CInv`) adds that a bridge without
  an upstream has made no member of the hub and that a socket not opened has no
  bridge (`NotYetThere`), and that a process has an owner (`Owned`). Almost every
  step keeps each connection a member that was one (`Tame`), and of each process
  its owner and what it was told (`Calm`). The others end memberships, and they
  tell the processes of those members.
- `FramesKeepTheirOrder`: FramesInOrder. What the hub has handled, what the bridge
  has passed on, what it holds back and what it has not read yet are, one after the
  other, what the client sent (`OInv`), up to the first close: a bridge that opens
  passes on what it held back before it reads on.

`Sessions` (any clients, sessions, bytes and frames):

- `ScreensGoOn`: ScreensContinue, and `PagesAreTrue`: PagesAgree. Both speak of a page
  that has read its messages. `SInv` says of every connected client that the page
  it would have then shows the sessions and the clients there are, and of a session
  it is attached to an unbroken screen that ends where the output does, at the
  session's size. That takes that who is attached is a member, that a session that
  has ended has nobody attached, and that what is kept of a session's output ends
  where the output does, whatever was trimmed. Reading a message does not change
  the page ahead; a step changes it by the messages it sends, and by no others.

`Folding`. `ViewersAgree`, `ScreensContinue`, `PagesAgree` and `PaneShows` are said with folds over
queues, `AgentRun` replays one, and the folds of the community modules are recursive functions over
sets. Its lemmas say of any operator that a fold goes through one value per
element, what it is of a longer queue, and what it is once the first has been
read. The induction is over sets of numbers that have a least element, because
theorems that take a predicate cannot be instantiated; the proofs' modules
instantiate `Folding` with what reads their queue.

Model-checked only: liveness and fairness (beyond TLAPS; with them `KilledIsGone`,
`StopTakesEffect`, `DebrisReaped` and the like); what `Scopes` computes; and
`Integration` when integrations outlast their lease, where the properties do not
hold. Every other property of the runs is a theorem.

## 5. Not modelled

See the components with status `not_modelled` in `PROJECT.json`: text, encryption
and layout of the agents' library, the developer console, infrastructure.
Within the modelled parts:

- Task runs: policy changes while tasks run; the preparation of a run, statement by
  statement; the events table; the drain at SIGTERM, which finishes runs or ends
  like a crash. Integration: the order of approvals and the limit of ten per tick;
  several workspaces (mutex and lease are per workspace).
- Agent runs: the parsers of Codex and Gemini, `prepare`, the buffer of
  collectAgentExec. A second call of cancel() while the first waits.
- Connections that are half open: the agent does not ping, so a client that
  vanishes without a close stays a member until TCP gives up (CURRENT_STATE.md,
  debt 25). A close always arrives in the models.
- The file service: write() compares an etag and then writes, so that two writers
  with one etag may both succeed. No page or agent writes through it.
- Workspaces: `lastKnownStatus` for display, the inspect that ends a call, ports and
  resources, slugs and uids. The sign-in limiter, credentials, other pages, layout.

Some things that reading the code for the models showed, without a sentence in
the repository that says otherwise, and so without a property:

- A page without an active task is never refreshed, so it may show an old status
  until somebody presses something. Approve names the task, not the run that was
  reviewed. Actions on tasks do not look at `deletedAt`.
- recordEvent failing after an update shows an error for something done.
- deleteTask checks the status and then deletes by id.
- A start that races the deletion of its workspace can leave a container, and a
  worker's connect may start a workspace its owner has stopped.
- When a deletion races a run, the branch the run makes again is archived over the
  first archive.
- When waitForHello rejects, the client is left open (workspace-connection.ts:57).
- A terminal that has exited is forgotten when nobody watches, so that a member
  who reconnects has the Claude they stopped started again. A start that is refused
  leaves the pane at "Starting…".

## 6. Plan

1. An abstract lock that mutex and lease implement, and an abstract channel that the
   bridge does.
2. The file service with two writers; the rate limiter against a reference.
