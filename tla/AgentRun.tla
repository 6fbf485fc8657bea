------------------------------ MODULE AgentRun ------------------------------
(***************************************************************************)
(* One run of an agent, from the process in the container to the events    *)
(* the worker stores: the exec and its wrapper (docker/agent-exec.ts), the *)
(* orchestrator's agent-exec route, the response that carries its frames   *)
(* (workspace-client/orchestrator.ts), the isolated session that pumps     *)
(* them and the terminal run that makes events of them (packages/agents).  *)
(*                                                                         *)
(* A process is known in three places, and each has its own idea of when   *)
(* it is over: its deadline in the worker, a later one in the              *)
(* orchestrator, the response between them, and a kill that is a script in *)
(* the container looking for a pid file the wrapper wrote.  The worker,    *)
(* the orchestrator, the connection and Docker can each fail.              *)
(***************************************************************************)
EXTENDS Integers, Sequences, SequencesExt, FiniteSets

CONSTANTS
  MaxPieces, \* bound: pieces of output
  MaxTries,  \* bound: attempts at stopping a process whose stream was lost (15 in the code)
  MaxFaults  \* bound: kinds of failure in one behaviour

ASSUME AgentRunAssumption ==
  MaxPieces \in Nat /\ MaxTries \in Nat \ {0} /\ MaxFaults \in Nat

VARIABLES
  proc,    \* the agent's process: not there, before or after its pid file, signalled, gone
  written, \* what it has written to its output
  orch,    \* the orchestrator and its route for this run
  wire,    \* the response: frames on their way, and whether more may come
  calls,   \* the worker's calls of the kill route, by who makes them
  session, \* the isolated session's state of the exec
  run,     \* the terminal run and the worker's loop over its events
  faults   \* history: what has failed

vars == <<proc, written, orch, wire, calls, session, run, faults>>
container == <<proc, written>>

Callers == {"deadline", "cancel", "retry"}
Codes == {"ok", "bad", "null"}
Alive == {"young", "running", "doomed"}
FaultKinds == {"worker", "orchestrator", "connection", "docker"}

(* A piece of output: a line, the line with the agent's result, or a result
   that its newline has not followed. *)
Pieces == {"line", "result", "unfinished"}
Started == [type |-> "started"]
Out(p) == [type |-> "out", data |-> p]
ExitFrame(c) == [type |-> "exit", code |-> c]

Told == [type |-> "line"]
Finished(o, s, c) == [type |-> "finished", outcome |-> o, summary |-> s, code |-> c]
Result == Finished("completed", TRUE, "null")
Exited == [type |-> "log"]
Event == {Told, Exited} \cup [type : {"finished"}, outcome : {"completed", "failed", "cancelled", "timeout"},
                              summary : BOOLEAN, code : Codes]

TypeOK ==
  /\ proc \in {"none", "gone"} \cup Alive
  /\ written \in Seq(Pieces) /\ Len(written) <= MaxPieces
  /\ orch \in [up : BOOLEAN, route : {"none", "starting", "streaming", "over"},
               timer : BOOLEAN, closed : BOOLEAN, code : Codes]
  /\ wire.frames \in Seq({Started} \cup {Out(p) : p \in Pieces} \cup {ExitFrame(c) : c \in Codes})
  /\ wire.open \in BOOLEAN
  /\ calls \in [Callers -> {"idle", "sent", "ok", "failed", "over"}]
  /\ session.pending \in Seq(Pieces) /\ session.listening \in BOOLEAN
  /\ session.ended \in BOOLEAN /\ session.exit \in Codes /\ session.pumping \in BOOLEAN
  /\ session.tries \in 0..MaxTries
  /\ run.at \in {"creating", "created", "live", "ended", "failed", "dead"}
  /\ {run.cancelled, run.timedOut, run.timer, run.grace, run.saw, run.tail} \subseteq BOOLEAN
  /\ run.events \in Seq(Event) /\ run.unread \in BOOLEAN
  /\ run.reader \in {"reading", "waiting", "done", "failed", "dead"}
  /\ faults \subseteq FaultKinds

Init ==
  /\ proc = "none" /\ written = <<>>
  /\ orch = [up |-> TRUE, route |-> "none", timer |-> FALSE, closed |-> FALSE, code |-> "null"]
  /\ wire = [frames |-> <<>>, open |-> TRUE]
  /\ calls = [c \in Callers |-> "idle"]
  /\ session = [pending |-> <<>>, listening |-> FALSE, ended |-> FALSE, exit |-> "null",
                pumping |-> TRUE, tries |-> 0]
  /\ run = [at |-> "creating", cancelled |-> FALSE, timedOut |-> FALSE, timer |-> FALSE,
            grace |-> FALSE, tail |-> FALSE, saw |-> FALSE, events |-> <<>>, unread |-> FALSE,
            reader |-> "reading"]
  /\ faults = {}

Fault(kind) ==
  /\ Cardinality(faults \cup {kind}) <= MaxFaults
  /\ faults' = faults \cup {kind}

-----------------------------------------------------------------------------
(* The container.                                                            *)

(* The wrapper records its pid before it becomes the agent. *)
PidWritten ==
  /\ proc = "young" /\ proc' = "running"
  /\ UNCHANGED <<written, orch, wire, calls, session, run, faults>>

Sent(w, frame) == IF w.open THEN [w EXCEPT !.frames = Append(@, frame)] ELSE w

Write(p) ==
  /\ proc \in {"running", "doomed"}
  /\ Len(written) < MaxPieces /\ (written # <<>> => Last(written) # "unfinished")
  /\ written' = Append(written, p)
  /\ wire' = IF orch.route = "streaming" THEN Sent(wire, Out(p)) ELSE wire
  /\ UNCHANGED <<proc, orch, calls, session, run, faults>>

Exit(code) ==
  /\ proc \in Alive /\ proc' = "gone"
  /\ orch' = [orch EXCEPT !.code = code]
  /\ UNCHANGED <<written, wire, calls, session, run, faults>>

(* KILL_SCRIPT: without a pid file there is nothing to signal.  Five seconds
   after the TERM comes a KILL, so what is signalled ends. *)
Signal == proc' = IF proc = "running" THEN "doomed" ELSE proc

-----------------------------------------------------------------------------
(* The orchestrator.                                                         *)

RequestArrives ==
  /\ run.at = "creating" /\ wire.open /\ orch.route = "none"
  /\ \/ orch.up /\ orch' = [orch EXCEPT !.route = "starting"] /\ UNCHANGED wire
     \/ ~orch.up /\ wire' = [wire EXCEPT !.open = FALSE] /\ UNCHANGED orch
  /\ UNCHANGED <<container, calls, session, run, faults>>

(* start() has the exec; the route writes the first frame and, only now,
   listens for the caller to go away: one that has gone is not noticed. *)
ExecStarts ==
  /\ orch.up /\ orch.route = "starting"
  /\ proc' = "young"
  /\ orch' = [orch EXCEPT !.route = "streaming", !.timer = TRUE]
  /\ wire' = Sent(wire, Started)
  /\ UNCHANGED <<written, calls, session, run, faults>>

ExecRefused ==
  /\ orch.up /\ orch.route = "starting"
  /\ orch' = [orch EXCEPT !.route = "over"]
  /\ wire' = [wire EXCEPT !.open = FALSE]
  /\ UNCHANGED <<container, calls, session, run, faults>>

(* A kill the orchestrator asks Docker for itself; it ignores a failure. *)
Kill ==
  \/ Signal /\ UNCHANGED faults
  \/ Fault("docker") /\ UNCHANGED proc

(* Mutant: the timer records that the process timed out and kills nothing. *)
BackstopOnlyTells ==
  /\ orch.up /\ orch.timer /\ proc # "young"
  /\ orch' = [orch EXCEPT !.timer = FALSE]
  /\ UNCHANGED <<container, wire, calls, session, run, faults>>

(* The orchestrator's own deadline, minutes after the wrapper has run. *)
Backstop ==
  /\ orch.up /\ orch.timer /\ proc # "young"
  /\ orch' = [orch EXCEPT !.timer = FALSE]
  /\ Kill
  /\ UNCHANGED <<written, wire, calls, session, run>>

(* The end of a route whose exec is done: the last frame, and end of stream. *)
RouteEnds(code) ==
  /\ orch' = [orch EXCEPT !.route = "over", !.timer = FALSE, !.closed = FALSE]
  /\ wire' = [Sent(wire, ExitFrame(code)) EXCEPT !.open = FALSE]

ExecDone ==
  /\ orch.up /\ orch.route = "streaming" /\ proc = "gone"
  /\ RouteEnds(orch.code)
  /\ UNCHANGED <<container, calls, session, run, faults>>

(* Docker's stream breaks while the process runs: the timer is cleared, the
   inspects say nothing of an exit, and a last frame without a code goes out. *)
StreamBreaks ==
  /\ orch.up /\ orch.route = "streaming" /\ proc \in Alive
  /\ Fault("docker")
  /\ RouteEnds("null")
  /\ UNCHANGED <<container, calls, session, run>>

(* The route notices that the caller has gone. *)
ReplyCloses ==
  /\ orch.up /\ orch.closed
  /\ orch' = [orch EXCEPT !.closed = FALSE]
  /\ Kill
  /\ UNCHANGED <<written, wire, calls, session, run>>

(* Nobody waits for the kill of the deadline, or for one of a worker that is dead. *)
Answer(c, how) == IF c = "deadline" \/ run.reader = "dead" THEN "over" ELSE how

(* The kill route: what it answers may be lost. *)
CallArrives(c) ==
  /\ orch.up /\ calls[c] = "sent"
  /\ Signal
  /\ \/ calls' = [calls EXCEPT ![c] = Answer(c, "ok")] /\ UNCHANGED faults
     \/ calls' = [calls EXCEPT ![c] = Answer(c, "failed")] /\ Fault("connection")
  /\ UNCHANGED <<written, orch, wire, session, run>>

CallFails(c) ==
  /\ calls[c] = "sent"
  /\ calls' = [calls EXCEPT ![c] = Answer(c, "failed")]
  /\ \/ ~orch.up /\ UNCHANGED faults
     \/ orch.up /\ Fault("docker")
  /\ UNCHANGED <<container, orch, wire, session, run>>

(* The response ends early; what is on its way may still be read. *)
Broken(w) == {[w EXCEPT !.open = FALSE], [frames |-> <<>>, open |-> FALSE]}

ConnectionBreaks ==
  /\ wire.open /\ orch.route # "none" /\ Fault("connection")
  /\ wire' \in Broken(wire)
  /\ orch' = [orch EXCEPT !.closed = (orch.route = "streaming")]
  /\ UNCHANGED <<container, calls, session, run>>

(* With the orchestrator go its timers and its responses, not the processes
   it has started and the scripts that run. *)
OrchestratorCrashes ==
  /\ orch.up /\ Fault("orchestrator")
  /\ orch' = [orch EXCEPT !.up = FALSE, !.timer = FALSE, !.closed = FALSE,
                          !.route = IF @ = "none" THEN @ ELSE "over"]
  /\ wire' \in Broken(wire)
  /\ \/ UNCHANGED proc
     \/ orch.route = "starting" /\ proc' = "young"
  /\ UNCHANGED <<written, calls, session, run>>

OrchestratorRestarts ==
  /\ ~orch.up /\ orch' = [orch EXCEPT !.up = TRUE]
  /\ UNCHANGED <<container, wire, calls, session, run, faults>>

-----------------------------------------------------------------------------
(* The terminal run: what becomes of output, and the end.                    *)

Push(r, e) == [r EXCEPT !.events = Append(@, e), !.unread = TRUE, !.reader = IF @ = "waiting" THEN "reading" ELSE @]

(* The run's listener is there, and is taken off when the run has settled. *)
Heard(s, r) == s.listening /\ r.at = "live"

(* parseLine on what has its newline; the rest stays in the buffer. *)
Parsed(r, p) ==
  CASE p = "line"       -> Push(r, Told)
    [] p = "result"     -> [Push(r, Result) EXCEPT !.saw = TRUE]
    [] p = "unfinished" -> [r EXCEPT !.tail = TRUE]

(* onExit() of the Claude runtime, evaluated before settle() parses the rest. *)
OnExit(r, code) ==
  IF r.saw /\ code = "ok" THEN Exited
  ELSE Finished(CASE r.cancelled -> "cancelled"
                  [] ~r.cancelled /\ r.timedOut -> "timeout"
                  [] ~r.cancelled /\ ~r.timedOut /\ code = "ok" -> "completed"
                  [] OTHER -> "failed", r.saw, code)

(* Mutant: settling is not guarded against a second call. *)
SettledAgain(r, code) ==
  IF r.at \notin {"live", "ended"} THEN r
  ELSE LET rest == IF r.tail THEN Parsed(r, "result") ELSE r
       IN [Push(rest, OnExit(r, code)) EXCEPT !.at = "ended", !.timer = FALSE, !.grace = FALSE]

(* settle(): the timers are off, what is left in the buffer is parsed, and
   the final event ends the stream.  Only the first call does anything. *)
Settled(r, code) ==
  IF r.at # "live" THEN r
  ELSE LET rest == IF r.tail THEN Parsed(r, "result") ELSE r
       IN [Push(rest, OnExit(r, code)) EXCEPT !.at = "ended", !.timer = FALSE, !.grace = FALSE]

(* settleAfterKill(). *)
Graced(r) == [r EXCEPT !.grace = @ \/ r.at = "live"]

-----------------------------------------------------------------------------
(* The isolated session.                                                     *)

(* The response's next frame is read. *)
Taken(w) == [w EXCEPT !.frames = Tail(@)]

(* createTerminal() has read the first frame, or throws. *)
Create ==
  /\ run.at = "creating"
  /\ \/ /\ wire.frames # <<>>
        /\ wire' = Taken(wire)
        /\ run' = [run EXCEPT !.at = "created"]
     \/ /\ wire.frames = <<>> /\ ~wire.open
        /\ run' = [run EXCEPT !.at = "failed"]
        /\ UNCHANGED wire
  /\ UNCHANGED <<container, orch, calls, session, faults>>

(* Mutant: output that nobody listens to yet is not kept. *)
EmitOrDrop(s, p) == s

(* emitOutput() without a listener. *)
Kept(s, p) == IF s.listening THEN s ELSE [s EXCEPT !.pending = Append(@, p)]

(* startTerminalRun() goes on: what was kept is replayed, the deadline is
   armed, and an exit that has come already settles at once. *)
Attach ==
  /\ run.at = "created"
  /\ LET live == FoldLeft(Parsed, [run EXCEPT !.at = "live", !.timer = TRUE], session.pending)
     IN run' = IF session.ended THEN Settled(live, session.exit) ELSE live
  /\ session' = [session EXCEPT !.pending = <<>>, !.listening = TRUE]
  /\ UNCHANGED <<container, orch, wire, calls, faults>>

(* settle() of the session: the exit listener is called, once. *)
SessionSettled(s, code) == IF s.ended THEN s ELSE [s EXCEPT !.ended = TRUE, !.exit = code]
RunTold(s, r, code) == IF s.ended \/ ~s.listening THEN r ELSE Settled(r, code)

(* The pump takes a frame. *)
Pump ==
  /\ run.at \in {"created", "live", "ended"} /\ session.pumping /\ wire.frames # <<>>
  /\ LET frame == Head(wire.frames)
     IN IF frame.type = "out"
        THEN /\ run' = IF Heard(session, run) THEN Parsed(run, frame.data) ELSE run
             /\ session' = Kept(session, frame.data)
        ELSE /\ run' = RunTold(session, run, frame.code)
             /\ session' = SessionSettled(session, frame.code)
  /\ wire' = Taken(wire)
  /\ UNCHANGED <<container, orch, calls, faults>>

(* The stream is over.  Without an exit it was lost, and stopLostProcess()
   begins; either way the run is told. *)
PumpEnds ==
  /\ run.at \in {"created", "live", "ended"}
  /\ session.pumping /\ wire.frames = <<>> /\ ~wire.open
  /\ session' = [SessionSettled(session, session.exit) EXCEPT
                   !.pumping = FALSE, !.tries = IF session.ended THEN 0 ELSE MaxTries]
  /\ run' = RunTold(session, run, session.exit)
  /\ UNCHANGED <<container, orch, wire, calls, faults>>

(* stopLostProcess(): the first kill that resolves is the last. *)
Retry ==
  /\ session.tries > 0 /\ calls["retry"] = "idle"
  /\ calls' = [calls EXCEPT !["retry"] = "sent"]
  /\ UNCHANGED <<container, orch, wire, session, run, faults>>

RetryAnswered ==
  /\ session.tries > 0 /\ calls["retry"] \in {"ok", "failed"}
  /\ calls' = [calls EXCEPT !["retry"] = "idle"]
  /\ session' = [session EXCEPT !.tries = IF calls["retry"] = "ok" THEN 0 ELSE @ - 1]
  /\ UNCHANGED <<container, orch, wire, run, faults>>

-----------------------------------------------------------------------------
(* Deadline, cancellation, and the worker's loop over the events.            *)

(* The run's deadline does not wait for the kill it asks for. *)
Deadline ==
  /\ run.timer
  /\ run' = Graced([run EXCEPT !.timedOut = TRUE, !.timer = FALSE])
  /\ calls' = [calls EXCEPT !["deadline"] = "sent"]
  /\ UNCHANGED <<container, orch, wire, session, faults>>

(* cancel(), called by the heartbeat, which may find the stream ended by then,
   or because an event could not be stored.  (A second call while the first
   waits repeats it, and is not modelled.) *)
Cancel ==
  /\ run.at \in {"live", "ended"} /\ run.reader # "dead" /\ calls["cancel"] = "idle"
  /\ \E reader \in {run.reader} \cup (IF run.unread THEN {"failed"} ELSE {}) :
       run' = [run EXCEPT !.cancelled = TRUE, !.timer = FALSE, !.reader = reader]
  /\ calls' = [calls EXCEPT !["cancel"] = "sent"]
  /\ UNCHANGED <<container, orch, wire, session, faults>>

(* Mutant: a kill that fails makes cancel() throw. *)
CancelThrows ==
  /\ calls["cancel"] \in {"ok", "failed"}
  /\ calls' = [calls EXCEPT !["cancel"] = "over"]
  /\ run' = IF calls["cancel"] = "ok" THEN Graced(run) ELSE run
  /\ UNCHANGED <<container, orch, wire, session, faults>>

(* cancel() goes on when its kill has been answered, or has failed. *)
CancelAnswered ==
  /\ calls["cancel"] \in {"ok", "failed"}
  /\ calls' = [calls EXCEPT !["cancel"] = "over"]
  /\ run' = Graced(run)
  /\ UNCHANGED <<container, orch, wire, session, faults>>

(* No exit came after a kill: the run ends without it. *)
Grace ==
  /\ run.grace
  /\ run' = Settled(run, "null")
  /\ UNCHANGED <<container, orch, wire, calls, session, faults>>

(* next(): what is in the queue, the end, or a wait for push() to wake it. *)
ReadEvents ==
  /\ run.at \in {"live", "ended"} /\ run.reader = "reading"
  /\ run' = CASE run.unread -> [run EXCEPT !.unread = FALSE]
              [] ~run.unread /\ run.at = "ended" -> [run EXCEPT !.reader = "done"]
              [] OTHER -> [run EXCEPT !.reader = "waiting"]
  /\ UNCHANGED <<container, orch, wire, calls, session, faults>>

(* The worker dies with its timers, its retries and its end of the response. *)
WorkerCrashes ==
  /\ "worker" \notin faults /\ Fault("worker")
  /\ run' = [run EXCEPT !.at = IF @ = "ended" THEN @ ELSE "dead", !.timer = FALSE, !.grace = FALSE,
                        !.reader = "dead", !.unread = FALSE]
  /\ session' = [session EXCEPT !.tries = 0, !.pumping = FALSE, !.pending = <<>>]
  /\ calls' = [c \in Callers |-> IF calls[c] \in {"ok", "failed"} THEN "over" ELSE calls[c]]
  /\ wire' = [frames |-> <<>>, open |-> FALSE]
  /\ orch' = [orch EXCEPT !.closed = @ \/ (wire.open /\ orch.route = "streaming")]
  /\ UNCHANGED container

-----------------------------------------------------------------------------
Container == PidWritten \/ (\E p \in Pieces : Write(p)) \/ (\E c \in {"ok", "bad"} : Exit(c))

Orchestrator ==
  \/ RequestArrives \/ ExecStarts \/ ExecRefused \/ ExecDone \/ Backstop \/ ReplyCloses
  \/ \E c \in Callers : CallArrives(c) \/ CallFails(c)
  \/ OrchestratorRestarts

Worker ==
  \/ Create \/ Attach \/ Pump \/ PumpEnds \/ Retry \/ RetryAnswered
  \/ Deadline \/ Grace \/ ReadEvents
  \/ Cancel \/ CancelAnswered

Fails == StreamBreaks \/ ConnectionBreaks \/ OrchestratorCrashes \/ WorkerCrashes

Next == Container \/ Orchestrator \/ Worker \/ Fails

Spec == Init /\ [][Next]_vars

(* Timers fire, calls are answered or time out, frames are read, an
   orchestrator is started again, a script runs, and what it signals ends.
   An agent need not end by itself, nobody has to cancel it, and nothing has
   to fail. *)
FairSpec ==
  /\ Spec
  /\ WF_vars(PidWritten) /\ WF_vars(proc = "doomed" /\ \E c \in {"ok", "bad"} : Exit(c))
  /\ WF_vars(RequestArrives) /\ WF_vars(ExecStarts \/ ExecRefused) /\ WF_vars(ExecDone)
  /\ WF_vars(Backstop) /\ WF_vars(ReplyCloses) /\ WF_vars(OrchestratorRestarts)
  /\ \A c \in Callers : WF_vars(CallArrives(c) \/ CallFails(c))
  /\ WF_vars(Create) /\ WF_vars(Attach) /\ WF_vars(Pump) /\ WF_vars(PumpEnds)
  /\ WF_vars(Retry) /\ WF_vars(RetryAnswered) /\ WF_vars(Deadline) /\ WF_vars(Grace)
  /\ WF_vars(ReadEvents) /\ WF_vars(CancelAnswered)

-----------------------------------------------------------------------------
(* Properties.                                                               *)

(* What the worker stores as the run's outcome: the last `finished` event. *)
Final == run.events[Max({i \in DOMAIN run.events : run.events[i].type = "finished"})]
Outcome == IF run.at = "ended" THEN Final.outcome ELSE "none"

Abstract == INSTANCE AgentStream WITH
  outcome <- Outcome,
  stream <- CASE run.at \in {"creating", "created"} -> "unopened"
              [] run.at = "live" -> "open"
              [] OTHER -> "over",
  agent <- IF proc \in Alive THEN (IF run.at = "live" THEN "watched" ELSE "stray") ELSE proc

(* What TaskRuns assumes of a run: one process, a stream that ends once, and
   an outcome that stays when a late exit, a timer or a cancellation follows. *)
ImplementsAgentStream == Abstract!Spec

(* A run that is told of the process's exit has had all of its output: what
   came before the listeners were there was kept, and the last line is parsed
   although no newline follows it. *)
OutputComplete ==
  (run.at = "ended" /\ (Last(run.events) = Exited \/ Last(run.events).code # "null")) =>
    Cardinality({i \in DOMAIN run.events : run.events[i] \in {Told, Result}}) = Len(written)

(* The consumer of the events never waits for ever: it is woken, and a kill
   that is not acknowledged does not keep the stream open. *)
StreamIsDone == run.at = "live" ~> run.reader \in {"done", "failed", "dead"}

(* As long as neither the orchestrator nor Docker fails, an agent that has
   been started does not run for ever, even if its worker dies, the
   connection breaks, or the kill came before there was a pid file. *)
AgentStops == proc \in Alive ~> (proc = "gone" \/ faults \cap {"orchestrator", "docker"} # {})

(* "a runtime that overrides the outcome on a non-zero exit can keep the CLI's
   own explanation": once the agent has reported its result, the event the
   worker stores last has its summary. *)
SummaryKept ==
  (run.at = "ended" /\ Contains(run.events, Result)) =>
    Final.summary
=============================================================================
