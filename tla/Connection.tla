----------------------------- MODULE Connection -----------------------------
(***************************************************************************)
(* A participant's connection to a workspace: the client with its socket,  *)
(* its requests and its runExec() (workspace-client/client.ts), the bridge *)
(* in the orchestrator that pipes the socket to the workspace's agent      *)
(* (routes/bridge.ts), the agent's hub and its processes                   *)
(* (workspace-agent/hub.ts, process-manager.ts), and the worker's connector*)
(* that waits for the first hello (workspace-connection.ts).               *)
(*                                                                         *)
(* Every socket the client opens is a connection of its own, with its own  *)
(* bridge and its own member of the hub.  A close travels behind the frames*)
(* it follows; a connection that breaks may lose them first.               *)
(***************************************************************************)
EXTENDS Integers, Sequences, SequencesExt, FiniteSets

CONSTANTS
  Execs,      \* requests that run a process (runExec)
  Pings,      \* other requests, answered at once
  MaxSockets, \* bound: sockets the client opens
  MaxPieces,  \* bound: pieces of output of a process
  MaxPending, \* frames the bridge holds back before its upstream is ready (8 MiB in the code)
  MaxBreaks   \* bound: connections that break, and agents that stop

ASSUME ConnectionAssumption ==
  /\ Execs \cap Pings = {}
  /\ MaxSockets \in Nat \ {0} /\ MaxPieces \in Nat /\ MaxPending \in Nat /\ MaxBreaks \in Nat

VARIABLES
  client, \* the client: state, current socket, sockets opened, what is under way
  holder, \* who asked for it: waits for hello (a worker), uses it, gave up, released it
  conn,   \* each connection: its ends, and the frames between them
  req,    \* each request
  exec,   \* runExec(): what has arrived of the process
  proc,   \* the process of each exec, in the agent
  breaks  \* connections broken, and agents stopped, so far

vars == <<client, holder, conn, req, exec, proc, breaks>>

Requests == Execs \cup Pings
Sockets == 1..MaxSockets
NoSocket == 0

Identify == [type |-> "identify"]
Ask(r) == [type |-> "ask", r |-> r]
Gone == [type |-> "close"]
Hello == [type |-> "hello"]
Reply(r) == [type |-> "reply", r |-> r]
Refusal(r) == [type |-> "error", r |-> r]
Output(r, n) == [type |-> "output", r |-> r, n |-> n]
Exited(r) == [type |-> "exit", r |-> r]

Fresh == [client |-> "none", bridge |-> "none", gone |-> FALSE, hub |-> "none",
          inbox |-> <<>>, pending |-> <<>>, feed |-> <<>>, out |-> <<>>,
          sent |-> <<>>, handled |-> <<>>, dropped |-> FALSE]

TypeOK ==
  /\ client.state \in {"connecting", "open", "reconnecting", "closed"}
  /\ client.sock \in 0..client.opened /\ client.opened \in 0..MaxSockets
  /\ client.step \in {"resolving", "waiting", "none"} /\ client.hello \in BOOLEAN
  /\ client.hello => client.sock # NoSocket
  /\ holder \in {"waiting", "has", "gaveUp", "released"}
  /\ \A c \in Sockets :
       /\ conn[c].client \in {"none", "connecting", "open", "closed"}
       /\ conn[c].bridge \in {"none", "verifying", "dialing", "open", "over"}
       /\ conn[c].hub \in {"none", "new", "member", "removed"}
       /\ conn[c].gone \in BOOLEAN /\ conn[c].dropped \in BOOLEAN
       /\ Len(conn[c].pending) <= MaxPending
       /\ (conn[c].client = "open" => c = client.sock \/ client.state = "closed")
  /\ req \in [Requests -> {"idle", "pending", "resolved", "rejected"}]
  /\ \A e \in Execs :
       /\ exec[e].at \in {"idle", "starting", "running", "done", "failed"}
       /\ exec[e].got \in Seq(1..MaxPieces + 1)
       /\ proc[e].at \in {"none", "starting", "running", "ended", "finished"}
       /\ proc[e].owner \in 0..MaxSockets /\ proc[e].told \in BOOLEAN /\ proc[e].signalled \in BOOLEAN
       /\ proc[e].written \in 0..MaxPieces /\ proc[e].read \in 0..proc[e].written
  /\ breaks \in 0..MaxBreaks

Init ==
  /\ client = [state |-> "connecting", sock |-> NoSocket, opened |-> 0, step |-> "resolving", hello |-> FALSE]
  /\ holder \in {"waiting", "has"}
  /\ conn = [c \in Sockets |-> Fresh]
  /\ req = [r \in Requests |-> "idle"]
  /\ exec = [e \in Execs |-> [at |-> "idle", got |-> <<>>, early |-> <<>>]]
  /\ proc = [e \in Execs |-> [at |-> "none", owner |-> NoSocket, told |-> FALSE, signalled |-> FALSE,
                              written |-> 0, read |-> 0]]
  /\ breaks = 0

-----------------------------------------------------------------------------
(* The client: connecting.                                                   *)

(* The URL is there: openSocket(), unless close() came meanwhile. *)
UrlResolved ==
  /\ client.step = "resolving" /\ client.opened < MaxSockets
  /\ IF client.state = "closed"
     THEN client' = [client EXCEPT !.step = "none"] /\ UNCHANGED conn
     ELSE LET c == client.opened + 1
          IN /\ client' = [client EXCEPT !.step = "none", !.sock = c, !.opened = c]
             /\ conn' = [conn EXCEPT ![c].client = "connecting", ![c].bridge = "verifying"]
  /\ UNCHANGED <<holder, req, exec, proc, breaks>>

UrlFails ==
  /\ client.step = "resolving" /\ client.state # "closed" /\ breaks < MaxBreaks
  /\ client' = [client EXCEPT !.step = "waiting", !.state = "reconnecting"]
  /\ breaks' = breaks + 1
  /\ UNCHANGED <<holder, conn, req, exec, proc>>

(* The backoff is over. *)
ReconnectTimer ==
  /\ client.step = "waiting"
  /\ client' = [client EXCEPT !.step = "resolving"]
  /\ UNCHANGED <<holder, conn, req, exec, proc, breaks>>

SocketOpens(c) ==
  /\ conn[c].client = "connecting"
  /\ conn' = [conn EXCEPT ![c].client = "open"]
  /\ client' = [client EXCEPT !.state = "open"]
  /\ UNCHANGED <<holder, req, exec, proc, breaks>>

(* rejectPending(), and the state listener of runExec(): before its process
   is known the request is rejected, afterwards the wait is. *)
RejectPending ==
  /\ req' = [r \in Requests |-> IF req[r] = "pending" THEN "rejected" ELSE req[r]]
  /\ exec' = [e \in Execs |-> IF exec[e].at \in {"starting", "running"}
                              THEN [exec[e] EXCEPT !.at = "failed"] ELSE exec[e]]

(* The client's half of the closing handshake, behind what it sent. *)
ClosedBy(k) == [k EXCEPT !.client = "closed", !.out = <<>>,
                         !.inbox = IF k.gone \/ Contains(@, Gone) THEN @ ELSE Append(@, Gone)]

(* The `close` event of the current socket. *)
SocketCloses(c) ==
  /\ conn[c].client \in {"connecting", "open"}
  /\ conn[c].out # <<>> /\ Head(conn[c].out) = Gone
  /\ conn' = [conn EXCEPT ![c] = ClosedBy(@)]
  /\ client' = [client EXCEPT !.sock = NoSocket, !.hello = FALSE, !.state = "reconnecting", !.step = "waiting"]
  /\ RejectPending
  /\ UNCHANGED <<holder, proc, breaks>>

(* close(): for good.  What arrives on the socket from now on is ignored, and a
   URL still to come is not used. *)
Close ==
  /\ holder = "has" /\ holder' = "released"
  /\ client' = [client EXCEPT !.state = "closed", !.sock = NoSocket, !.hello = FALSE,
                               !.step = IF @ = "waiting" THEN "none" ELSE @]
  /\ conn' = [c \in Sockets |-> IF c = client.sock THEN ClosedBy(conn[c]) ELSE conn[c]]
  /\ RejectPending
  /\ UNCHANGED <<proc, breaks>>

(* waitForHello(): what the connector waits for, or gives up waiting for. *)
GiveUp ==
  /\ holder = "waiting" /\ ~client.hello
  /\ holder' = "gaveUp"
  /\ UNCHANGED <<client, conn, req, exec, proc, breaks>>

-----------------------------------------------------------------------------
(* The client: requests.                                                     *)

(* request(): rejected at once unless the socket is open. *)
Request(r) ==
  /\ holder = "has" /\ req[r] = "idle"
  /\ IF client.state = "open"
     THEN /\ req' = [req EXCEPT ![r] = "pending"]
          /\ conn' = [conn EXCEPT ![client.sock].inbox = Append(@, Ask(r)),
                                  ![client.sock].sent = Append(@, r)]
     ELSE req' = [req EXCEPT ![r] = "rejected"] /\ UNCHANGED conn
  /\ exec' = [e \in Execs |-> IF e = r THEN [exec[e] EXCEPT !.at = IF client.state = "open" THEN "starting" ELSE "failed"]
                              ELSE exec[e]]
  /\ UNCHANGED <<client, holder, proc, breaks>>

(* A request that times out is not retracted: a process it starts runs on. *)
RequestTimesOut(r) ==
  /\ req[r] = "pending"
  /\ req' = [req EXCEPT ![r] = "rejected"]
  /\ exec' = [e \in Execs |-> IF e = r THEN [exec[e] EXCEPT !.at = "failed"] ELSE exec[e]]
  /\ UNCHANGED <<client, holder, conn, proc, breaks>>

(* runExec(): what arrives of the process, once it is known. *)
Heard(x, m) ==
  CASE x.at = "running" /\ m.type = "output" -> [x EXCEPT !.got = Append(@, m.n)]
    [] x.at = "running" /\ m.type = "exit"   -> [x EXCEPT !.at = "done"]
    [] OTHER -> x

(* Mutant: what arrives before the process is known is nobody's. *)
NotHeardEarly(x, m) == Heard(x, m)

(* Before the response that names the process, it is kept. *)
HeardOrKept(x, m) == IF x.at = "starting" THEN [x EXCEPT !.early = Append(@, m)] ELSE Heard(x, m)

Known(x) == [FoldLeft(Heard, [x EXCEPT !.at = "running"], x.early) EXCEPT !.early = <<>>]

(* dispatch(): a message of the current socket. *)
Receive(c) ==
  /\ conn[c].client = "open" /\ conn[c].out # <<>> /\ Head(conn[c].out) # Gone
  /\ LET m == Head(conn[c].out)
     IN /\ conn' = [conn EXCEPT ![c].out = Tail(@)]
        /\ client' = [client EXCEPT !.hello = @ \/ m = Hello]
        /\ holder' = IF m = Hello /\ holder = "waiting" THEN "has" ELSE holder
        /\ req' = [r \in Requests |->
                     CASE m = Reply(r) /\ req[r] = "pending"   -> "resolved"
                       [] m = Refusal(r) /\ req[r] = "pending" -> "rejected"
                       [] OTHER -> req[r]]
        /\ exec' = [e \in Execs |->
                      CASE m = Reply(e) /\ req[e] = "pending"   -> Known(exec[e])
                        [] m = Refusal(e) /\ req[e] = "pending" -> [exec[e] EXCEPT !.at = "failed", !.early = <<>>]
                        [] m.type \in {"output", "exit"} /\ m.r = e -> HeardOrKept(exec[e], m)
                        [] OTHER -> exec[e]]
  /\ UNCHANGED <<proc, breaks>>

-----------------------------------------------------------------------------
(* The bridge.                                                               *)

ToClient(k, m) == IF k.client = "closed" \/ (k.out # <<>> /\ Last(k.out) = Gone) THEN k
                  ELSE [k EXCEPT !.out = Append(@, m)]
ToAgent(k, m) == IF k.hub \in {"none", "removed"} \/ (k.feed # <<>> /\ Last(k.feed) = Gone) THEN k
                 ELSE [k EXCEPT !.feed = Append(@, m)]

(* A frame of the client's: forwarded, held back, or one too many. *)
Forward(k, m) ==
  CASE k.bridge = "open" -> ToAgent(k, m)
    [] k.bridge \in {"verifying", "dialing"} /\ Len(k.pending) < MaxPending -> [k EXCEPT !.pending = Append(@, m)]
    [] k.bridge \in {"verifying", "dialing"} /\ Len(k.pending) = MaxPending -> [ToClient(k, Gone) EXCEPT !.dropped = TRUE]
    [] OTHER -> k

(* Mutant: a client that leaves is noticed only when there is an upstream to close. *)
LeavesLater(k) ==
  CASE k.bridge = "open" -> [ToAgent(k, Gone) EXCEPT !.bridge = "over"]
    [] k.bridge = "dialing" -> [k EXCEPT !.bridge = "over"]
    [] OTHER -> k

(* The client's close: with an upstream, it is closed; without one, the bridge
   remembers. *)
Leaves(k) ==
  CASE k.bridge = "open" -> [ToAgent(k, Gone) EXCEPT !.gone = TRUE, !.bridge = "over"]
    [] k.bridge = "dialing" -> [k EXCEPT !.gone = TRUE, !.bridge = "over"]
    [] OTHER -> [k EXCEPT !.gone = TRUE]

FromClient(c) ==
  /\ conn[c].inbox # <<>>
  /\ LET m == Head(conn[c].inbox)
         k == [conn[c] EXCEPT !.inbox = Tail(@)]
     IN conn' = [conn EXCEPT ![c] = IF m = Gone THEN Leaves(k) ELSE Forward(k, m)]
  /\ UNCHANGED <<client, holder, req, exec, proc, breaks>>

(* The token is verified and the agent's endpoint resolved: the upstream is
   dialled, unless the client has left or is being sent away. *)
Resolves(c) ==
  /\ conn[c].bridge = "verifying"
  /\ conn' = [conn EXCEPT ![c].bridge =
                IF conn[c].gone \/ (conn[c].out # <<>> /\ Last(conn[c].out) = Gone) THEN "over" ELSE "dialing"]
  /\ UNCHANGED <<client, holder, req, exec, proc, breaks>>

(* The token is not valid, or the workspace is not running. *)
Rejects(c) ==
  /\ conn[c].bridge = "verifying" /\ breaks < MaxBreaks
  /\ conn' = [conn EXCEPT ![c] = [ToClient(@, Gone) EXCEPT !.bridge = "over"]]
  /\ breaks' = breaks + 1
  /\ UNCHANGED <<client, holder, req, exec, proc>>

(* The agent does not answer, or refuses the upgrade. *)
AgentRefuses(c) ==
  /\ conn[c].bridge = "dialing" /\ breaks < MaxBreaks
  /\ conn' = [conn EXCEPT ![c] = [ToClient(@, Gone) EXCEPT !.bridge = "over"]]
  /\ breaks' = breaks + 1
  /\ UNCHANGED <<client, holder, req, exec, proc>>

(* Mutant: what was held back is forgotten. *)
UpstreamOpensEmpty(c) ==
  /\ conn[c].bridge = "dialing"
  /\ conn' = [conn EXCEPT ![c].bridge = "open", ![c].hub = "new",
                          ![c].feed = <<Identify>>, ![c].pending = <<>>]
  /\ UNCHANGED <<client, holder, req, exec, proc, breaks>>

(* The upstream is open: first who it is, then what was held back. *)
UpstreamOpens(c) ==
  /\ conn[c].bridge = "dialing"
  /\ conn' = [conn EXCEPT ![c].bridge = "open", ![c].hub = "new",
                          ![c].feed = <<Identify>> \o conn[c].pending, ![c].pending = <<>>]
  /\ UNCHANGED <<client, holder, req, exec, proc, breaks>>

Truncated(frames) == {frames \o <<Gone>>, <<Gone>>}

(* The connection of client and bridge breaks; each notices in its time. *)
ClientBreaks(c) ==
  /\ breaks < MaxBreaks /\ conn[c].client = "open" /\ ~conn[c].gone
  /\ ~Contains(conn[c].out, Gone) /\ ~Contains(conn[c].inbox, Gone)
  /\ \E i \in Truncated(conn[c].inbox), o \in Truncated(conn[c].out) :
       conn' = [conn EXCEPT ![c].inbox = i, ![c].out = o]
  /\ breaks' = breaks + 1
  /\ UNCHANGED <<client, holder, req, exec, proc>>

-----------------------------------------------------------------------------
(* The agent.                                                                *)

(* removeClient(): its processes are told to stop.  (Attachments to terminal
   sessions end too; see Sessions.) *)
Removed(k) == [k EXCEPT !.hub = "removed", !.feed = <<>>]
TurnedAway(k) == [ToClient(Removed(k), Gone) EXCEPT !.bridge = "over"]
Orphaned(c) == [e \in Execs |-> IF proc[e].owner = c /\ proc[e].at = "running"
                                THEN [proc[e] EXCEPT !.signalled = TRUE] ELSE proc[e]]

(* A frame at the hub.  The first must be `identify`; an exec.start goes on
   behind an await; a ping is answered at once. *)
HubReceives(c) ==
  /\ conn[c].hub \in {"new", "member"} /\ conn[c].feed # <<>>
  /\ LET m == Head(conn[c].feed)
         k == [conn[c] EXCEPT !.feed = Tail(@)]
     IN \/ /\ m = Gone
           /\ conn' = [conn EXCEPT ![c] = Removed(k)] /\ proc' = Orphaned(c)
        \/ /\ m = Identify
           /\ conn' = [conn EXCEPT ![c] = [ToClient(k, Hello) EXCEPT !.hub = "member"]] /\ UNCHANGED proc
        \/ /\ m.type = "ask" /\ k.hub = "new"
           /\ conn' = [conn EXCEPT ![c] = TurnedAway(k)] /\ UNCHANGED proc
        \/ /\ m.type = "ask" /\ k.hub = "member" /\ m.r \in Pings
           /\ conn' = [conn EXCEPT ![c] = [ToClient(k, Reply(m.r)) EXCEPT !.handled = Append(@, m.r)]]
           /\ UNCHANGED proc
        \/ /\ m.type = "ask" /\ k.hub = "member" /\ m.r \in Execs
           /\ conn' = [conn EXCEPT ![c] = [k EXCEPT !.handled = Append(@, m.r)]]
           /\ proc' = [proc EXCEPT ![m.r].at = "starting", ![m.r].owner = c]
  /\ UNCHANGED <<client, holder, req, exec, breaks>>

(* The hub loses a socket, or drops one that did not identify in time. *)
HubCloses(c) ==
  /\ conn[c].hub \in {"new", "member"} /\ breaks < MaxBreaks
  /\ conn' = [conn EXCEPT ![c] = TurnedAway(@)]
  /\ proc' = Orphaned(c)
  /\ breaks' = breaks + 1
  /\ UNCHANGED <<client, holder, req, exec>>

(* The agent shuts down, or its container stops: the processes are killed and
   every socket is closed. *)
AgentStops ==
  /\ breaks < MaxBreaks
  /\ \E c \in Sockets : conn[c].hub = "member"
  /\ conn' = [c \in Sockets |-> IF conn[c].hub \in {"new", "member"} THEN TurnedAway(conn[c]) ELSE conn[c]]
  /\ proc' = [e \in Execs |-> IF proc[e].owner # NoSocket
                              THEN [proc[e] EXCEPT !.at = "finished", !.told = TRUE] ELSE proc[e]]
  /\ breaks' = breaks + 1
  /\ UNCHANGED <<client, holder, req, exec>>

(* Mutant: who asked is not looked at again behind the await. *)
ProcessStartsAnyway(e) ==
  /\ proc[e].at = "starting"
  /\ proc' = [proc EXCEPT ![e].at = "running"]
  /\ UNCHANGED <<client, holder, conn, req, exec, breaks>>

(* Behind the await the process is started if who asked is still there. *)
ProcessStarts(e) ==
  /\ proc[e].at = "starting"
  /\ proc' = [proc EXCEPT ![e] = IF conn[@.owner].hub = "member" THEN [@ EXCEPT !.at = "running"]
                                 ELSE [@ EXCEPT !.at = "finished", !.told = TRUE]]
  /\ UNCHANGED <<client, holder, conn, req, exec, breaks>>

(* The directory is not there, the limit is reached, or the spawn throws. *)
ProcessRefused(e) ==
  /\ proc[e].at = "starting"
  /\ proc' = [proc EXCEPT ![e].at = "finished", ![e].told = TRUE]
  /\ conn' = [conn EXCEPT ![proc[e].owner] = IF @.hub = "member" THEN ToClient(@, Refusal(e)) ELSE @]
  /\ UNCHANGED <<client, holder, req, exec, breaks>>

ToOwner(e, m) == conn' = [conn EXCEPT ![proc[e].owner] = IF @.hub = "member" THEN ToClient(@, m) ELSE @]

(* The response that names the process. *)
ProcessTold(e) ==
  /\ proc[e].at # "starting" /\ proc[e].owner # NoSocket /\ ~proc[e].told
  /\ proc' = [proc EXCEPT ![e].told = TRUE]
  /\ ToOwner(e, Reply(e))
  /\ UNCHANGED <<client, holder, req, exec, breaks>>

(* The command cannot be run: an output and the exit, which may come before
   the response. *)
SpawnFails(e) ==
  /\ proc[e].at = "running" /\ proc[e].written = 0
  /\ proc' = [proc EXCEPT ![e].at = "finished"]
  /\ conn' = [conn EXCEPT ![proc[e].owner] =
                IF @.hub = "member" THEN ToClient(ToClient(@, Output(e, 1)), Exited(e)) ELSE @]
  /\ UNCHANGED <<client, holder, req, exec, breaks>>

ProcessWrites(e) ==
  /\ proc[e].at = "running" /\ proc[e].told /\ proc[e].written < MaxPieces
  /\ proc' = [proc EXCEPT ![e].written = @ + 1]
  /\ UNCHANGED <<client, holder, conn, req, exec, breaks>>

(* A chunk is read from its pipe and forwarded, unless `exit` came first. *)
ChunkRead(e) ==
  /\ proc[e].at \in {"running", "ended"} /\ proc[e].read < proc[e].written
  /\ proc' = [proc EXCEPT ![e].read = @ + 1]
  /\ ToOwner(e, Output(e, proc[e].read + 1))
  /\ UNCHANGED <<client, holder, req, exec, breaks>>

(* The timeout, or the limit on output: SIGTERM, and later SIGKILL. *)
ProcessKilled(e) ==
  /\ proc[e].at = "running" /\ ~proc[e].signalled
  /\ proc' = [proc EXCEPT ![e].signalled = TRUE]
  /\ UNCHANGED <<client, holder, conn, req, exec, breaks>>

ProcessEnds(e) ==
  /\ proc[e].at = "running" /\ proc[e].told
  /\ proc' = [proc EXCEPT ![e].at = "ended"]
  /\ UNCHANGED <<client, holder, conn, req, exec, breaks>>

(* The `exit` event of Node does not wait for the pipes to be drained. *)
ProcessExits(e) ==
  /\ proc[e].at = "ended"
  /\ proc' = [proc EXCEPT ![e].at = "finished"]
  /\ ToOwner(e, Exited(e))
  /\ UNCHANGED <<client, holder, req, exec, breaks>>

-----------------------------------------------------------------------------

Next ==
  \/ UrlResolved \/ UrlFails \/ ReconnectTimer \/ Close \/ GiveUp
  \/ \E r \in Requests : Request(r) \/ RequestTimesOut(r)
  \/ \E c \in Sockets :
       \/ SocketOpens(c) \/ SocketCloses(c) \/ Receive(c) \/ ClientBreaks(c)
       \/ FromClient(c) \/ Resolves(c) \/ Rejects(c) \/ AgentRefuses(c) \/ UpstreamOpens(c)
       \/ HubReceives(c) \/ HubCloses(c)
  \/ AgentStops
  \/ \E e \in Execs :
       \/ ProcessStarts(e) \/ ProcessRefused(e) \/ ProcessTold(e) \/ SpawnFails(e)
       \/ ProcessWrites(e) \/ ChunkRead(e) \/ ProcessKilled(e) \/ ProcessEnds(e) \/ ProcessExits(e)

Spec == Init /\ [][Next]_vars

(* The event loops run what is queued, frames arrive or their connection
   breaks, a token is verified, an agent answers or is refused, and a process
   ends: its timeout sends SIGTERM, then SIGKILL. *)
Fairness ==
  /\ WF_vars(UrlResolved) /\ WF_vars(ReconnectTimer)
  /\ \A c \in Sockets :
       /\ WF_vars(SocketOpens(c)) /\ WF_vars(SocketCloses(c)) /\ WF_vars(Receive(c))
       /\ WF_vars(FromClient(c)) /\ WF_vars(Resolves(c)) /\ WF_vars(UpstreamOpens(c))
       /\ WF_vars(HubReceives(c))
  /\ \A e \in Execs :
       /\ WF_vars(ProcessStarts(e)) /\ WF_vars(ProcessTold(e)) /\ WF_vars(ChunkRead(e))
       /\ WF_vars(ProcessEnds(e)) /\ WF_vars(ProcessExits(e))

FairSpec == Spec /\ Fairness

-----------------------------------------------------------------------------
(* Properties.                                                               *)

(* On each connection the agent handles the frames in the order the client sent
   them and leaves none out, those sent while the token was verified included:
   until the bridge has turned the client away for sending too much too early. *)
FramesInOrder == \A c \in Sockets : conn[c].dropped \/ IsPrefix(conn[c].handled, conn[c].sent)

(* bridge.ts:13-16 says it of every connection: "After verifying the connect
   token this is a byte-for-byte pipe in both directions".  The frame that was
   one too many is dropped and the client told to go; if the upstream opens
   before it has gone, what it sends meanwhile is forwarded behind the gap. *)
BytePipe == \A c \in Sockets : IsPrefix(conn[c].handled, conn[c].sent)

(* No process of a connection that is gone runs on unless it was told to stop:
   not one that was being started when the connection went, either. *)
NoOwnerless ==
  \A e \in Execs : proc[e].at = "running" /\ conn[proc[e].owner].hub # "member" => proc[e].signalled

(* A runExec() under way comes to an end, whatever breaks: the exit arrives, or
   the loss of the connection that would bring it. *)
ExecSettles ==
  \A e \in Execs : exec[e].at \in {"starting", "running"} ~> exec[e].at \in {"done", "failed"}

(* client.ts:256 promises of runExec(): "Starts a process and resolves when it
   exits, with its collected output".  The agent reports the `exit` event, which
   does not wait for the pipes, and drops what is read from them afterwards. *)
OutputCollected ==
  \A e \in Execs : exec[e].at = "done" /\ proc[e].written > 0 => Len(exec[e].got) = proc[e].written

(* A client that was closed leaves the workspace for good: whatever its socket,
   its bridge and the agent were doing, it is no member of the hub in the end,
   and no socket it opens brings it back. *)
LeavesPresence ==
  client.state = "closed" ~> [](\A c \in Sockets : conn[c].hub # "member")
=============================================================================
