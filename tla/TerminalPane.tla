---------------------------- MODULE TerminalPane ----------------------------
(***************************************************************************)
(* A pane of the workspace page that shows one member's Claude terminal:   *)
(* the component (web components/claude-terminal.tsx) with its xterm, its  *)
(* client (workspace-client/agent-terminal-client.ts), and the WebSocket   *)
(* route of the orchestrator (routes/agent-terminal.ts).  Of the terminal  *)
(* behind the route there is what a viewer can tell: its state, and the    *)
(* output since it was last cleared (AgentTerminals has the rest).         *)
(*                                                                         *)
(* xterm parses what is written to it later, in order; every socket is a   *)
(* connection of its own, and a close travels behind the frames before it. *)
(***************************************************************************)
EXTENDS Integers, Sequences, SequencesExt, FiniteSets

CONSTANTS
  MaxSockets, \* bound: sockets the pane opens
  MaxPending, \* frames the route holds back before its token is checked (64 in the code)
  MaxPrints,  \* bound: pieces of output
  MaxClicks, \* bound: times its member presses a button
  MaxBreaks   \* bound: broken connections, refusals, restarts of the orchestrator

ASSUME TerminalPaneAssumption ==
  /\ MaxSockets \in Nat \ {0} /\ MaxPending \in Nat /\ MaxPrints \in Nat
  /\ MaxClicks \in Nat /\ MaxBreaks \in Nat

VARIABLES
  pane,   \* the component: its member's own or a watcher's, mounted, its client's step and
          \* socket, the state it knows
  xterm,  \* what is drawn, and what is still to be parsed
  conn,   \* each socket, and its handler in the route
  term,   \* the terminal: state, output, who listens, starts on their way
  count   \* prints, presses and faults so far; whether a start or the client was turned away

paneVars == <<pane, xterm, conn, term, count>>

Sockets == 1..MaxSockets
NoSocket == 0
Statuses == {"idle", "starting", "running", "exited"}

Close == [type |-> "close"]
Ask(what) == [type |-> what]
Hello(t) == [type |-> "hello", text |-> t.text, status |-> t.status]
State(s) == [type |-> "state", status |-> s]
Output(n) == [type |-> "output", n |-> n]
Clear == [type |-> "clear"]

Fresh == [client |-> "none", route |-> "none", gone |-> FALSE, inbox |-> <<>>, pending |-> <<>>, out |-> <<>>]

NoTerminal == [status |-> "idle", text |-> <<>>, listeners |-> {}, asked |-> 0]

(* The type invariant; and who has left is never among those who are told, also
   if it left while it was being attached. *)
PaneTypeOK ==
  /\ pane.sock \in 0..pane.opened /\ pane.opened \in 0..MaxSockets
  /\ pane.step \in {"resolving", "waiting", "none"} /\ (pane.step # "none" => pane.mounted /\ pane.sock = NoSocket)
  /\ pane.status \in Statuses \cup {"none"}
  /\ term.status \in Statuses /\ term.listeners \subseteq Sockets /\ term.asked \in Nat
  /\ \A c \in Sockets :
       /\ conn[c].client \in {"none", "connecting", "open", "closed"}
       /\ conn[c].route \in {"none", "verifying", "attaching", "live", "over"}
       /\ Len(conn[c].pending) <= MaxPending
       /\ c \in term.listeners => conn[c].route = "live" /\ ~conn[c].gone

PaneInit ==
  /\ pane \in [own : BOOLEAN, mounted : {TRUE}, step : {"resolving"}, sock : {NoSocket},
               opened : {0}, status : {"none"}]
  /\ xterm = [text |-> <<>>, queue |-> <<>>]
  /\ conn = [c \in Sockets |-> Fresh]
  /\ term = NoTerminal
  /\ count = [prints |-> 0, presses |-> 0, faults |-> 0, refused |-> FALSE]

Fault == count.faults < MaxBreaks /\ count' = [count EXCEPT !.faults = @ + 1]
Pressed == count.presses < MaxClicks /\ count' = [count EXCEPT !.presses = @ + 1]

-----------------------------------------------------------------------------
(* The client.                                                               *)

(* The token route answers, and the socket is opened. *)
UrlResolved ==
  /\ pane.mounted /\ pane.step = "resolving" /\ pane.opened < MaxSockets
  /\ LET c == pane.opened + 1
     IN /\ pane' = [pane EXCEPT !.step = "none", !.sock = c, !.opened = c]
        /\ conn' = [conn EXCEPT ![c].client = "connecting", ![c].route = "verifying"]
  /\ UNCHANGED <<xterm, term, count>>

UrlFails ==
  /\ pane.mounted /\ pane.step = "resolving" /\ Fault
  /\ pane' = [pane EXCEPT !.step = "waiting"]
  /\ UNCHANGED <<xterm, conn, term>>

ReconnectTimer ==
  /\ pane.step = "waiting"
  /\ pane' = [pane EXCEPT !.step = "resolving"]
  /\ UNCHANGED <<xterm, conn, term, count>>

SocketOpens(c) ==
  /\ conn[c].client = "connecting"
  /\ conn' = [conn EXCEPT ![c].client = "open"]
  /\ UNCHANGED <<pane, xterm, term, count>>

ClosedBy(k) == [k EXCEPT !.client = "closed", !.out = <<>>,
                         !.inbox = IF k.gone \/ Contains(@, Close) THEN @ ELSE Append(@, Close)]

(* The `close` event.  That of a socket that is not the current one any more
   changes nothing for the client. *)
SocketCloses(c) ==
  /\ conn[c].client \in {"connecting", "open"} /\ conn[c].out # <<>> /\ Head(conn[c].out) = Close
  /\ conn' = [conn EXCEPT ![c] = ClosedBy(@)]
  /\ pane' = IF c = pane.sock THEN [pane EXCEPT !.sock = NoSocket, !.step = "waiting"] ELSE pane
  /\ UNCHANGED <<xterm, term, count>>

(* The page is left, or the pane's member is removed: close(), for good. *)
Unmount ==
  /\ pane.mounted
  /\ pane' = [pane EXCEPT !.mounted = FALSE, !.sock = NoSocket, !.step = "none"]
  /\ conn' = [c \in Sockets |-> IF c = pane.sock THEN ClosedBy(conn[c]) ELSE conn[c]]
  /\ UNCHANGED <<xterm, term, count>>

(* send(): dropped, and not queued, unless the socket is open. *)
Sent(what) == [c \in Sockets |-> IF c = pane.sock /\ conn[c].client = "open"
                                 THEN [conn[c] EXCEPT !.inbox = Append(@, Ask(what))] ELSE conn[c]]

-----------------------------------------------------------------------------
(* The pane.                                                                 *)

Reset == [kind |-> "reset"]
Written(text) == [kind |-> "print", text |-> text]
Screen(m) == [kind |-> "screen", text |-> m.text, status |-> m.status]

(* What xterm makes of one item of its queue. *)
Parsed(text, item) == IF item.kind = "reset" THEN <<>> ELSE text \o item.text

(* Mutant: the screen of a new connection is drawn on what is there. *)
DrawnOver(x, m) ==
  CASE m.type = "hello"  -> [x EXCEPT !.queue = @ \o <<Screen(m)>>]
    [] m.type = "output" -> [x EXCEPT !.queue = Append(@, Written(<<m.n>>))]
    [] m.type = "clear"  -> [x EXCEPT !.queue = Append(@, Reset)]
    [] OTHER -> x

(* What a message has written to xterm: a hello resets it through the parser
   and draws the whole screen. *)
Drawn(x, m) ==
  CASE m.type = "hello"  -> [x EXCEPT !.queue = @ \o <<Reset, Screen(m)>>]
    [] m.type = "output" -> [x EXCEPT !.queue = Append(@, Written(<<m.n>>))]
    [] m.type = "clear"  -> [x EXCEPT !.queue = Append(@, Reset)]
    [] OTHER -> x

(* What it has told the pane of the terminal's state. *)
Known(status, m) == IF m.type \in {"hello", "state"} THEN m.status ELSE status

(* A message of the current socket. *)
Receive(c) ==
  /\ conn[c].client = "open" /\ conn[c].out # <<>> /\ Head(conn[c].out) # Close
  /\ LET m == Head(conn[c].out)
     IN /\ xterm' = IF c = pane.sock THEN Drawn(xterm, m) ELSE xterm
        /\ pane' = IF c = pane.sock THEN [pane EXCEPT !.status = Known(@, m)] ELSE pane
        /\ conn' = [conn EXCEPT ![c].out = Tail(@)]
  /\ UNCHANGED <<term, count>>

(* Mutant: the member's own terminal waits for its button. *)
ParsesOnly ==
  /\ xterm.queue # <<>>
  /\ xterm' = [text |-> Parsed(xterm.text, Head(xterm.queue)), queue |-> Tail(xterm.queue)]
  /\ UNCHANGED <<pane, conn, term, count>>

(* xterm gets to the next item.  Behind the screen of a hello its member's own
   pane starts a terminal that was idle then. *)
Parses ==
  /\ xterm.queue # <<>>
  /\ LET item == Head(xterm.queue)
     IN /\ xterm' = [text |-> Parsed(xterm.text, item), queue |-> Tail(xterm.queue)]
        /\ conn' = IF item.kind = "screen" /\ pane.own /\ item.status = "idle" THEN Sent("start") ELSE conn
  /\ UNCHANGED <<pane, term, count>>

(* The buttons, shown to its member only: start what has exited, stop what runs. *)
Click ==
  /\ pane.own /\ pane.mounted /\ pane.sock # NoSocket /\ conn[pane.sock].client = "open"
  /\ Pressed
  /\ \/ pane.status = "exited" /\ conn' = Sent("start")
     \/ pane.status = "running" /\ conn' = Sent("stop")
  /\ UNCHANGED <<pane, xterm, term>>

-----------------------------------------------------------------------------
(* The route.                                                                *)

Closing(k) == k.out # <<>> /\ Last(k.out) = Close
ToClient(k, m) == IF k.client = "closed" \/ Closing(k) THEN k ELSE [k EXCEPT !.out = Append(@, m)]

(* broadcast() to the listeners. *)
Told(k, messages) == [c \in Sockets |-> IF c \in term.listeners THEN FoldLeft(ToClient, k[c], messages) ELSE k[c]]

(* handle(): what a viewer sends goes no further.  A start first looks for the
   container.  A stop ends the process, which may end by itself as well. *)
Handled(t, m) == IF m.type = "start" /\ pane.own THEN [t EXCEPT !.asked = @ + 1] ELSE t

(* collect(): a terminal that has exited is forgotten when nobody watches it. *)
Collected(t, k) ==
  IF t.status = "exited" /\ t.listeners = {} /\ \A c \in Sockets : k[c].route # "attaching"
  THEN [NoTerminal EXCEPT !.asked = t.asked] ELSE t

(* A frame of the client's: handled, held back, or one too many. *)
FromClient(c) ==
  /\ conn[c].inbox # <<>>
  /\ LET m == Head(conn[c].inbox)
         k == [conn[c] EXCEPT !.inbox = Tail(@)]
     IN CASE m = Close ->
               /\ conn' = [conn EXCEPT ![c] = [k EXCEPT !.gone = TRUE]]
               /\ term' = Collected([term EXCEPT !.listeners = @ \ {c}], conn')
               /\ UNCHANGED count
          [] m # Close /\ k.route = "live" ->
               /\ conn' = [conn EXCEPT ![c] = k]
               /\ term' = Handled(term, m)
               /\ UNCHANGED count
          [] m # Close /\ k.route \in {"verifying", "attaching"} ->
               /\ IF Len(k.pending) < MaxPending
                  THEN conn' = [conn EXCEPT ![c] = [k EXCEPT !.pending = Append(@, m)]] /\ UNCHANGED count
                  ELSE /\ conn' = [conn EXCEPT ![c] = [ToClient(k, Close) EXCEPT !.pending = <<>>]]
                       /\ count' = [count EXCEPT !.refused = TRUE]
               /\ UNCHANGED term
          [] OTHER ->
               /\ conn' = [conn EXCEPT ![c] = k]
               /\ UNCHANGED <<term, count>>
  /\ UNCHANGED <<pane, xterm>>

(* The token is good and the workspace runs: attach(), unless the client left. *)
Verified(c) ==
  /\ conn[c].route = "verifying"
  /\ conn' = [conn EXCEPT ![c].route = IF conn[c].gone THEN "over" ELSE "attaching"]
  /\ UNCHANGED <<pane, xterm, term, count>>

Rejected(c) ==
  /\ conn[c].route = "verifying" /\ Fault
  /\ conn' = [conn EXCEPT ![c] = [ToClient(@, Close) EXCEPT !.route = "over"]]
  /\ UNCHANGED <<pane, xterm, term>>

(* The snapshot is taken: hello, and what was held back; from now on it listens.
   If the client left meanwhile it is detached again. *)
Attached(c) ==
  /\ conn[c].route = "attaching"
  /\ IF conn[c].gone
     THEN conn' = [conn EXCEPT ![c].route = "over"] /\ term' = Collected(term, conn')
     ELSE /\ conn' = [conn EXCEPT ![c] = [ToClient(@, Hello(term)) EXCEPT !.route = "live", !.pending = <<>>]]
          /\ term' = [FoldLeft(Handled, term, conn[c].pending) EXCEPT !.listeners = @ \cup {c}]
  /\ UNCHANGED <<pane, xterm, count>>

(* A connection breaks; each end notices in its time. *)
Truncated(frames) == {frames \o <<Close>>, <<Close>>}
Breaks(c) ==
  /\ conn[c].client = "open" /\ ~conn[c].gone /\ ~Contains(conn[c].out, Close) /\ Fault
  /\ \E i \in Truncated(conn[c].inbox), o \in Truncated(conn[c].out) :
       conn' = [conn EXCEPT ![c].inbox = i, ![c].out = o]
  /\ UNCHANGED <<pane, xterm, term>>

-----------------------------------------------------------------------------
(* The terminal.                                                             *)

(* The member presses start in another tab of theirs. *)
StartedElsewhere ==
  /\ Pressed
  /\ term' = [term EXCEPT !.asked = @ + 1]
  /\ UNCHANGED <<pane, xterm, conn>>

(* A start finds the container: nothing to do for a terminal that starts or
   runs; otherwise it is cleared. *)
StartArrives ==
  /\ term.asked > 0
  /\ IF term.status \in {"starting", "running"}
     THEN term' = [term EXCEPT !.asked = @ - 1] /\ UNCHANGED conn
     ELSE /\ term' = [term EXCEPT !.asked = @ - 1, !.status = "starting", !.text = <<>>]
          /\ conn' = Told(conn, <<Clear, State("starting")>>)
  /\ UNCHANGED <<pane, xterm, count>>

(* The workspace does not run: its member is told, and nothing else changes. *)
StartRefused ==
  /\ term.asked > 0 /\ count.faults < MaxBreaks
  /\ count' = [count EXCEPT !.faults = @ + 1, !.refused = TRUE]
  /\ term' = [term EXCEPT !.asked = @ - 1]
  /\ UNCHANGED <<pane, xterm, conn>>

(* The process is there, or could not be started. *)
StartEnds ==
  /\ term.status = "starting"
  /\ \E s \in {"running", "exited"} :
       /\ term' = Collected([term EXCEPT !.status = s], conn)
       /\ conn' = Told(conn, <<State(s)>>)
  /\ UNCHANGED <<pane, xterm, count>>

Prints ==
  /\ term.status = "running" /\ count.prints < MaxPrints
  /\ count' = [count EXCEPT !.prints = @ + 1]
  /\ term' = [term EXCEPT !.text = Append(@, count.prints + 1)]
  /\ conn' = Told(conn, <<Output(count.prints + 1)>>)
  /\ UNCHANGED <<pane, xterm>>

Exits ==
  /\ term.status = "running"
  /\ term' = Collected([term EXCEPT !.status = "exited"], conn)
  /\ conn' = Told(conn, <<State("exited")>>)
  /\ UNCHANGED <<pane, xterm, count>>

(* A restart of the orchestrator: every handler and the terminal are gone. *)
ServerRestarts ==
  /\ Fault
  /\ term' = NoTerminal
  /\ conn' = [c \in Sockets |-> IF conn[c].route \in {"verifying", "attaching", "live"}
                                THEN [ToClient(conn[c], Close) EXCEPT !.route = "over", !.pending = <<>>] ELSE conn[c]]
  /\ UNCHANGED <<pane, xterm>>

-----------------------------------------------------------------------------

PaneNext ==
  \/ UrlResolved \/ UrlFails \/ ReconnectTimer \/ Unmount \/ Parses \/ Click
  \/ \E c \in Sockets :
       \/ SocketOpens(c) \/ SocketCloses(c) \/ Receive(c) \/ Breaks(c)
       \/ FromClient(c) \/ Verified(c) \/ Rejected(c) \/ Attached(c)
  \/ StartedElsewhere \/ StartArrives \/ StartRefused \/ StartEnds \/ Prints \/ Exits \/ ServerRestarts

PaneSpec == PaneInit /\ [][PaneNext]_paneVars

(* The event loops of browser and orchestrator run, frames arrive or their
   connection breaks, the parser works, timers fire. *)
PaneFairness ==
  /\ WF_paneVars(UrlResolved) /\ WF_paneVars(ReconnectTimer) /\ WF_paneVars(Parses) /\ WF_paneVars(StartArrives)
  /\ \A c \in Sockets :
       /\ WF_paneVars(SocketOpens(c)) /\ WF_paneVars(SocketCloses(c)) /\ WF_paneVars(Receive(c))
       /\ WF_paneVars(FromClient(c)) /\ WF_paneVars(Verified(c)) /\ WF_paneVars(Attached(c))

PaneFairSpec == PaneSpec /\ PaneFairness

-----------------------------------------------------------------------------
(* Properties.                                                               *)

(* A pane that is connected draws, once it has caught up, exactly what the
   terminal has put out since it was cleared last, and knows its state: whatever
   of an earlier connection was still to be parsed when the new one said hello. *)
PaneShows ==
  \A c \in term.listeners :
    c = pane.sock /\ conn[c].client = "open" /\ ~Contains(conn[c].out, Close) =>
      LET drawn == FoldLeft(Drawn, xterm, conn[c].out)
      IN /\ FoldLeft(Parsed, drawn.text, drawn.queue) = term.text
         /\ FoldLeft(Known, pane.status, conn[c].out) = term.status

(* claude-terminal.tsx:49-52: a member's terminal "starts by itself when its
   member opens the workspace"; also after a restart of the orchestrator, and
   whatever connection breaks: unless the workspace is not running, or the pane
   is sent away for asking too much too early. *)
IdleIsStarted ==
  pane.own /\ pane.mounted /\ term.status = "idle"
    ~> term.status # "idle" \/ ~pane.mounted \/ count.refused
=============================================================================
