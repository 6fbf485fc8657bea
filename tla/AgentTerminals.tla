--------------------------- MODULE AgentTerminals ---------------------------
(***************************************************************************)
(* The terminal of one member in one workspace                             *)
(* (apps/orchestrator/src/agent-terminals.ts, its WebSocket route and the  *)
(* Docker runner), with the people who watch it.                           *)
(*                                                                         *)
(* The orchestrator keeps one entry for the terminal while anybody has a   *)
(* use for it.  The entry's screen is fed through a parser that works      *)
(* asynchronously; whoever attaches gets the screen as the parser has it   *)
(* and, from then on, messages.  The process lives in the container: it    *)
(* outlives its stream and the orchestrator, and is ended by a script that *)
(* looks for the member's terminal processes and hangs them up.            *)
(***************************************************************************)
EXTENDS Integers, Sequences, SequencesExt

CONSTANTS
  Viewers,    \* the connections there may be to the terminal, its owner's included
  Sizes,      \* the sizes a terminal may have
  MaxStarts,  \* bound: how often the terminal is started
  MaxPrints,  \* bound: pieces of output
  MaxResizes, \* bound: changes of its size
  MaxStops,   \* bound: stops on their way to the container at one time
  MaxFaults   \* bound: crashes, lost streams and Docker calls that fail unnoticed

ASSUME AgentTerminalsAssumption ==
  /\ Sizes # {}
  /\ MaxStarts \in Nat /\ MaxPrints \in Nat /\ MaxResizes \in Nat
  /\ MaxStops \in Nat /\ MaxFaults \in Nat

VARIABLES
  orch,    \* the orchestrator: up, shutting down, or done with that and about to exit
  entry,   \* the entry of the member's terminal
  start,   \* where the call of start() is that got past its early returns
  at,      \* each connection: away, attaching, leaving before it has attached, live
  pending, \* the messages held back for it until it has its snapshot
  shown,   \* what it has been shown
  live,    \* the member's terminal processes, numbered by the start they come from
  doomed,  \* those of them that have been hung up
  grid,    \* the size the process's pty has, or will be created with
  stops,   \* stop scripts on their way that have not looked for processes yet
  count,   \* starts, prints, resizes and faults so far
  wanted   \* history: a stop was asked for and not yet had its effect

tty == <<live, doomed, grid>>
viewers == <<at, pending, shown>>
vars == <<orch, entry, start, viewers, tty, stops, count, wanted>>

Connections == {"away", "attaching", "leaving", "live"}
Statuses == {"idle", "starting", "running", "exited"}
NoHandle == 0

NoEntry == [ known |-> FALSE, status |-> "idle", size |-> CHOOSE s \in Sizes : TRUE,
             text |-> <<>>, queue |-> <<>>, listeners |-> {}, handle |-> NoHandle,
             over |-> FALSE, stopRequested |-> FALSE ]

(* entry(): the entry there is, or a new one. *)
Entry == [entry EXCEPT !.known = TRUE]

(* What goes through the screen's parser: output, the reset that a start
   writes, and the empty write behind which attach() takes its snapshot. *)
Printed(n) == [kind |-> "print", of |-> n]
Reset == [kind |-> "reset", of |-> 0]
Snapshot(v) == [kind |-> "snapshot", of |-> v]

OutputOf(n) == [type |-> "output", data |-> n]
Clear == [type |-> "clear"]
StateOf(e) == [type |-> "state", status |-> e.status]

View == [text : Seq(1..MaxPrints), status : Statuses]
NoView == [text |-> <<>>, status |-> "idle"]

TypeOK ==
  /\ orch \in {"up", "closing", "closed"}
  /\ entry.known \in BOOLEAN /\ entry.status \in Statuses /\ entry.size \in Sizes
  /\ entry.text \in Seq(1..MaxPrints) /\ entry.listeners \subseteq Viewers
  /\ entry.handle \in 0..MaxStarts
  /\ entry.over \in BOOLEAN /\ entry.stopRequested \in BOOLEAN
  /\ start \in {"none", "preparing", "ending", "launching"}
  /\ at \in [Viewers -> Connections] /\ shown \in [Viewers -> View]
  /\ live \subseteq 1..MaxStarts /\ doomed \subseteq live /\ grid \in Sizes
  /\ stops \in 0..MaxStops
  /\ count \in [starts : 0..MaxStarts, prints : 0..MaxPrints,
               resizes : 0..MaxResizes, faults : 0..MaxFaults]
  /\ wanted \in BOOLEAN

Init ==
  /\ orch = "up"
  /\ entry = NoEntry
  /\ start = "none"
  /\ at = [v \in Viewers |-> "away"]
  /\ pending = [v \in Viewers |-> <<>>]
  /\ shown = [v \in Viewers |-> NoView]
  /\ live = {} /\ doomed = {} /\ grid = NoEntry.size
  /\ stops = 0
  /\ count = [starts |-> 0, prints |-> 0, resizes |-> 0, faults |-> 0]
  /\ wanted = FALSE

-----------------------------------------------------------------------------
(* Helpers.                                                                  *)

(* A message shown to a viewer. *)
Show(view, m) ==
  CASE m.type = "output" -> [view EXCEPT !.text = Append(@, m.data)]
    [] m.type = "clear"  -> [view EXCEPT !.text = <<>>]
    [] m.type = "state"  -> [view EXCEPT !.status = m.status]

(* The wrapped listener of attach(): held back until the snapshot is sent. *)
Broadcast(messages) ==
  /\ pending' = [v \in Viewers |-> IF v \in entry.listeners /\ at[v] # "live"
                                   THEN pending[v] \o messages ELSE pending[v]]
  /\ shown' = [v \in Viewers |-> IF v \in entry.listeners /\ at[v] = "live"
                                 THEN FoldLeft(Show, shown[v], messages) ELSE shown[v]]
  /\ UNCHANGED at

(* Mutant: a terminal nobody watches is forgotten although it runs. *)
Watched(e) == e.listeners # {}

InUse(e) == e.listeners # {} \/ e.status \in {"starting", "running"}

(* collect(): an entry without viewers or process is forgotten.  After a
   shutdown the entry is not in the map any more. *)
Collect(e) == IF orch # "closed" /\ ~InUse(e) THEN NoEntry ELSE e

(* Mutant: the screen is reset at once, before the output still in the parser. *)
ResetAtOnce(e) == [e EXCEPT !.text = <<>>]

(* The reset goes through the parser, behind the output of the last run. *)
ResetScreen(e) == [e EXCEPT !.queue = Append(@, Reset)]

(* The parser's work on one item, a snapshot apart. *)
Parsed(text, item) ==
  CASE item.kind = "print" -> Append(text, item.of)
    [] item.kind = "reset" -> <<>>
    [] OTHER -> text

CountStart == count' = [count EXCEPT !.starts = @ + 1]
CountPrint == count' = [count EXCEPT !.prints = @ + 1]
CountResize == count.resizes < MaxResizes /\ count' = [count EXCEPT !.resizes = @ + 1]
CountFault == count.faults < MaxFaults /\ count' = [count EXCEPT !.faults = @ + 1]

-----------------------------------------------------------------------------
(* Viewers.                                                                  *)

(* attach(), up to the await: listen first, then queue for the snapshot. *)
Attach(v) ==
  /\ orch # "closed" /\ at[v] = "away"
  /\ at' = [at EXCEPT ![v] = "attaching"]
  /\ entry' = [Entry EXCEPT !.listeners = @ \cup {v}, !.queue = Append(@, Snapshot(v))]
  /\ UNCHANGED <<orch, start, pending, shown, tty, stops, count, wanted>>

(* A connection that is no more. *)
Forgotten(v) ==
  /\ at' = [at EXCEPT ![v] = "away"]
  /\ pending' = [pending EXCEPT ![v] = <<>>]
  /\ shown' = [shown EXCEPT ![v] = NoView]

(* The parser takes the next item.  Behind a snapshot the route goes on at
   once: it sends the hello and resumes, or detaches if the socket is gone. *)
Parse ==
  /\ orch # "closed" /\ entry.queue # <<>>
  /\ LET item == Head(entry.queue)
         v == item.of
         e == [entry EXCEPT !.queue = Tail(@), !.text = Parsed(@, item)]
     IN \/ /\ item.kind # "snapshot"
           /\ entry' = e
           /\ UNCHANGED viewers
        \/ /\ item.kind = "snapshot" /\ at[v] = "attaching"
           /\ entry' = e
           /\ at' = [at EXCEPT ![v] = "live"]
           /\ pending' = [pending EXCEPT ![v] = <<>>]
           /\ LET snapshot == [text |-> e.text, status |-> e.status]
              IN shown' = [shown EXCEPT ![v] = FoldLeft(Show, snapshot, pending[v])]
        \/ /\ item.kind = "snapshot" /\ at[v] = "leaving"
           /\ entry' = Collect([e EXCEPT !.listeners = @ \ {v}])
           /\ Forgotten(v)
  /\ UNCHANGED <<orch, start, tty, stops, count, wanted>>

(* The socket closes; one that is still attaching is detached when it has attached. *)
Close(v) ==
  /\ \/ /\ at[v] = "attaching"
        /\ at' = [at EXCEPT ![v] = "leaving"]
        /\ UNCHANGED <<entry, pending, shown>>
     \/ /\ at[v] = "live"
        /\ entry' = Collect([entry EXCEPT !.listeners = @ \ {v}])
        /\ Forgotten(v)
  /\ UNCHANGED <<orch, start, tty, stops, count, wanted>>

(* resize() from the owner's page; the pty follows if there is one (a call
   of Docker's that fails is ignored; it is not modelled). *)
Resize(size) ==
  /\ orch # "closed" /\ entry.known /\ entry.size # size
  /\ LET e == [entry EXCEPT !.size = size] IN entry' = e /\ Broadcast(<<StateOf(e)>>)
  /\ CountResize
  /\ grid' = IF entry.handle # NoHandle THEN size ELSE grid
  /\ UNCHANGED <<orch, start, live, doomed, stops, wanted>>

-----------------------------------------------------------------------------
(* start().                                                                  *)

(* Up to the first await.  It returns early during a shutdown, and when the
   terminal is starting or running. *)
Start(size) ==
  /\ orch = "up" /\ entry.status \notin {"starting", "running"}
  /\ count.starts < MaxStarts /\ CountStart
  /\ LET e == [ResetScreen(Entry) EXCEPT !.status = "starting", !.size = size, !.stopRequested = FALSE]
     IN entry' = e /\ Broadcast(<<Clear, StateOf(e)>>)
  /\ start' = "preparing"
  /\ grid' = size
  /\ UNCHANGED <<orch, live, doomed, stops, wanted>>

(* Mutant: what an earlier orchestrator left behind is not looked for. *)
StartRightAway ==
  /\ start = "preparing"
  /\ start' = "launching"
  /\ UNCHANGED <<orch, entry, viewers, tty, stops, count, wanted>>

(* The stop script, run for what an earlier orchestrator left behind. *)
StartClears ==
  /\ start = "preparing"
  /\ start' = "ending"
  /\ doomed' = live
  /\ UNCHANGED <<orch, entry, viewers, live, grid, stops, count, wanted>>

(* It returns when what it hung up has ended, or when its own stream is lost. *)
StartCleared ==
  /\ start = "ending"
  /\ start' = "launching"
  /\ \/ live = {} /\ UNCHANGED count
     \/ CountFault
  /\ UNCHANGED <<orch, entry, viewers, tty, stops, wanted>>

(* One of the Docker calls fails.  The last may have started the process all the same. *)
StartFails ==
  /\ start # "none"
  /\ start' = "none"
  /\ LET e == [entry EXCEPT !.status = "exited"] IN entry' = Collect(e) /\ Broadcast(<<StateOf(e)>>)
  /\ wanted' = FALSE
  /\ \/ UNCHANGED <<live, count>>
     \/ start = "launching" /\ CountFault /\ live' = live \cup {count.starts}
  /\ UNCHANGED <<orch, doomed, grid, stops>>

(* Mutant: a stop that came during the start is forgotten. *)
StopOnShutdown == orch = "closing"

(* A stop that came meanwhile, or a shutdown, is made up for by stop(), which
   looks for the entry in the map again. *)
StopNow == (entry.stopRequested \/ orch # "up") /\ orch # "closed"

Launch ==
  /\ start = "launching"
  /\ start' = "none"
  /\ live' = live \cup {count.starts}
  /\ LET e == [entry EXCEPT !.status = "running", !.handle = count.starts, !.over = FALSE]
     IN entry' = e /\ Broadcast(<<StateOf(e)>>)
  /\ \/ StopNow /\ stops < MaxStops /\ stops' = stops + 1
     \/ ~StopNow /\ UNCHANGED stops
  /\ UNCHANGED <<orch, doomed, grid, count, wanted>>

-----------------------------------------------------------------------------
(* The process and its stream.                                               *)

Written(e, n) == [e EXCEPT !.queue = Append(@, Printed(n))]

Output ==
  /\ entry.handle \in live /\ ~entry.over
  /\ count.prints < MaxPrints /\ CountPrint
  /\ entry' = Written(entry, count.prints + 1)
  /\ Broadcast(<<OutputOf(count.prints + 1)>>)
  /\ UNCHANGED <<orch, start, tty, stops, wanted>>

(* A process ends, by itself or because it was hung up, and its stream with it. *)
Ends(p) ==
  /\ p \in live
  /\ live' = live \ {p} /\ doomed' = doomed \ {p}
  /\ entry' = [entry EXCEPT !.over = @ \/ entry.handle = p]
  /\ UNCHANGED <<orch, start, viewers, grid, stops, count, wanted>>

StreamLost ==
  /\ entry.handle # NoHandle /\ ~entry.over
  /\ CountFault
  /\ entry' = [entry EXCEPT !.over = TRUE]
  /\ UNCHANGED <<orch, start, viewers, tty, stops, wanted>>

(* finish(): the end of a character cut short may be the last output. *)
Finish ==
  /\ entry.handle # NoHandle /\ entry.over
  /\ LET e == [entry EXCEPT !.handle = NoHandle, !.status = "exited"]
         tail == count.prints + 1
     IN \/ entry' = Collect(e) /\ Broadcast(<<StateOf(e)>>) /\ UNCHANGED count
        \/ /\ count.prints < MaxPrints /\ CountPrint
           /\ entry' = Collect(Written(e, tail))
           /\ Broadcast(<<OutputOf(tail), StateOf(e)>>)
  /\ wanted' = FALSE
  /\ UNCHANGED <<orch, start, tty, stops>>

-----------------------------------------------------------------------------
(* stop() and shutdown().                                                    *)

(* From the owner's page, or, with the container given, because the member
   leaves the workspace. *)
Stop(container) ==
  /\ orch # "closed"
  /\ \/ /\ entry.status = "starting"
        /\ entry' = [entry EXCEPT !.stopRequested = TRUE]
        /\ UNCHANGED stops
     \/ /\ entry.status = "running" \/ (container /\ entry.status # "starting")
        /\ stops < MaxStops
        /\ stops' = stops + 1
        /\ UNCHANGED entry
  /\ wanted' = (wanted \/ entry.status \in {"starting", "running"})
  /\ UNCHANGED <<orch, start, viewers, tty, count>>

(* The script takes its list of processes and hangs them up. *)
StopArrives ==
  /\ stops > 0
  /\ stops' = stops - 1
  /\ doomed' = live
  /\ UNCHANGED <<orch, entry, start, viewers, live, grid, count, wanted>>

(* Whoever asked for the stop is told. *)
StopFails ==
  /\ stops > 0 /\ CountFault
  /\ stops' = stops - 1
  /\ wanted' = FALSE
  /\ UNCHANGED <<orch, entry, start, viewers, tty>>

(* shutdown(), up to the await.  With nothing running there is none. *)
Shutdown ==
  /\ orch = "up"
  /\ \/ /\ entry.status = "running"
        /\ stops < MaxStops
        /\ orch' = "closing" /\ stops' = stops + 1
     \/ /\ entry.status # "running"
        /\ orch' = "closed" /\ UNCHANGED stops
  /\ UNCHANGED <<entry, start, viewers, tty, count, wanted>>

(* The entries are forgotten once the terminals have ended, or after a while. *)
Forget ==
  /\ orch = "closing"
  /\ orch' = "closed"
  /\ \/ stops = 0 /\ doomed = {} /\ UNCHANGED count
     \/ CountFault
  /\ UNCHANGED <<entry, start, viewers, tty, stops, wanted>>

(* The process of the orchestrator is gone and another takes its place.  What
   it had asked of Docker may or may not happen still. *)
Restart ==
  /\ orch' = "up"
  /\ entry' = NoEntry /\ start' = "none"
  /\ at' = [v \in Viewers |-> "away"]
  /\ pending' = [v \in Viewers |-> <<>>] /\ shown' = [v \in Viewers |-> NoView]
  /\ \E n \in 0..stops : stops' = n
  /\ \/ live' = live
     \/ start = "launching" /\ live' = live \cup {count.starts}
  /\ wanted' = FALSE
  /\ UNCHANGED <<doomed, grid>>

Exit == orch = "closed" /\ Restart /\ UNCHANGED count
Crash == CountFault /\ Restart

-----------------------------------------------------------------------------
Next ==
  \/ \E v \in Viewers : Attach(v) \/ Close(v)
  \/ Parse
  \/ \E s \in Sizes : Resize(s) \/ Start(s)
  \/ StartClears \/ StartCleared \/ StartFails \/ Launch
  \/ Output \/ StreamLost \/ Finish
  \/ \E p \in live : Ends(p)
  \/ \E c \in BOOLEAN : Stop(c)
  \/ StopArrives \/ StopFails
  \/ Shutdown \/ Forget \/ Exit \/ Crash

Spec == Init /\ [][Next]_vars

(* Docker answers, a process that is hung up ends (it is killed after five
   seconds if it does not), and the daemon reports the end of a stream. *)
FairSpec ==
  /\ Spec
  /\ WF_vars(StartClears) /\ WF_vars(StartCleared) /\ WF_vars(Launch \/ StartFails)
  /\ WF_vars(StopArrives) /\ WF_vars(\E p \in doomed : Ends(p)) /\ WF_vars(Finish)

-----------------------------------------------------------------------------
(* Properties.                                                               *)

(* attach() promises that every byte reaches the new viewer exactly once:
   whoever has attached has been shown what the screen will show when the
   parser has caught up, in that order, and knows the terminal's state. *)
ViewersAgree ==
  \A v \in Viewers :
    at[v] = "live" =>
      shown[v] = [text |-> FoldLeft(Parsed, entry.text, entry.queue), status |-> entry.status]

(* A member has at most one terminal (AGENT_TERMINAL_MARKER relies on it):
   whatever crashes, fails or is lost, two of their terminal processes never
   run at one time unless they have been hung up. *)
OneProcess == \A p, q \in live \ doomed : p = q

(* An entry is forgotten by collect() when, and only when, nobody is attached
   or attaching and no start or process of this orchestrator is behind it. *)
EntryKept ==
  orch # "closed" =>
    (entry.known <=> \/ \E v \in Viewers : at[v] # "away"
                     \/ start # "none"
                     \/ entry.handle # NoHandle)

(* A stop that meets a starting or running terminal ends it, or whoever asked
   is told that it failed, unless a shutdown gets in the way. *)
StopTakesEffect == wanted ~> (~wanted \/ orch = "closed")

(* "A pty has one grid, and its owner's pane decides it": while no start is
   under way the pty has the size that the entry, and every viewers, has. *)
GridIsOwners == entry.status = "running" => grid = entry.size

(* shutdown() "stops every terminal": when the orchestrator exits, no process
   is left that has not been hung up. *)
ShutdownEndsAll == [][Exit => live' \subseteq doomed']_vars
=============================================================================
