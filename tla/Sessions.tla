------------------------------ MODULE Sessions ------------------------------
(***************************************************************************)
(* The shared terminals of a workspace: the agent's session manager        *)
(* (workspace-agent/session-manager.ts) with the scrollback of each        *)
(* session (scrollback.ts), the hub that tells the clients                 *)
(* (workspace-agent/hub.ts), and what a client's page makes of what it is  *)
(* told (web components/workspace-socket.tsx).                             *)
(*                                                                         *)
(* A session's output is a stream of bytes, numbered from 1; a chunk of it *)
(* is an interval.  The hub runs on one event loop: a handler is one step. *)
(* What it sends waits in the client's queue.  What a client asks for is   *)
(* taken from its frames in any order: each is handled at some moment.     *)
(***************************************************************************)
EXTENDS Integers, Sequences, SequencesExt, FiniteSets

CONSTANTS
  Clients,    \* connections to the agent
  Editors,    \* those that may do more than watch
  Ids,        \* session ids (bound: sessions ever opened)
  MaxSessions,\* sessions at a time
  MaxBytes,   \* bytes of scrollback of a session
  MaxMade,    \* bound: bytes a session writes
  Grids,      \* sizes of a terminal
  MaxCalls,   \* bound: frames the clients send
  MaxUnread   \* bound: messages a client is behind when the next frame is handled

ASSUME SessionsAssumption ==
  /\ Editors \subseteq Clients
  /\ MaxSessions \in Nat \ {0} /\ MaxBytes \in Nat \ {0} /\ MaxMade \in Nat /\ MaxCalls \in Nat /\ MaxUnread \in Nat

VARIABLES
  session, \* each session the agent has had
  member,  \* each connection, to the hub: new, identified, or gone
  queue,   \* messages on their way to each client
  page,    \* what each client has made of its messages
  up,      \* the connections that carry what is sent
  calls    \* frames sent so far

vars == <<session, member, queue, page, up, calls>>

Chunk(from, to) == [from |-> from, to |-> to]
Bytes(chunks) == FoldLeft(LAMBDA n, k : n + k.to - k.from + 1, 0, chunks)

Unopened == [at |-> "unopened", attached |-> {}, made |-> 0, scrollback |-> <<>>, grid |-> CHOOSE g \in Grids : TRUE,
             told |-> "none", timer |-> FALSE]
NoScreen == [from |-> 1, to |-> 0, torn |-> FALSE, grid |-> Unopened.grid]

Listed == {s \in Ids : session[s].at = "live"}
Unused == {s \in Ids : session[s].at = "unopened"}
Members == {c \in Clients : member[c] = "member"}

(* The type invariant; the scrollback stays within its bytes, a chunk that
   alone exceeds them included. *)
TypeOK ==
  /\ \A s \in Ids :
       /\ session[s].at \in {"unopened", "live", "exited", "disposed"}
       /\ session[s].attached \subseteq Members
       /\ session[s].made \in 0..MaxMade
       /\ session[s].scrollback \in Seq([from : 1..MaxMade, to : 1..MaxMade])
       /\ Bytes(session[s].scrollback) <= MaxBytes
       /\ session[s].grid \in Grids /\ session[s].told \in {"none", "hup", "kill"}
       /\ session[s].timer \in BOOLEAN
  /\ Cardinality(Listed) <= MaxSessions
  /\ member \in [Clients -> {"new", "member", "gone"}]
  /\ \A c \in Clients : page[c].list \subseteq Ids
  /\ up \subseteq Clients
  /\ calls \in 0..MaxCalls

Init ==
  /\ session = [s \in Ids |-> Unopened]
  /\ member = [c \in Clients |-> "new"]
  /\ queue = [c \in Clients |-> <<>>]
  /\ page = [c \in Clients |-> [list |-> {}, here |-> <<>>, screen |-> [s \in Ids |-> NoScreen]]]
  /\ up = Clients
  /\ calls = 0

-----------------------------------------------------------------------------
(* What the hub tells, of the sessions S and the members M as they are now.  *)

Hello(S, M) == [type |-> "hello", list |-> {s \in Ids : S[s].at = "live"},
                here |-> [c \in M |-> {s \in Ids : S[s].at = "live" /\ c \in S[s].attached}]]
Presence(S, M) == [type |-> "presence", here |-> Hello(S, M).here]
Opened(s) == [type |-> "opened", s |-> s]
Exited(s) == [type |-> "exit", s |-> s]
Output(s, k) == [type |-> "output", s |-> s, chunk |-> k]
Resized(s, g) == [type |-> "resized", s |-> s, grid |-> g]

(* term.attached carries the scrollback; term.created, of a session that has
   written nothing yet and that its creator is attached to, is the same with
   none.  Replies that change no page (term.created without attaching,
   term.killed, term.listed, errors) are left out. *)
Snapshot(chunks) == IF chunks = <<>> THEN <<>> ELSE <<Chunk(Head(chunks).from, Last(chunks).to)>>
Attached(s, x) == [type |-> "attached", s |-> s, snapshot |-> Snapshot(x.scrollback), made |-> x.made, grid |-> x.grid]

(* send() and broadcast(): a socket that is not open is passed over. *)
Send(q, to, messages) == [c \in Clients |-> IF c \in to \cap up THEN q[c] \o messages ELSE q[c]]

Paced == \A c \in Clients : Len(queue[c]) <= MaxUnread
Calls == Paced /\ calls < MaxCalls /\ calls' = calls + 1

-----------------------------------------------------------------------------
(* Frames of the clients.                                                    *)

(* Mutant: the hello of a client is not followed by telling the others. *)
IdentifyQuietly(c) ==
  /\ member[c] = "new"
  /\ member' = [member EXCEPT ![c] = "member"]
  /\ queue' = Send(queue, {c}, <<Hello(session, Members \cup {c})>>)
  /\ UNCHANGED <<session, page, up, calls>>

(* The first frame. *)
Identify(c) ==
  /\ Paced /\ member[c] = "new"
  /\ member' = [member EXCEPT ![c] = "member"]
  /\ LET M == Members \cup {c}
     IN queue' = Send(Send(queue, {c}, <<Hello(session, M)>>), M, <<Presence(session, M)>>)
  /\ UNCHANGED <<session, page, up, calls>>

(* term.create: refused at the limit; otherwise every member hears of it, and
   the creator is attached unless it asks not to be.  A new id is like another,
   and the size it starts with is. *)
Create(c, attach) ==
  /\ c \in Members \cap Editors /\ Calls
  /\ Unused # {} /\ Cardinality(Listed) < MaxSessions
  /\ LET s == CHOOSE t \in Unused : TRUE
         x == [Unopened EXCEPT !.at = "live", !.attached = IF attach THEN {c} ELSE {}]
     IN /\ session' = [session EXCEPT ![s] = x]
        /\ queue' = IF attach
                    THEN Send(Send(queue, Members, <<Opened(s), Presence(session', Members)>>), {c}, <<Attached(s, x)>>)
                    ELSE Send(queue, Members, <<Opened(s)>>)
  /\ UNCHANGED <<member, page, up>>

(* term.attach, by any member. *)
Attach(c, s) ==
  /\ c \in Members /\ s \in Listed /\ Calls
  /\ session' = [session EXCEPT ![s].attached = @ \cup {c}]
  /\ queue' = Send(Send(queue, Members, <<Presence(session', Members)>>), {c}, <<Attached(s, session'[s])>>)
  /\ UNCHANGED <<member, page, up>>

(* term.detach: nobody hears of a detachment that changes nothing. *)
Detach(c, s) ==
  /\ c \in Members /\ s \in Listed /\ c \in session[s].attached /\ Calls
  /\ session' = [session EXCEPT ![s].attached = @ \ {c}]
  /\ queue' = Send(queue, Members, <<Presence(session', Members)>>)
  /\ UNCHANGED <<member, page, up>>

(* term.resize: those attached hear of a size that is new. *)
Resize(c, s, g) ==
  /\ c \in Members \cap Editors /\ s \in Listed /\ session[s].grid # g /\ Calls
  /\ session' = [session EXCEPT ![s].grid = g]
  /\ queue' = Send(queue, session[s].attached, <<Resized(s, g)>>)
  /\ UNCHANGED <<member, page, up>>

(* Mutant: SIGHUP and no more. *)
KillOnce(c, s) ==
  /\ c \in Members \cap Editors /\ s \in Listed /\ Calls
  /\ session' = [session EXCEPT ![s].told = IF @ = "kill" THEN @ ELSE "hup"]
  /\ UNCHANGED <<member, queue, page, up>>

(* term.kill: SIGHUP, and one timer for SIGKILL. *)
Kill(c, s) ==
  /\ c \in Members \cap Editors /\ s \in Listed /\ Calls
  /\ session' = [session EXCEPT ![s].told = IF @ = "kill" THEN @ ELSE "hup",
                                ![s].timer = @ \/ session[s].told = "none"]
  /\ UNCHANGED <<member, queue, page, up>>

-----------------------------------------------------------------------------
(* The sessions.                                                             *)

(* Shifts from the front while the chunks exceed the bytes and one is left. *)
Trim(chunks) ==
  LET Rest(i) == SubSeq(chunks, i, Len(chunks))
      fits == {i \in DOMAIN chunks : i = Len(chunks) \/ Bytes(Rest(i)) <= MaxBytes}
  IN  Rest(Min(fits))

(* Mutant: the newest is dropped where the oldest should be. *)
AppendOrDrop(chunks, k) == IF Bytes(Append(chunks, k)) > MaxBytes /\ chunks # <<>> THEN chunks
                           ELSE <<Chunk(IF k.to - k.from + 1 > MaxBytes THEN k.to - MaxBytes + 1 ELSE k.from, k.to)>>

(* ScrollbackBuffer.append(): a chunk that alone exceeds the bytes is cut to
   its tail and replaces everything. *)
AppendTo(chunks, k) ==
  IF k.to - k.from + 1 > MaxBytes THEN <<Chunk(k.to - MaxBytes + 1, k.to)>>
  ELSE Trim(Append(chunks, k))

(* The pseudo terminal delivers n bytes: kept, then sent to those attached. *)
PtyData(s, n) ==
  /\ Paced /\ s \in Listed /\ session[s].made + n <= MaxMade
  /\ LET k == Chunk(session[s].made + 1, session[s].made + n)
     IN /\ session' = [session EXCEPT ![s].made = @ + n, ![s].scrollback = AppendTo(@, k)]
        /\ queue' = Send(queue, session[s].attached, <<Output(s, k)>>)
  /\ UNCHANGED <<member, page, up, calls>>

(* The process ends: by itself, or killed. *)
PtyExits(s) ==
  /\ session[s].at = "live"
  /\ session' = [session EXCEPT ![s].at = "exited", ![s].attached = {}, ![s].timer = FALSE]
  /\ queue' = Send(queue, Members, <<Exited(s), Presence(session', Members)>>)
  /\ UNCHANGED <<member, page, up, calls>>

(* The grace is over. *)
KillTimer(s) ==
  /\ session[s].at = "live" /\ session[s].timer
  /\ session' = [session EXCEPT ![s].timer = FALSE, ![s].told = "kill"]
  /\ UNCHANGED <<member, queue, page, up, calls>>

(* The agent is told to stop: dispose(), then closeAll(). *)
Shutdown ==
  /\ \E c \in Clients : member[c] # "gone"
  /\ session' = [s \in Ids |-> IF session[s].at = "live"
                               THEN [session[s] EXCEPT !.at = "disposed", !.told = "kill", !.timer = FALSE, !.attached = {}]
                               ELSE session[s]]
  /\ member' = [c \in Clients |-> "gone"]
  /\ up' = {}
  /\ queue' = [c \in Clients |-> <<>>]
  /\ UNCHANGED <<page, calls>>

-----------------------------------------------------------------------------
(* The connections.                                                          *)

(* removeClient(), once the hub hears of it: detached from every session; the
   others hear of each of those, and of the departure: the same each time. *)
RemoveClient(c) ==
  /\ member[c] # "gone" /\ c \notin up
  /\ member' = [member EXCEPT ![c] = "gone"]
  /\ session' = [s \in Ids |-> [session[s] EXCEPT !.attached = @ \ {c}]]
  /\ queue' = IF member[c] = "member" THEN Send(queue, Members \ {c}, <<Presence(session', Members \ {c})>>) ELSE queue
  /\ UNCHANGED <<page, up, calls>>

(* The client leaves, or its connection breaks. *)
Drops(c) ==
  /\ c \in up
  /\ up' = up \ {c}
  /\ queue' = [queue EXCEPT ![c] = <<>>]
  /\ UNCHANGED <<session, member, page, calls>>

(* What a page makes of a message.  A screen is what was replayed, and what
   was appended; it is torn when that leaves something out. *)
Shown(x, k) == [x EXCEPT !.to = k.to, !.torn = @ \/ k.from # x.to + 1, !.from = IF x.to < x.from THEN k.from ELSE @]
Replayed(m) == [from |-> IF m.snapshot = <<>> THEN m.made + 1 ELSE m.snapshot[1].from,
                to |-> IF m.snapshot = <<>> THEN m.made ELSE m.snapshot[1].to, torn |-> FALSE, grid |-> m.grid]

Understood(p, m) ==
  CASE m.type = "hello" -> [p EXCEPT !.list = m.list, !.here = m.here]
    [] m.type = "presence" -> [p EXCEPT !.here = m.here]
    [] m.type = "opened" -> [p EXCEPT !.list = @ \cup {m.s}]
    [] m.type = "exit" -> [p EXCEPT !.list = @ \ {m.s}]
    [] m.type = "attached" -> [p EXCEPT !.screen[m.s] = Replayed(m)]
    [] m.type = "output" -> [p EXCEPT !.screen[m.s] = Shown(@, m.chunk)]
    [] m.type = "resized" -> [p EXCEPT !.screen[m.s].grid = m.grid]
    [] OTHER -> p

Receive(c) ==
  /\ queue[c] # <<>>
  /\ page' = [page EXCEPT ![c] = Understood(@, Head(queue[c]))]
  /\ queue' = [queue EXCEPT ![c] = Tail(@)]
  /\ UNCHANGED <<session, member, up, calls>>

-----------------------------------------------------------------------------

Next ==
  \/ \E c \in Clients :
       \/ Identify(c) \/ RemoveClient(c) \/ Drops(c) \/ Receive(c)
       \/ \E attach \in BOOLEAN : Create(c, attach)
       \/ \E s \in Ids :
            \/ Attach(c, s) \/ Detach(c, s) \/ Kill(c, s)
            \/ \E g \in Grids : Resize(c, s, g)
  \/ \E s \in Ids : PtyExits(s) \/ KillTimer(s) \/ \E n \in 1..MaxMade : PtyData(s, n)
  \/ Shutdown

Spec == Init /\ [][Next]_vars

(* Messages arrive, a timer fires, and a process that was sent SIGKILL ends.
   Nothing makes a process heed SIGHUP. *)
Fairness ==
  /\ \A c \in Clients : WF_vars(Receive(c))
  /\ \A s \in Ids : WF_vars(KillTimer(s)) /\ WF_vars(session[s].told = "kill" /\ PtyExits(s))

FairSpec == Spec /\ Fairness

-----------------------------------------------------------------------------
(* Properties.                                                               *)

Drained(c) == FoldLeft(Understood, page[c], queue[c])

(* A client attached to a session, once it has read what was sent to it, shows
   an unbroken run of the session's output up to its last byte, at the size the
   session has: attaching while the session writes neither skips output nor
   shows it twice, whatever was dropped from the scrollback. *)
ScreensContinue ==
  \A s \in Listed : \A c \in session[s].attached \cap up :
    LET x == Drained(c).screen[s]
    IN ~x.torn /\ x.to = session[s].made /\ x.grid = session[s].grid

(* A member that has read what was sent to it lists the sessions there are, and
   the clients there are, each with the sessions it watches. *)
PagesAgree ==
  \A c \in Members \cap up :
    Drained(c).list = Listed /\ Drained(c).here = Presence(session, Members).here

(* A session that was killed ends, also if its process ignores SIGHUP, and goes
   from the list of every page that is still connected. *)
KilledIsGone ==
  \A s \in Ids : session[s].told # "none" ~>
    session[s].at # "live" /\ \A c \in Members \cap up : s \notin page[c].list
=============================================================================
