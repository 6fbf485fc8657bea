-------------------------- MODULE ConnectionProofs --------------------------
(***************************************************************************)
(* Theorems about Connection, for any processes, any number of sockets and *)
(* any bounds: the process of a connection that is gone was told to stop,  *)
(* and the agent handles a client's frames in the order they were sent.    *)
(***************************************************************************)
EXTENDS Connection, TLAPS, SequenceTheorems

-----------------------------------------------------------------------------
(* What there is: connections are records, frames are messages. *)

Frames == {Identify, Gone, Hello} \cup {Ask(r) : r \in Requests} \cup {Reply(r) : r \in Requests}
          \cup {Refusal(r) : r \in Requests} \cup {Output(r, n) : r \in Requests, n \in Nat}
          \cup {Exited(r) : r \in Requests}

ConnStates == [client : {"none", "connecting", "open", "closed"},
               bridge : {"none", "verifying", "dialing", "open", "over"},
               gone : BOOLEAN, hub : {"none", "new", "member", "removed"},
               inbox : Seq(Frames), pending : Seq(Frames), feed : Seq(Frames), out : Seq(Frames),
               sent : Seq(Requests), handled : Seq(Requests), dropped : BOOLEAN]

ProcStates == [at : {"none", "starting", "running", "ended", "finished"}, owner : 0..MaxSockets,
               told : BOOLEAN, signalled : BOOLEAN, written : Nat, read : Nat]

ClientStates == [state : {"connecting", "open", "reconnecting", "closed"}, sock : 0..MaxSockets,
                 opened : 0..MaxSockets, step : {"resolving", "waiting", "none"}, hello : BOOLEAN]

Typed ==
  /\ conn \in [Sockets -> ConnStates] /\ proc \in [Execs -> ProcStates] /\ client \in ClientStates

(* A bridge that has no upstream has made no member of the hub, and a socket
   that is not opened has no bridge. *)
NoUpstream == {"none", "verifying", "dialing"}
NotYetThere ==
  \A c \in Sockets :
    /\ conn[c].bridge \in NoUpstream => conn[c].hub = "none"
    /\ c > client.opened => conn[c].bridge = "none"

Owned == \A e \in Execs : proc[e].at # "none" => proc[e].owner \in Sockets

CInv == Typed /\ NotYetThere /\ Owned /\ NoOwnerless

LEMMA FramesThere ==
  /\ Identify \in Frames /\ Gone \in Frames /\ Hello \in Frames
  /\ \A r \in Requests : Ask(r) \in Frames /\ Reply(r) \in Frames /\ Refusal(r) \in Frames /\ Exited(r) \in Frames
  /\ \A r \in Requests, n \in Nat : Output(r, n) \in Frames
BY DEF Frames

LEMMA CInitially == Init => CInv
<1> SUFFICES ASSUME Init PROVE CInv
  OBVIOUS
<1>1. Fresh \in ConnStates /\ Fresh.bridge = "none" /\ Fresh.hub = "none"
  BY DEF Fresh, ConnStates
<1>2. \A c \in Sockets : conn[c] = Fresh
  BY DEF Init
<1>3. conn \in [Sockets -> ConnStates]
  BY <1>1 DEF Init
<1>4. proc \in [Execs -> ProcStates] /\ \A e \in Execs : proc[e].at = "none"
  BY ConnectionAssumption DEF Init, ProcStates, NoSocket
<1>5. client \in ClientStates
  BY ConnectionAssumption DEF Init, ClientStates, NoSocket
<1> QED BY <1>1, <1>2, <1>3, <1>4, <1>5 DEF CInv, Typed, NotYetThere, NoUpstream, Owned, NoOwnerless

-----------------------------------------------------------------------------
(* What the helpers give back: a connection, whose hub and bridge only they
   change that are there to change them. *)

LEMMA SequencesThere ==
  /\ <<>> \in Seq(Frames)
  /\ \A q \in Seq(Frames), m \in Frames : Append(q, m) \in Seq(Frames) /\ q \o <<m>> \in Seq(Frames)
  /\ \A m \in Frames : <<m>> \in Seq(Frames)
  /\ \A q \in Seq(Frames) : q # <<>> => Head(q) \in Frames /\ Tail(q) \in Seq(Frames)
  /\ \A q, p \in Seq(Frames) : q \o p \in Seq(Frames)
<1>1. \A m \in Frames : <<m>> \in Seq(Frames)
  OBVIOUS
<1>2. \A q \in Seq(Frames) : q # <<>> => Head(q) \in Frames /\ Tail(q) \in Seq(Frames)
  OBVIOUS
<1>3. \A q, p \in Seq(Frames) : q \o p \in Seq(Frames)
  OBVIOUS
<1>4. \A q \in Seq(Frames), m \in Frames : Append(q, m) \in Seq(Frames)
  OBVIOUS
<1>5. <<>> \in Seq(Frames)
  OBVIOUS
<1> HIDE DEF Frames
<1> QED BY <1>1, <1>2, <1>3, <1>4, <1>5

LEMMA ToClientKeeps ==
  ASSUME NEW k \in ConnStates, NEW m \in Frames
  PROVE  ToClient(k, m) \in ConnStates /\ ToClient(k, m).hub = k.hub /\ ToClient(k, m).bridge = k.bridge
<1>1. Append(k.out, m) \in Seq(Frames)
  BY SequencesThere DEF ConnStates
<1> DEFINE new == [k EXCEPT !.out = Append(@, m)]
<1>2. new \in ConnStates /\ new.hub = k.hub /\ new.bridge = k.bridge
  BY <1>1 DEF ConnStates
<1> QED BY <1>2 DEF ToClient

LEMMA ToAgentKeeps ==
  ASSUME NEW k \in ConnStates, NEW m \in Frames
  PROVE  ToAgent(k, m) \in ConnStates /\ ToAgent(k, m).hub = k.hub /\ ToAgent(k, m).bridge = k.bridge
<1>1. Append(k.feed, m) \in Seq(Frames)
  BY SequencesThere DEF ConnStates
<1> DEFINE new == [k EXCEPT !.feed = Append(@, m)]
<1>2. new \in ConnStates /\ new.hub = k.hub /\ new.bridge = k.bridge
  BY <1>1 DEF ConnStates
<1> QED BY <1>2 DEF ToAgent

LEMMA ClosedByKeeps ==
  ASSUME NEW k \in ConnStates
  PROVE  ClosedBy(k) \in ConnStates /\ ClosedBy(k).hub = k.hub /\ ClosedBy(k).bridge = k.bridge
<1> DEFINE rest == IF k.gone \/ Contains(k.inbox, Gone) THEN k.inbox ELSE Append(k.inbox, Gone)
<1>1. rest \in Seq(Frames)
  BY FramesThere, SequencesThere DEF ConnStates
<1>2. ClosedBy(k) = [k EXCEPT !.client = "closed", !.out = <<>>, !.inbox = rest]
  BY DEF ClosedBy
<1> HIDE DEF rest
<1> QED BY <1>1, <1>2, SequencesThere DEF ConnStates

LEMMA ForwardKeeps ==
  ASSUME NEW k \in ConnStates, NEW m \in Frames
  PROVE  Forward(k, m) \in ConnStates /\ Forward(k, m).hub = k.hub /\ Forward(k, m).bridge = k.bridge
<1> DEFINE sent == ToClient(k, Gone)
           dropped == [sent EXCEPT !.dropped = TRUE]
           heldBack == [k EXCEPT !.pending = Append(@, m)]
<1>1. sent \in ConnStates /\ sent.hub = k.hub /\ sent.bridge = k.bridge
  BY ToClientKeeps, FramesThere
<1>2. dropped \in ConnStates /\ dropped.hub = k.hub /\ dropped.bridge = k.bridge
  <2> HIDE DEF sent
  <2> QED BY <1>1 DEF ConnStates
<1>3. Append(k.pending, m) \in Seq(Frames)
  BY SequencesThere DEF ConnStates
<1>4. heldBack \in ConnStates /\ heldBack.hub = k.hub /\ heldBack.bridge = k.bridge
  BY <1>3 DEF ConnStates
<1>5. Forward(k, m) \in {ToAgent(k, m), heldBack, dropped, k}
  BY DEF Forward
<1> HIDE DEF sent, dropped, heldBack
<1> QED BY <1>2, <1>4, <1>5, ToAgentKeeps

LEMMA LeavesKeeps ==
  ASSUME NEW k \in ConnStates
  PROVE  Leaves(k) \in ConnStates /\ Leaves(k).hub = k.hub
         /\ (Leaves(k).bridge = k.bridge \/ (Leaves(k).bridge = "over" /\ k.bridge # "none"))
<1> DEFINE told == ToAgent(k, Gone)
           closed == [told EXCEPT !.gone = TRUE, !.bridge = "over"]
           undialled == [k EXCEPT !.gone = TRUE, !.bridge = "over"]
           noted == [k EXCEPT !.gone = TRUE]
<1>1. told \in ConnStates /\ told.hub = k.hub
  BY ToAgentKeeps, FramesThere
<1>2. closed \in ConnStates /\ closed.hub = k.hub /\ closed.bridge = "over"
  <2> HIDE DEF told
  <2> QED BY <1>1 DEF ConnStates
<1>3. /\ undialled \in ConnStates /\ undialled.hub = k.hub /\ undialled.bridge = "over"
      /\ noted \in ConnStates /\ noted.hub = k.hub /\ noted.bridge = k.bridge
  BY DEF ConnStates
<1>4. Leaves(k) = noted \/ (Leaves(k) \in {closed, undialled} /\ k.bridge # "none")
  BY DEF Leaves
<1> HIDE DEF told, closed, undialled, noted
<1> QED BY <1>2, <1>3, <1>4

LEMMA TurnedAwayKeeps ==
  ASSUME NEW k \in ConnStates
  PROVE  /\ Removed(k) \in ConnStates /\ Removed(k).hub = "removed" /\ Removed(k).bridge = k.bridge
         /\ TurnedAway(k) \in ConnStates /\ TurnedAway(k).hub = "removed" /\ TurnedAway(k).bridge = "over"
<1>1. Removed(k) \in ConnStates /\ Removed(k).hub = "removed" /\ Removed(k).bridge = k.bridge
  BY SequencesThere DEF Removed, ConnStates
<1> DEFINE told == ToClient(Removed(k), Gone)
<1>2. told \in ConnStates /\ told.hub = "removed"
  BY <1>1, ToClientKeeps, FramesThere
<1>3. TurnedAway(k) = [told EXCEPT !.bridge = "over"]
  BY DEF TurnedAway
<1> HIDE DEF told
<1> QED BY <1>1, <1>2, <1>3 DEF ConnStates

-----------------------------------------------------------------------------
(* Steps that take no member from the hub, and start no process. *)

Tame(k, l) ==
  /\ k.hub = "member" => l.hub = "member"
  /\ k.bridge = "none" => l.bridge = "none"
  /\ l.bridge \in NoUpstream => k.bridge \in NoUpstream /\ l.hub = k.hub

Calm(p, q) ==
  /\ q.at # "none" => q.owner \in Sockets
  /\ q.at = "running" => p.at = "running" /\ q.owner = p.owner /\ (p.signalled => q.signalled)

LEMMA TameKeeps ==
  ASSUME CInv, Typed', client'.opened = client.opened,
         \A c \in Sockets : Tame(conn[c], conn'[c]), \A e \in Execs : Calm(proc[e], proc'[e])
  PROVE  CInv'
<1>1. NotYetThere'
  BY DEF CInv, NotYetThere, Tame
<1>2. Owned'
  BY DEF Owned, Calm
<1>3. NoOwnerless'
  <2> SUFFICES ASSUME NEW e \in Execs, proc'[e].at = "running", conn'[proc'[e].owner].hub # "member"
               PROVE  proc'[e].signalled
    BY DEF NoOwnerless
  <2>1. proc[e].at = "running" /\ proc'[e].owner = proc[e].owner /\ proc[e].owner \in Sockets
    BY DEF Calm
  <2>2. conn[proc[e].owner].hub # "member"
    BY <2>1 DEF Tame
  <2> QED BY <2>1, <2>2 DEF CInv, NoOwnerless, Calm
<1> QED BY <1>1, <1>2, <1>3 DEF CInv

(* The processes are left alone, and one connection changes, or none. *)
LEMMA ConnKeeps ==
  ASSUME CInv, client' \in ClientStates, client'.opened = client.opened, proc' = proc,
         NEW c \in Sockets, NEW k \in ConnStates, Tame(conn[c], k), conn' = [conn EXCEPT ![c] = k]
  PROVE  CInv'
<1>1. Typed'
  BY DEF CInv, Typed
<1>2. \A d \in Sockets : Tame(conn[d], conn'[d])
  BY DEF CInv, Typed, Tame
<1>3. \A e \in Execs : Calm(proc[e], proc'[e])
  BY DEF CInv, Owned, Calm
<1> QED BY <1>1, <1>2, <1>3, TameKeeps

LEMMA ClientKeeps ==
  ASSUME CInv, client' \in ClientStates, client'.opened = client.opened, UNCHANGED <<conn, proc>>
  PROVE  CInv'
BY DEF CInv, Typed, NotYetThere, Owned, NoOwnerless

-----------------------------------------------------------------------------
(* The steps of the client. *)

LEMMA UrlResolvedKeeps == ASSUME CInv, UrlResolved PROVE CInv'
<1>1. client \in ClientStates /\ client.opened < MaxSockets
  BY DEF CInv, Typed, UrlResolved
<1>2. CASE client.state = "closed"
  <2>1. client' \in ClientStates /\ client'.opened = client.opened /\ UNCHANGED <<conn, proc>>
    BY <1>1, <1>2 DEF UrlResolved, ClientStates
  <2> QED BY <2>1, ClientKeeps
<1>3. CASE client.state # "closed"
  <2> DEFINE c == client.opened + 1
             k == [conn[c] EXCEPT !.client = "connecting", !.bridge = "verifying"]
  <2>1. c \in Sockets /\ c > client.opened
    BY <1>1, ConnectionAssumption DEF Sockets, ClientStates
  <2>2. conn[c].bridge = "none" /\ conn[c].hub = "none" /\ conn[c] \in ConnStates
    BY <2>1 DEF CInv, Typed, NotYetThere, NoUpstream
  <2>3. k \in ConnStates /\ k.hub = "none" /\ k.bridge = "verifying"
    BY <2>2 DEF ConnStates
  <2>4. client' = [client EXCEPT !.step = "none", !.sock = c, !.opened = c]
    BY <1>3 DEF UrlResolved
  <2>5. conn' = [conn EXCEPT ![c] = k] /\ proc' = proc
    BY <1>3, <2>1 DEF UrlResolved, CInv, Typed
  <2>6. c \in Nat /\ c \in 0..MaxSockets
    BY <2>1, ConnectionAssumption DEF Sockets
  <2> HIDE DEF c, k
  <2>9. client' \in ClientStates /\ client'.opened = c
    BY <1>1, <2>4, <2>6 DEF ClientStates
  <2>7. Typed'
    BY <2>1, <2>3, <2>5, <2>9 DEF CInv, Typed
  <2>8. NotYetThere'
    BY <2>1, <2>3, <2>5, <2>6, <2>9, <1>1 DEF CInv, Typed, NotYetThere, NoUpstream, Sockets, ClientStates
  <2> QED BY <2>2, <2>3, <2>5, <2>7, <2>8 DEF CInv, Typed, Owned, NoOwnerless
<1> QED BY <1>2, <1>3

LEMMA CloseKeeps == ASSUME CInv, Close PROVE CInv'
<1>0. client \in ClientStates /\ proc' = proc
  BY DEF CInv, Typed, Close
<1> DEFINE step == IF client.step = "waiting" THEN "none" ELSE client.step
<1>6. client' = [client EXCEPT !.state = "closed", !.sock = NoSocket, !.hello = FALSE, !.step = step]
  BY DEF Close
<1>7. step \in {"resolving", "waiting", "none"} /\ NoSocket \in 0..MaxSockets
  BY <1>0, ConnectionAssumption DEF ClientStates, NoSocket
<1> HIDE DEF step
<1>1. client' \in ClientStates /\ client'.opened = client.opened /\ proc' = proc
  BY <1>0, <1>6, <1>7 DEF ClientStates
<1>2. conn' = [c \in Sockets |-> IF c = client.sock THEN ClosedBy(conn[c]) ELSE conn[c]]
  BY DEF Close
<1>3. \A c \in Sockets : conn'[c] \in ConnStates /\ Tame(conn[c], conn'[c])
  BY <1>2, ClosedByKeeps DEF CInv, Typed, Tame
<1>4. Typed'
  BY <1>1, <1>2, <1>3 DEF CInv, Typed
<1>5. \A e \in Execs : Calm(proc[e], proc'[e])
  BY <1>1 DEF CInv, Owned, Calm
<1> QED BY <1>1, <1>3, <1>4, <1>5, TameKeeps

LEMMA RequestKeeps == ASSUME CInv, NEW r \in Requests, Request(r) PROVE CInv'
<1>1. client' \in ClientStates /\ client'.opened = client.opened /\ proc' = proc
  BY DEF Request, CInv, Typed
<1>2. CASE client.state = "open" /\ client.sock \in Sockets
  <2> DEFINE c == client.sock
             k == [conn[c] EXCEPT !.inbox = Append(@, Ask(r)), !.sent = Append(@, r)]
  <2>1. conn[c] \in ConnStates
    BY <1>2 DEF CInv, Typed
  <2>2. Append(conn[c].inbox, Ask(r)) \in Seq(Frames) /\ Append(conn[c].sent, r) \in Seq(Requests)
    BY <2>1, FramesThere, SequencesThere DEF ConnStates
  <2>3. k \in ConnStates /\ k.hub = conn[c].hub /\ k.bridge = conn[c].bridge
    BY <2>1, <2>2 DEF ConnStates
  <2>4. conn' = [conn EXCEPT ![c] = k]
    BY <1>2 DEF Request, CInv, Typed
  <2>5. Tame(conn[c], k)
    BY <2>3 DEF Tame
  <2> HIDE DEF k
  <2> QED BY <1>1, <1>2, <2>3, <2>4, <2>5, ConnKeeps
<1>3. CASE ~(client.state = "open" /\ client.sock \in Sockets)
  <2>1. conn' = conn
    BY <1>3 DEF Request, CInv, Typed
  <2> QED BY <1>1, <2>1, ClientKeeps
<1> QED BY <1>2, <1>3

(* What a connection becomes when its client's socket opens, closes, delivers or breaks. *)
LEMMA SocketKeeps ==
  ASSUME CInv, NEW c \in Sockets, SocketOpens(c) \/ SocketCloses(c) \/ Receive(c) \/ ClientBreaks(c)
  PROVE  CInv'
<1>0. conn[c] \in ConnStates /\ conn[c].out \in Seq(Frames) /\ conn[c].inbox \in Seq(Frames)
  BY DEF CInv, Typed, ConnStates
<1> DEFINE Keeps == client' \in ClientStates /\ client'.opened = client.opened /\ proc' = proc
<1>1. client \in ClientStates /\ NoSocket \in 0..MaxSockets
  BY ConnectionAssumption DEF CInv, Typed, NoSocket
<1>2. CASE SocketOpens(c)
  <2>0. Keeps
    BY <1>1, <1>2 DEF SocketOpens, ClientStates
  <2> DEFINE k == [conn[c] EXCEPT !.client = "open"]
  <2>1. k \in ConnStates /\ Tame(conn[c], k)
    BY <1>0 DEF ConnStates, Tame
  <2>2. conn' = [conn EXCEPT ![c] = k]
    BY <1>2 DEF SocketOpens
  <2> HIDE DEF k
  <2> QED BY <2>0, <2>1, <2>2, ConnKeeps
<1>3. CASE SocketCloses(c)
  <2>0. Keeps
    BY <1>1, <1>3 DEF SocketCloses, ClientStates
  <2>1. ClosedBy(conn[c]) \in ConnStates /\ Tame(conn[c], ClosedBy(conn[c]))
    BY <1>0, ClosedByKeeps DEF Tame
  <2>2. conn' = [conn EXCEPT ![c] = ClosedBy(conn[c])]
    BY <1>3 DEF SocketCloses
  <2> QED BY <2>0, <2>1, <2>2, ConnKeeps
<1>4. CASE Receive(c)
  <2> DEFINE hello == client.hello \/ Head(conn[c].out) = Hello
  <2>8. client' = [client EXCEPT !.hello = hello] /\ proc' = proc /\ conn[c].out # <<>>
    BY <1>4 DEF Receive
  <2>9. hello \in BOOLEAN
    OBVIOUS
  <2>0. Keeps
    <3> HIDE DEF hello
    <3> QED BY <1>1, <2>8, <2>9 DEF ClientStates
  <2> DEFINE k == [conn[c] EXCEPT !.out = Tail(@)]
  <2>1. Tail(conn[c].out) \in Seq(Frames)
    BY <1>0, <2>8, SequencesThere
  <2>2. k \in ConnStates /\ Tame(conn[c], k)
    BY <1>0, <2>1 DEF ConnStates, Tame
  <2>3. conn' = [conn EXCEPT ![c] = k]
    BY <1>4 DEF Receive
  <2> HIDE DEF k
  <2> QED BY <2>0, <2>2, <2>3, ConnKeeps
<1>5. CASE ClientBreaks(c)
  <2>0. Keeps
    BY <1>1, <1>5 DEF ClientBreaks, ClientStates
  <2>1. PICK i \in Truncated(conn[c].inbox), o \in Truncated(conn[c].out) :
          conn' = [conn EXCEPT ![c].inbox = i, ![c].out = o]
    BY <1>5 DEF ClientBreaks
  <2>2. i \in Seq(Frames) /\ o \in Seq(Frames)
    BY <1>0, FramesThere, SequencesThere DEF Truncated
  <2> DEFINE k == [conn[c] EXCEPT !.inbox = i, !.out = o]
  <2>3. k \in ConnStates /\ Tame(conn[c], k)
    BY <1>0, <2>2 DEF ConnStates, Tame
  <2>4. conn' = [conn EXCEPT ![c] = k]
    BY <2>1 DEF CInv, Typed
  <2> HIDE DEF k
  <2> QED BY <2>0, <2>3, <2>4, ConnKeeps
<1> QED BY <1>2, <1>3, <1>4, <1>5

-----------------------------------------------------------------------------
(* The steps of the bridge. *)

LEMMA BridgeKeeps ==
  ASSUME CInv, NEW c \in Sockets,
         FromClient(c) \/ Resolves(c) \/ Rejects(c) \/ AgentRefuses(c) \/ UpstreamOpens(c)
  PROVE  CInv'
<1>0. conn[c] \in ConnStates /\ conn[c].inbox \in Seq(Frames) /\ conn[c].pending \in Seq(Frames)
      /\ (conn[c].bridge \in NoUpstream => conn[c].hub = "none")
  BY DEF CInv, Typed, ConnStates, NotYetThere
<1>1. client' \in ClientStates /\ client'.opened = client.opened /\ proc' = proc
  BY DEF FromClient, Resolves, Rejects, AgentRefuses, UpstreamOpens, CInv, Typed
<1>2. CASE FromClient(c)
  <2> DEFINE m == Head(conn[c].inbox)
             k == [conn[c] EXCEPT !.inbox = Tail(@)]
             l == IF m = Gone THEN Leaves(k) ELSE Forward(k, m)
  <2>1. m \in Frames /\ Tail(conn[c].inbox) \in Seq(Frames)
    BY <1>0, <1>2, SequencesThere DEF FromClient
  <2>2. k \in ConnStates /\ k.hub = conn[c].hub /\ k.bridge = conn[c].bridge
    BY <1>0, <2>1 DEF ConnStates
  <2>3. conn' = [conn EXCEPT ![c] = l]
    BY <1>2 DEF FromClient
  <2> HIDE DEF m, k
  <2>4. l \in ConnStates /\ l.hub = k.hub
        /\ (l.bridge = k.bridge \/ (l.bridge = "over" /\ k.bridge # "none"))
    BY <2>1, <2>2, LeavesKeeps, ForwardKeeps
  <2>5. Tame(conn[c], l)
    BY <2>2, <2>4 DEF Tame, NoUpstream
  <2> HIDE DEF l
  <2> QED BY <1>1, <2>3, <2>4, <2>5, ConnKeeps
<1>3. CASE Resolves(c)
  <2> DEFINE b == IF conn[c].gone \/ (conn[c].out # <<>> /\ Last(conn[c].out) = Gone) THEN "over" ELSE "dialing"
             k == [conn[c] EXCEPT !.bridge = b]
  <2>1. conn' = [conn EXCEPT ![c] = k] /\ conn[c].bridge = "verifying"
    BY <1>3 DEF Resolves, CInv, Typed
  <2>2. b \in {"over", "dialing"}
    OBVIOUS
  <2> HIDE DEF b
  <2>3. k \in ConnStates /\ k.hub = conn[c].hub /\ k.bridge = b
    BY <1>0, <2>2 DEF ConnStates
  <2>4. Tame(conn[c], k)
    BY <2>1, <2>2, <2>3 DEF Tame, NoUpstream
  <2> HIDE DEF k
  <2> QED BY <1>1, <2>1, <2>3, <2>4, ConnKeeps
<1>4. CASE Rejects(c) \/ AgentRefuses(c)
  <2> DEFINE told == ToClient(conn[c], Gone)
             k == [told EXCEPT !.bridge = "over"]
  <2>1. told \in ConnStates /\ told.hub = conn[c].hub
    BY <1>0, ToClientKeeps, FramesThere
  <2>2. conn' = [conn EXCEPT ![c] = k] /\ conn[c].bridge # "none"
    BY <1>4 DEF Rejects, AgentRefuses
  <2> HIDE DEF told
  <2>3. k \in ConnStates /\ k.hub = conn[c].hub /\ k.bridge = "over"
    BY <2>1 DEF ConnStates
  <2>4. Tame(conn[c], k)
    BY <2>2, <2>3 DEF Tame, NoUpstream
  <2> HIDE DEF k
  <2> QED BY <1>1, <2>2, <2>3, <2>4, ConnKeeps
<1>5. CASE UpstreamOpens(c)
  <2> DEFINE feed == <<Identify>> \o conn[c].pending
             k == [conn[c] EXCEPT !.bridge = "open", !.hub = "new", !.feed = feed, !.pending = <<>>]
  <2>1. feed \in Seq(Frames) /\ <<>> \in Seq(Frames)
    BY <1>0, FramesThere, SequencesThere
  <2>2. conn' = [conn EXCEPT ![c] = k] /\ conn[c].bridge = "dialing"
    BY <1>5 DEF UpstreamOpens, CInv, Typed
  <2> HIDE DEF feed
  <2>3. k \in ConnStates /\ k.hub = "new" /\ k.bridge = "open"
    BY <1>0, <2>1 DEF ConnStates
  <2>4. Tame(conn[c], k)
    BY <1>0, <2>2, <2>3 DEF Tame, NoUpstream
  <2> HIDE DEF k
  <2> QED BY <1>1, <2>2, <2>3, <2>4, ConnKeeps
<1> QED BY <1>2, <1>3, <1>4, <1>5

-----------------------------------------------------------------------------
(* A member that leaves the hub: its processes are told to stop. *)

LEMMA RemovedKeeps ==
  ASSUME CInv, client' = client, NEW c \in Sockets, NEW k \in ConnStates, conn[c].hub \in {"new", "member"},
         k.hub = "removed", k.bridge = conn[c].bridge \/ k.bridge = "over",
         conn' = [conn EXCEPT ![c] = k], proc' = Orphaned(c)
  PROVE  CInv'
<1>1. \A e \in Execs : /\ proc'[e] \in ProcStates /\ proc'[e].at = proc[e].at /\ proc'[e].owner = proc[e].owner
                       /\ proc[e].signalled => proc'[e].signalled
                       /\ proc[e].owner = c /\ proc[e].at = "running" => proc'[e].signalled
  <2> SUFFICES ASSUME NEW e \in Execs
               PROVE  /\ proc'[e] \in ProcStates /\ proc'[e].at = proc[e].at /\ proc'[e].owner = proc[e].owner
                      /\ proc[e].signalled => proc'[e].signalled
                      /\ proc[e].owner = c /\ proc[e].at = "running" => proc'[e].signalled
    OBVIOUS
  <2> DEFINE q == [proc[e] EXCEPT !.signalled = TRUE]
  <2>1. proc[e] \in ProcStates
    BY DEF CInv, Typed
  <2>2. q \in ProcStates /\ q.at = proc[e].at /\ q.owner = proc[e].owner /\ q.signalled
    BY <2>1 DEF ProcStates
  <2>3. proc'[e] = IF proc[e].owner = c /\ proc[e].at = "running" THEN q ELSE proc[e]
    BY DEF Orphaned
  <2> HIDE DEF q
  <2> QED BY <2>1, <2>2, <2>3
<1>2. proc' = [e \in Execs |-> proc'[e]]
  BY DEF Orphaned
<1>3. Typed'
  BY <1>1, <1>2 DEF CInv, Typed
<1>4. NotYetThere'
  BY DEF CInv, Typed, NotYetThere, NoUpstream
<1>5. Owned'
  BY <1>1 DEF CInv, Owned
<1>6. NoOwnerless'
  <2> SUFFICES ASSUME NEW e \in Execs, proc'[e].at = "running", conn'[proc'[e].owner].hub # "member"
               PROVE  proc'[e].signalled
    BY DEF NoOwnerless
  <2>1. CASE proc[e].owner = c
    BY <1>1, <2>1
  <2>2. CASE proc[e].owner # c
    <3>1. proc[e].at = "running" /\ proc[e].owner \in Sockets
      BY <1>1 DEF CInv, Owned
    <3>2. conn[proc[e].owner].hub # "member"
      BY <1>1, <2>2, <3>1 DEF CInv, Typed
    <3> QED BY <1>1, <3>1, <3>2 DEF CInv, NoOwnerless
  <2> QED BY <2>1, <2>2
<1> QED BY <1>3, <1>4, <1>5, <1>6 DEF CInv

LEMMA HubReceivesKeeps == ASSUME CInv, NEW c \in Sockets, HubReceives(c) PROVE CInv'
<1> DEFINE m == Head(conn[c].feed)
           k == [conn[c] EXCEPT !.feed = Tail(@)]
<1>0. conn[c] \in ConnStates /\ conn[c].feed \in Seq(Frames) /\ conn[c].handled \in Seq(Requests)
  BY DEF CInv, Typed, ConnStates
<1>1. m \in Frames /\ Tail(conn[c].feed) \in Seq(Frames)
  BY <1>0, SequencesThere DEF HubReceives
<1>2. k \in ConnStates /\ k.hub = conn[c].hub /\ k.bridge = conn[c].bridge /\ k.handled = conn[c].handled
  BY <1>0, <1>1 DEF ConnStates
<1>3. conn[c].hub \in {"new", "member"} /\ conn[c].bridge \notin NoUpstream /\ client' = client
  BY DEF HubReceives, CInv, NotYetThere
<1>4. client \in ClientStates /\ proc \in [Execs -> ProcStates]
  BY DEF CInv, Typed
<1>5. \/ m = Gone /\ conn' = [conn EXCEPT ![c] = Removed(k)] /\ proc' = Orphaned(c)
      \/ conn' = [conn EXCEPT ![c] = [ToClient(k, Hello) EXCEPT !.hub = "member"]] /\ UNCHANGED proc
      \/ k.hub = "new" /\ conn' = [conn EXCEPT ![c] = TurnedAway(k)] /\ UNCHANGED proc
      \/ /\ m.r \in Pings
         /\ conn' = [conn EXCEPT ![c] = [ToClient(k, Reply(m.r)) EXCEPT !.handled = Append(@, m.r)]]
         /\ UNCHANGED proc
      \/ /\ m.r \in Execs /\ conn' = [conn EXCEPT ![c] = [k EXCEPT !.handled = Append(@, m.r)]]
         /\ proc' = [proc EXCEPT ![m.r].at = "starting", ![m.r].owner = c]
  BY DEF HubReceives
<1> HIDE DEF m, k
<1>6. CASE m = Gone /\ conn' = [conn EXCEPT ![c] = Removed(k)] /\ proc' = Orphaned(c)
  BY <1>2, <1>3, <1>6, TurnedAwayKeeps, RemovedKeeps
<1>7. CASE conn' = [conn EXCEPT ![c] = [ToClient(k, Hello) EXCEPT !.hub = "member"]] /\ UNCHANGED proc
  <2> DEFINE told == ToClient(k, Hello)
             l == [told EXCEPT !.hub = "member"]
  <2>1. told \in ConnStates /\ told.bridge = k.bridge
    BY <1>2, ToClientKeeps, FramesThere
  <2> HIDE DEF told
  <2>2. l \in ConnStates /\ l.hub = "member" /\ l.bridge = conn[c].bridge
    BY <1>2, <2>1 DEF ConnStates
  <2>3. Tame(conn[c], l)
    BY <1>3, <2>2 DEF Tame
  <2>4. conn' = [conn EXCEPT ![c] = l]
    BY <1>7 DEF told
  <2> HIDE DEF l
  <2> QED BY <1>3, <1>4, <1>7, <2>2, <2>3, <2>4, ConnKeeps
<1>8. CASE k.hub = "new" /\ conn' = [conn EXCEPT ![c] = TurnedAway(k)] /\ UNCHANGED proc
  <2>1. TurnedAway(k) \in ConnStates /\ TurnedAway(k).bridge = "over"
    BY <1>2, TurnedAwayKeeps
  <2>2. Tame(conn[c], TurnedAway(k))
    BY <1>2, <1>3, <1>8, <2>1 DEF Tame, NoUpstream
  <2> QED BY <1>3, <1>4, <1>8, <2>1, <2>2, ConnKeeps
<1>9. CASE /\ m.r \in Pings
           /\ conn' = [conn EXCEPT ![c] = [ToClient(k, Reply(m.r)) EXCEPT !.handled = Append(@, m.r)]]
           /\ UNCHANGED proc
  <2> DEFINE told == ToClient(k, Reply(m.r))
             l == [told EXCEPT !.handled = Append(@, m.r)]
  <2>1. m.r \in Requests
    BY <1>9 DEF Requests
  <2>2. told \in ConnStates /\ told.bridge = k.bridge /\ told.hub = k.hub
    BY <1>2, <2>1, ToClientKeeps, FramesThere
  <2>3. conn' = [conn EXCEPT ![c] = l]
    BY <1>9
  <2> HIDE DEF told
  <2>4. Append(told.handled, m.r) \in Seq(Requests)
    BY <2>1, <2>2 DEF ConnStates
  <2>5. l \in ConnStates /\ l.hub = conn[c].hub /\ l.bridge = conn[c].bridge
    BY <1>2, <2>2, <2>4 DEF ConnStates
  <2>6. Tame(conn[c], l)
    BY <2>5 DEF Tame
  <2> HIDE DEF l
  <2> QED BY <1>3, <1>4, <1>9, <2>3, <2>5, <2>6, ConnKeeps
<1>10. CASE /\ m.r \in Execs /\ conn' = [conn EXCEPT ![c] = [k EXCEPT !.handled = Append(@, m.r)]]
            /\ proc' = [proc EXCEPT ![m.r].at = "starting", ![m.r].owner = c]
  <2> DEFINE l == [k EXCEPT !.handled = Append(@, m.r)]
             e == m.r
             q == [proc[e] EXCEPT !.at = "starting", !.owner = c]
  <2>1. Append(k.handled, m.r) \in Seq(Requests)
    BY <1>0, <1>2, <1>10 DEF Requests
  <2>2. l \in ConnStates /\ l.hub = conn[c].hub /\ l.bridge = conn[c].bridge
    BY <1>2, <2>1 DEF ConnStates
  <2>3. conn' = [conn EXCEPT ![c] = l] /\ e \in Execs /\ proc' = [proc EXCEPT ![e] = q]
    BY <1>4, <1>10
  <2> HIDE DEF e, l
  <2>4. c \in 0..MaxSockets /\ proc[e] \in ProcStates
    BY <1>4, <2>3, ConnectionAssumption DEF Sockets
  <2>5. q \in ProcStates /\ q.at = "starting" /\ q.owner = c
    BY <2>4 DEF ProcStates
  <2> HIDE DEF q
  <2>6. Typed'
    BY <1>3, <1>4, <2>2, <2>3, <2>5 DEF CInv, Typed
  <2>7. \A d \in Sockets : Tame(conn[d], conn'[d])
    BY <2>2, <2>3 DEF CInv, Typed, Tame
  <2>8. \A d \in Execs : Calm(proc[d], proc'[d])
    BY <1>4, <2>3, <2>5 DEF CInv, Owned, Calm
  <2> QED BY <1>3, <2>6, <2>7, <2>8, TameKeeps
<1> QED BY <1>5, <1>6, <1>7, <1>8, <1>9, <1>10

LEMMA HubClosesKeeps == ASSUME CInv, NEW c \in Sockets, HubCloses(c) PROVE CInv'
<1>1. conn[c] \in ConnStates
  BY DEF CInv, Typed
<1> QED BY <1>1, TurnedAwayKeeps, RemovedKeeps DEF HubCloses

LEMMA AgentStopsKeeps == ASSUME CInv, AgentStops PROVE CInv'
<1>1. \A c \in Sockets : /\ conn'[c] \in ConnStates
                         /\ conn'[c] = conn[c] \/ (conn'[c].bridge = "over" /\ conn[c].hub # "none")
  BY TurnedAwayKeeps DEF AgentStops, CInv, Typed
<1>2. \A e \in Execs : /\ proc'[e] \in ProcStates /\ proc'[e].owner = proc[e].owner
                       /\ proc[e].owner # NoSocket => proc'[e].at = "finished"
                       /\ proc[e].owner = NoSocket => proc'[e].at = proc[e].at
  <2> SUFFICES ASSUME NEW e \in Execs
               PROVE  /\ proc'[e] \in ProcStates /\ proc'[e].owner = proc[e].owner
                      /\ proc[e].owner # NoSocket => proc'[e].at = "finished"
                      /\ proc[e].owner = NoSocket => proc'[e].at = proc[e].at
    OBVIOUS
  <2> DEFINE q == [proc[e] EXCEPT !.at = "finished", !.told = TRUE]
  <2>1. proc[e] \in ProcStates
    BY DEF CInv, Typed
  <2>2. q \in ProcStates /\ q.at = "finished" /\ q.owner = proc[e].owner
    BY <2>1 DEF ProcStates
  <2>3. proc'[e] = IF proc[e].owner # NoSocket THEN q ELSE proc[e]
    BY DEF AgentStops
  <2> HIDE DEF q
  <2> QED BY <2>1, <2>2, <2>3
<1>3. Typed'
  <2>1. conn' \in [Sockets -> ConnStates] /\ client' = client
    BY <1>1 DEF AgentStops
  <2>2. proc' = [e \in Execs |-> proc'[e]]
    BY DEF AgentStops
  <2> QED BY <1>2, <2>1, <2>2 DEF CInv, Typed
<1>4. NotYetThere'
  BY <1>1 DEF AgentStops, CInv, NotYetThere, NoUpstream
<1>5. \A e \in Execs : proc[e].owner # NoSocket => proc[e].owner \in Sockets
  BY DEF CInv, Typed, ProcStates, NoSocket, Sockets
<1>6. \A e \in Execs : proc[e].at # "none" => proc[e].owner # NoSocket
  BY ConnectionAssumption DEF CInv, Owned, NoSocket, Sockets
<1>7. Owned'
  BY <1>2, <1>5, <1>6 DEF Owned
<1>8. \A e \in Execs : proc'[e].at # "running"
  BY <1>2, <1>6
<1> QED BY <1>3, <1>4, <1>7, <1>8 DEF CInv, NoOwnerless

-----------------------------------------------------------------------------
(* The steps of a process: its owner, if it is still a member, is told. *)

(* One socket's state is replaced by one it is tame to. *)
LEMMA TameAt ==
  ASSUME CInv, NEW c, NEW k \in ConnStates, conn' = [conn EXCEPT ![c] = k],
         c \in Sockets => Tame(conn[c], k)
  PROVE  conn' \in [Sockets -> ConnStates] /\ \A d \in Sockets : Tame(conn[d], conn'[d])
<1>1. conn \in [Sockets -> ConnStates] /\ \A d \in Sockets : Tame(conn[d], conn[d])
  BY DEF CInv, Typed, Tame
<1>2. conn' \in [Sockets -> ConnStates]
  BY <1>1
<1>3. \A d \in Sockets : conn'[d] = IF d = c THEN k ELSE conn[d]
  BY <1>1
<1>4. ASSUME NEW d \in Sockets PROVE Tame(conn[d], conn'[d])
  <2>1. CASE d = c
    <3>1. conn'[d] = k /\ Tame(conn[d], k)
      BY <1>3, <2>1
    <3> QED BY <3>1
  <2>2. CASE d # c
    <3>1. conn'[d] = conn[d]
      BY <1>3, <2>2
    <3> QED BY <1>1, <3>1
  <2> QED BY <2>1, <2>2
<1> QED BY <1>2, <1>4

LEMMA ProcKeeps ==
  ASSUME CInv, client' = client, NEW e \in Execs, NEW q \in ProcStates, proc' = [proc EXCEPT ![e] = q],
         Calm(proc[e], q),
         \/ conn' = conn
         \/ \E k \in ConnStates : /\ conn' = [conn EXCEPT ![proc[e].owner] = k]
                                  /\ proc[e].owner \in Sockets => Tame(conn[proc[e].owner], k)
  PROVE  CInv'
<1>1. \A d \in Execs : Calm(proc[d], proc'[d])
  BY DEF CInv, Typed, Owned, Calm
<1>2. conn' \in [Sockets -> ConnStates] /\ \A d \in Sockets : Tame(conn[d], conn'[d])
  <2>1. ASSUME conn' = conn PROVE conn' \in [Sockets -> ConnStates] /\ \A d \in Sockets : Tame(conn[d], conn'[d])
    BY <2>1 DEF CInv, Typed, Tame
  <2>2. ASSUME NEW k \in ConnStates, conn' = [conn EXCEPT ![proc[e].owner] = k],
               proc[e].owner \in Sockets => Tame(conn[proc[e].owner], k)
        PROVE  conn' \in [Sockets -> ConnStates] /\ \A d \in Sockets : Tame(conn[d], conn'[d])
    BY <2>2, TameAt
  <2> QED BY <2>1, <2>2
<1>3. Typed'
  BY <1>2 DEF CInv, Typed
<1> QED BY <1>1, <1>2, <1>3, TameKeeps

LEMMA ToldKeeps ==
  ASSUME NEW k \in ConnStates, NEW m \in Frames, NEW n \in Frames
  PROVE  /\ ToClient(k, m) \in ConnStates /\ Tame(k, ToClient(k, m))
         /\ ToClient(ToClient(k, m), n) \in ConnStates /\ Tame(k, ToClient(ToClient(k, m), n))
         /\ Tame(k, k)
<1>1. ToClient(k, m) \in ConnStates /\ ToClient(k, m).hub = k.hub /\ ToClient(k, m).bridge = k.bridge
  BY ToClientKeeps
<1>2. /\ ToClient(ToClient(k, m), n) \in ConnStates
      /\ ToClient(ToClient(k, m), n).hub = k.hub /\ ToClient(ToClient(k, m), n).bridge = k.bridge
  BY <1>1, ToClientKeeps
<1> QED BY <1>1, <1>2 DEF Tame

(* What is sent to the owner. *)
LEMMA ToOwnerTame ==
  ASSUME CInv, NEW e \in Execs, NEW m \in Frames, ToOwner(e, m)
  PROVE  \/ conn' = conn
         \/ \E k \in ConnStates : /\ conn' = [conn EXCEPT ![proc[e].owner] = k]
                                  /\ proc[e].owner \in Sockets => Tame(conn[proc[e].owner], k)
<1> DEFINE c == proc[e].owner
           k == IF conn[c].hub = "member" THEN ToClient(conn[c], m) ELSE conn[c]
<1>1. CASE c \in Sockets
  <2>1. conn[c] \in ConnStates
    BY <1>1 DEF CInv, Typed
  <2>2. k \in ConnStates /\ Tame(conn[c], k)
    BY <2>1, ToldKeeps
  <2>3. conn' = [conn EXCEPT ![c] = k]
    BY DEF ToOwner
  <2> QED BY <2>2, <2>3
<1>2. CASE c \notin Sockets
  BY <1>2 DEF ToOwner, CInv, Typed
<1> QED BY <1>1, <1>2

LEMMA ProcessKeeps ==
  ASSUME CInv, NEW e \in Execs,
         \/ ProcessStarts(e) \/ ProcessRefused(e) \/ ProcessTold(e) \/ SpawnFails(e)
         \/ ProcessWrites(e) \/ ChunkRead(e) \/ ProcessKilled(e) \/ ProcessEnds(e) \/ ProcessExits(e)
  PROVE  CInv'
<1>0. /\ proc[e] \in ProcStates /\ client' = client /\ proc \in [Execs -> ProcStates] /\ e \in Requests
      /\ proc[e].at # "none" => proc[e].owner \in Sockets /\ conn[proc[e].owner] \in ConnStates
  BY DEF CInv, Typed, Owned, Requests, ProcessStarts, ProcessRefused, ProcessTold, SpawnFails, ProcessWrites,
         ChunkRead, ProcessKilled, ProcessEnds, ProcessExits
<1>1. CASE ProcessStarts(e)
  <2> DEFINE run == [proc[e] EXCEPT !.at = "running"]
             drop == [proc[e] EXCEPT !.at = "finished", !.told = TRUE]
             q == IF conn[proc[e].owner].hub = "member" THEN run ELSE drop
  <2>1. proc[e].at = "starting" /\ proc' = [proc EXCEPT ![e] = q] /\ conn' = conn
    BY <1>1 DEF ProcessStarts
  <2>2. /\ run \in ProcStates /\ run.at = "running" /\ run.owner = proc[e].owner
        /\ drop \in ProcStates /\ drop.at = "finished" /\ drop.owner = proc[e].owner
    BY <1>0 DEF ProcStates
  <2> HIDE DEF run, drop
  <2>3. Typed'
    BY <1>0, <2>1, <2>2 DEF CInv, Typed
  <2>4. NotYetThere'
    BY <1>0, <2>1 DEF CInv, NotYetThere
  <2>5. Owned'
    BY <1>0, <2>1, <2>2 DEF CInv, Owned
  <2>6. NoOwnerless'
    BY <1>0, <2>1, <2>2 DEF CInv, NoOwnerless
  <2> QED BY <2>3, <2>4, <2>5, <2>6 DEF CInv
<1>2. CASE ProcessRefused(e)
  <2> DEFINE q == [proc[e] EXCEPT !.at = "finished", !.told = TRUE]
  <2>1. proc[e].at = "starting" /\ proc' = [proc EXCEPT ![e] = q] /\ ToOwner(e, Refusal(e))
    BY <1>0, <1>2 DEF ProcessRefused, ToOwner
  <2>2. q \in ProcStates /\ Calm(proc[e], q)
    BY <1>0, <2>1 DEF ProcStates, Calm
  <2> HIDE DEF q
  <2> QED BY <1>0, <2>1, <2>2, FramesThere, ToOwnerTame, ProcKeeps
<1>3. CASE ProcessTold(e)
  <2> DEFINE q == [proc[e] EXCEPT !.told = TRUE]
  <2>1. proc' = [proc EXCEPT ![e] = q] /\ ToOwner(e, Reply(e))
    BY <1>3 DEF ProcessTold
  <2>2. q \in ProcStates /\ Calm(proc[e], q)
    BY <1>0 DEF ProcStates, Calm
  <2> HIDE DEF q
  <2> QED BY <1>0, <2>1, <2>2, FramesThere, ToOwnerTame, ProcKeeps
<1>4. CASE SpawnFails(e)
  <2> DEFINE q == [proc[e] EXCEPT !.at = "finished"]
             c == proc[e].owner
             k == IF conn[c].hub = "member" THEN ToClient(ToClient(conn[c], Output(e, 1)), Exited(e)) ELSE conn[c]
  <2>1. proc[e].at = "running" /\ proc' = [proc EXCEPT ![e] = q] /\ conn' = [conn EXCEPT ![c] = k]
    BY <1>4 DEF SpawnFails
  <2>2. q \in ProcStates /\ Calm(proc[e], q)
    BY <1>0, <2>1 DEF ProcStates, Calm
  <2>3. k \in ConnStates /\ Tame(conn[c], k)
    BY <1>0, <2>1, ToldKeeps, FramesThere
  <2> HIDE DEF q, k
  <2> QED BY <1>0, <2>1, <2>2, <2>3, ProcKeeps
<1>5. CASE ProcessWrites(e)
  <2> DEFINE q == [proc[e] EXCEPT !.written = @ + 1]
  <2>1. proc[e].at = "running" /\ proc' = [proc EXCEPT ![e] = q] /\ conn' = conn
    BY <1>5 DEF ProcessWrites
  <2>2. q \in ProcStates /\ Calm(proc[e], q)
    BY <1>0, <2>1 DEF ProcStates, Calm
  <2> HIDE DEF q
  <2> QED BY <1>0, <2>1, <2>2, ProcKeeps
<1>6. CASE ChunkRead(e)
  <2> DEFINE q == [proc[e] EXCEPT !.read = @ + 1]
             n == proc[e].read + 1
  <2>1. proc[e].at # "none" /\ proc' = [proc EXCEPT ![e] = q] /\ ToOwner(e, Output(e, n)) /\ n \in Nat
    BY <1>0, <1>6 DEF ChunkRead, ProcStates
  <2>2. q \in ProcStates /\ Calm(proc[e], q)
    BY <1>0, <2>1 DEF ProcStates, Calm
  <2> HIDE DEF q, n
  <2> QED BY <1>0, <2>1, <2>2, FramesThere, ToOwnerTame, ProcKeeps
<1>7. CASE ProcessKilled(e)
  <2> DEFINE q == [proc[e] EXCEPT !.signalled = TRUE]
  <2>1. proc[e].at = "running" /\ proc' = [proc EXCEPT ![e] = q] /\ conn' = conn
    BY <1>7 DEF ProcessKilled
  <2>2. q \in ProcStates /\ Calm(proc[e], q)
    BY <1>0, <2>1 DEF ProcStates, Calm
  <2> HIDE DEF q
  <2> QED BY <1>0, <2>1, <2>2, ProcKeeps
<1>8. CASE ProcessEnds(e)
  <2> DEFINE q == [proc[e] EXCEPT !.at = "ended"]
  <2>1. proc[e].at = "running" /\ proc' = [proc EXCEPT ![e] = q] /\ conn' = conn
    BY <1>8 DEF ProcessEnds
  <2>2. q \in ProcStates /\ Calm(proc[e], q)
    BY <1>0, <2>1 DEF ProcStates, Calm
  <2> HIDE DEF q
  <2> QED BY <1>0, <2>1, <2>2, ProcKeeps
<1>9. CASE ProcessExits(e)
  <2> DEFINE q == [proc[e] EXCEPT !.at = "finished"]
  <2>1. proc[e].at = "ended" /\ proc' = [proc EXCEPT ![e] = q] /\ ToOwner(e, Exited(e))
    BY <1>9 DEF ProcessExits
  <2>2. q \in ProcStates /\ Calm(proc[e], q)
    BY <1>0, <2>1 DEF ProcStates, Calm
  <2> HIDE DEF q
  <2> QED BY <1>0, <2>1, <2>2, FramesThere, ToOwnerTame, ProcKeeps
<1> QED BY <1>1, <1>2, <1>3, <1>4, <1>5, <1>6, <1>7, <1>8, <1>9

-----------------------------------------------------------------------------

LEMMA StepKeeps == CInv /\ [Next]_vars => CInv'
<1> SUFFICES ASSUME CInv, [Next]_vars PROVE CInv'
  OBVIOUS
<1>1. CASE UNCHANGED vars
  BY <1>1, ClientKeeps DEF vars, CInv, Typed
<1>2. CASE UrlResolved \/ Close
  BY <1>2, UrlResolvedKeeps, CloseKeeps
<1>3. CASE UrlFails \/ ReconnectTimer \/ GiveUp \/ \E r \in Requests : RequestTimesOut(r)
  <2>1. client' \in ClientStates /\ client'.opened = client.opened /\ UNCHANGED <<conn, proc>>
    BY <1>3 DEF UrlFails, ReconnectTimer, GiveUp, RequestTimesOut, CInv, Typed, ClientStates
  <2> QED BY <2>1, ClientKeeps
<1>4. CASE \E r \in Requests : Request(r)
  BY <1>4, RequestKeeps
<1>5. CASE \E c \in Sockets : SocketOpens(c) \/ SocketCloses(c) \/ Receive(c) \/ ClientBreaks(c)
  BY <1>5, SocketKeeps
<1>6. CASE \E c \in Sockets : FromClient(c) \/ Resolves(c) \/ Rejects(c) \/ AgentRefuses(c) \/ UpstreamOpens(c)
  BY <1>6, BridgeKeeps
<1>7. CASE AgentStops \/ \E c \in Sockets : HubReceives(c) \/ HubCloses(c)
  BY <1>7, HubReceivesKeeps, HubClosesKeeps, AgentStopsKeeps
<1>8. CASE \E e \in Execs :
             \/ ProcessStarts(e) \/ ProcessRefused(e) \/ ProcessTold(e) \/ SpawnFails(e)
             \/ ProcessWrites(e) \/ ChunkRead(e) \/ ProcessKilled(e) \/ ProcessEnds(e) \/ ProcessExits(e)
  BY <1>8, ProcessKeeps
<1> QED BY <1>1, <1>2, <1>3, <1>4, <1>5, <1>6, <1>7, <1>8 DEF Next

(* A process that runs on without its connection was told to stop (removeClient()
   and the check behind the await in hub.ts), however the connection was lost and
   whatever was on its way. *)
THEOREM NoneIsOwnerless == Spec => []NoOwnerless
<1>1. CInv => NoOwnerless
  BY DEF CInv
<1> QED BY <1>1, CInitially, StepKeeps, PTL DEF Spec

-----------------------------------------------------------------------------
(* The frames of a connection, in order: what the agent has handled, what the
   bridge has passed on, what it holds back and what it has still to read are
   what the client sent, one after the other, up to the first close. *)

NoGone(q) == \A i \in 1..Len(q) : q[i] # Gone

(* Up to the first close, the frames of q are those sent after the first n. *)
Lined(q, n, s) ==
  \A i \in 1..Len(q) : (\A j \in 1..i : q[j] # Gone) => n + i <= Len(s) /\ q[i] = Ask(s[n + i])

(* What is on its way to the hub, behind the `identify` the bridge puts first. *)
Rest(k) == IF k.hub = "new" THEN Tail(k.feed) ELSE k.feed
Reach(k) == Len(k.handled) + Len(Rest(k))

Ways(k) ==
  /\ k.bridge \in {"dialing", "open"} => ~k.gone
  /\ k.bridge \in NoUpstream => k.feed = <<>> /\ k.hub = "none"
  /\ k.bridge = "open" => k.hub \in {"new", "member"} /\ k.pending = <<>>
  /\ k.bridge # "over" => NoGone(k.feed)
  /\ k.hub = "new" => k.feed # <<>> /\ Head(k.feed) = Identify
  /\ k.bridge = "none" => k.client = "none" /\ k.inbox = <<>>
  /\ NoGone(k.pending) /\ Len(k.pending) <= MaxPending

Starts(k) == Len(k.handled) <= Len(k.sent) /\ \A i \in 1..Len(k.handled) : k.handled[i] = k.sent[i]

Ordered(k) ==
  /\ Starts(k) /\ Lined(Rest(k), Len(k.handled), k.sent)
  /\ k.bridge # "over" /\ ~k.gone =>
       /\ Lined(k.pending, Reach(k), k.sent)
       /\ Lined(k.inbox, Reach(k) + Len(k.pending), k.sent)
       /\ NoGone(k.inbox) => Reach(k) + Len(k.pending) + Len(k.inbox) = Len(k.sent)

InOrder(k) == Ways(k) /\ (k.dropped \/ Ordered(k))

SockThere == client.sock \in Sockets => conn[client.sock].bridge # "none"

OInv == CInv /\ SockThere /\ \A c \in Sockets : InOrder(conn[c])

LEMMA FramesDiffer ==
  /\ Identify # Gone /\ Hello # Gone /\ Identify.type # "ask" /\ Gone.type # "ask"
  /\ \A r : Ask(r) # Gone /\ Ask(r) # Identify /\ Ask(r).type = "ask" /\ Ask(r).r = r
BY DEF Identify, Gone, Hello, Ask

(* The line when it is read, when it grows, and when more is sent. *)

LEMMA LinedRead ==
  ASSUME NEW q \in Seq(Frames), q # <<>>, Head(q) # Gone, NEW n \in Nat, NEW s \in Seq(Requests), Lined(q, n, s)
  PROVE  /\ n + 1 <= Len(s) /\ Head(q) = Ask(s[n + 1])
         /\ Lined(Tail(q), n + 1, s)
         /\ NoGone(Tail(q)) <=> NoGone(q)
<1> DEFINE t == Tail(q)
<1>1. /\ Len(q) \in Nat \ {0} /\ Head(q) = q[1] /\ Len(t) = Len(q) - 1
      /\ \A i \in 1..Len(t) : t[i] = q[i + 1]
  OBVIOUS
<1>0. Len(s) \in Nat
  OBVIOUS
<1> HIDE DEF t
<1> HIDE DEF Frames
<1>2. n + 1 <= Len(s) /\ q[1] = Ask(s[n + 1])
  <2>1. 1 \in 1..Len(q) /\ \A j \in 1..1 : q[j] # Gone
    BY <1>1
  <2> QED BY <2>1 DEF Lined
<1>3. ASSUME NEW i \in 1..Len(t), \A j \in 1..i : t[j] # Gone
      PROVE  (n + 1) + i <= Len(s) /\ t[i] = Ask(s[(n + 1) + i])
  <2>1. i + 1 \in 1..Len(q) /\ i \in Nat /\ n + (i + 1) = (n + 1) + i
    BY <1>1
  <2>2. ASSUME NEW j \in 1..(i + 1) PROVE q[j] # Gone
    <3>1. CASE j = 1
      BY <1>1, <3>1
    <3>2. CASE j # 1
      <4>1. j - 1 \in 1..i /\ j - 1 \in 1..Len(t) /\ (j - 1) + 1 = j
        BY <1>1, <2>1, <3>2
      <4> QED BY <1>1, <1>3, <4>1
    <3> QED BY <3>1, <3>2
  <2>3. n + (i + 1) <= Len(s) /\ q[i + 1] = Ask(s[n + (i + 1)])
    BY <2>1, <2>2 DEF Lined
  <2> QED BY <1>1, <2>1, <2>3
<1>4. Lined(t, n + 1, s)
  BY <1>3 DEF Lined
<1>5. NoGone(t) <=> NoGone(q)
  <2>1. ASSUME NoGone(t), NEW i \in 1..Len(q) PROVE q[i] # Gone
    <3>1. i = 1 \/ (i - 1 \in 1..Len(t) /\ (i - 1) + 1 = i)
      BY <1>1
    <3> QED BY <1>1, <2>1, <3>1 DEF NoGone
  <2>2. ASSUME NoGone(q), NEW i \in 1..Len(t) PROVE t[i] # Gone
    <3>1. i + 1 \in 1..Len(q)
      BY <1>1
    <3> QED BY <1>1, <2>2, <3>1 DEF NoGone
  <2> QED BY <2>1, <2>2 DEF NoGone
<1> QED BY <1>1, <1>2, <1>4, <1>5 DEF t

LEMMA LinedAppend ==
  ASSUME NEW q \in Seq(Frames), NEW m \in Frames, NEW n \in Nat, NEW s \in Seq(Requests), Lined(q, n, s),
         NoGone(q) /\ m # Gone => n + Len(q) + 1 <= Len(s) /\ m = Ask(s[n + Len(q) + 1])
  PROVE  /\ Lined(Append(q, m), n, s) /\ Len(Append(q, m)) = Len(q) + 1
         /\ NoGone(Append(q, m)) <=> NoGone(q) /\ m # Gone
<1> DEFINE t == Append(q, m)
<1>1. Len(q) \in Nat /\ Len(t) = Len(q) + 1 /\ t[Len(q) + 1] = m /\ \A i \in 1..Len(q) : t[i] = q[i]
  OBVIOUS
<1> HIDE DEF t, Frames
<1>2. NoGone(t) <=> NoGone(q) /\ m # Gone
  BY <1>1 DEF NoGone
<1>3. ASSUME NEW i \in 1..Len(t), \A j \in 1..i : t[j] # Gone
      PROVE  n + i <= Len(s) /\ t[i] = Ask(s[n + i])
  <2>1. CASE i \in 1..Len(q)
    <3>1. t[i] = q[i] /\ \A j \in 1..i : j \in 1..Len(q) /\ q[j] # Gone
      BY <1>1, <1>3, <2>1
    <3> QED BY <2>1, <3>1 DEF Lined
  <2>2. CASE i = Len(q) + 1
    <3>1. NoGone(q) /\ m # Gone
      BY <1>1, <1>3, <2>2 DEF NoGone
    <3>2. n + Len(q) + 1 = n + i /\ t[i] = m
      BY <1>1, <2>2
    <3> QED BY <3>1, <3>2
  <2> QED BY <1>1, <2>1, <2>2
<1>4. Lined(t, n, s)
  BY <1>3 DEF Lined
<1> QED BY <1>1, <1>2, <1>4 DEF t

LEMMA LinedLonger ==
  ASSUME NEW q \in Seq(Frames), NEW n \in Nat, NEW s \in Seq(Requests), NEW r \in Requests, Lined(q, n, s)
  PROVE  Lined(q, n, Append(s, r))
<1> DEFINE t == Append(s, r)
<1>1. Len(s) \in Nat /\ Len(q) \in Nat /\ Len(t) = Len(s) + 1 /\ \A i \in 1..Len(s) : t[i] = s[i]
  OBVIOUS
<1> HIDE DEF t, Frames
<1>2. ASSUME NEW i \in 1..Len(q), \A j \in 1..i : q[j] # Gone
      PROVE  n + i <= Len(t) /\ q[i] = Ask(t[n + i])
  <2>1. n + i <= Len(s) /\ q[i] = Ask(s[n + i])
    BY <1>2 DEF Lined
  <2>2. n + i \in 1..Len(s)
    BY <1>1, <2>1
  <2> QED BY <1>1, <2>1, <2>2
<1> QED BY <1>2 DEF Lined, t

LEMMA LinedNone ==
  ASSUME NEW n \in Nat, NEW s \in Seq(Requests)
  PROVE  Lined(<<>>, n, s) /\ Lined(<<Gone>>, n, s) /\ NoGone(<<>>) /\ ~NoGone(<<Gone>>)
<1>1. Len(<<Gone>>) = 1 /\ <<Gone>>[1] = Gone /\ Len(<<>>) = 0
  OBVIOUS
<1>2. 1 \in 1..1 /\ \A i \in 1..1 : i = 1
  OBVIOUS
<1> QED BY <1>1, <1>2 DEF Lined, NoGone

LEMMA AppendEnds ==
  ASSUME NEW q \in Seq(Frames), NEW m \in Frames
  PROVE  Append(q, m) # <<>> /\ (q # <<>> => Head(Append(q, m)) = Head(q) /\ Tail(Append(q, m)) = Append(Tail(q), m))
<1>1. Append(q, m) # <<>>
  BY AppendProperties, Zenon
<1>2. /\ Head(Append(q, m)) = IF q = <<>> THEN m ELSE Head(q)
      /\ Tail(Append(q, m)) = IF q = <<>> THEN <<>> ELSE Append(Tail(q), m)
  BY HeadTailAppend, Zenon
<1> QED BY <1>1, <1>2, Zenon

-----------------------------------------------------------------------------
(* What each operation makes of a connection that is in order. *)

LEMMA LineThere ==
  ASSUME NEW k \in ConnStates, Ways(k)
  PROVE  /\ k.feed \in Seq(Frames) /\ k.inbox \in Seq(Frames) /\ k.pending \in Seq(Frames)
         /\ k.sent \in Seq(Requests) /\ k.handled \in Seq(Requests)
         /\ Rest(k) \in Seq(Frames) /\ Len(Rest(k)) \in Nat /\ Len(k.feed) \in Nat
         /\ Len(k.inbox) \in Nat /\ Len(k.pending) \in Nat /\ Len(k.sent) \in Nat /\ Len(k.handled) \in Nat
         /\ Reach(k) \in Nat
<1>1. /\ k.feed \in Seq(Frames) /\ k.inbox \in Seq(Frames) /\ k.pending \in Seq(Frames)
      /\ k.sent \in Seq(Requests) /\ k.handled \in Seq(Requests)
  BY DEF ConnStates
<1>2. k.hub = "new" => k.feed # <<>>
  BY DEF Ways
<1>3. Rest(k) \in Seq(Frames)
  BY <1>1, <1>2, SequencesThere DEF Rest
<1>4. \A S, q : q \in Seq(S) => Len(q) \in Nat
  OBVIOUS
<1>5. /\ Len(Rest(k)) \in Nat /\ Len(k.feed) \in Nat
      /\ Len(k.inbox) \in Nat /\ Len(k.pending) \in Nat /\ Len(k.sent) \in Nat /\ Len(k.handled) \in Nat
  BY <1>1, <1>3, <1>4
<1>6. Reach(k) \in Nat
  BY <1>5 DEF Reach
<1> QED BY <1>1, <1>3, <1>5, <1>6

(* The frames to the agent are as they were. *)
SameLine(k, l) ==
  /\ l.hub = k.hub /\ l.feed = k.feed /\ l.sent = k.sent /\ l.handled = k.handled /\ l.dropped = k.dropped

SameWay(k, l) ==
  /\ SameLine(k, l) /\ l.bridge = k.bridge /\ l.gone = k.gone /\ l.pending = k.pending /\ l.inbox = k.inbox

LEMMA SameWayKeeps ==
  ASSUME NEW k, NEW l, InOrder(k), SameWay(k, l), l.client = k.client \/ l.bridge # "none"
  PROVE  InOrder(l)
<1>1. Ways(l)
  BY DEF InOrder, SameWay, SameLine, Ways
<1>2. Rest(l) = Rest(k) /\ Reach(l) = Reach(k)
  BY DEF Rest, Reach, SameWay, SameLine
<1>3. Ordered(k) => Ordered(l)
  BY <1>2 DEF SameWay, SameLine, Ordered, Starts
<1> QED BY <1>1, <1>3 DEF InOrder, SameWay, SameLine

(* The bridge is done with the client, or will be. *)
LEMMA StopKeeps ==
  ASSUME NEW k, NEW l, InOrder(k), SameLine(k, l),
         \/ l.bridge = "over"
         \/ l.gone /\ l.bridge = k.bridge /\ l.bridge \notin {"none", "dialing", "open"},
         l.pending = k.pending
  PROVE  InOrder(l)
<1>1. Ways(l)
  BY DEF InOrder, SameLine, Ways, NoUpstream
<1>2. Rest(l) = Rest(k)
  BY DEF Rest, SameLine
<1>3. Ordered(k) => Ordered(l)
  BY <1>2 DEF SameLine, Ordered, Starts
<1> QED BY <1>1, <1>3 DEF InOrder, SameLine

(* ToClient() changes what goes to the client, and nothing else. *)
LEMMA ToClientSame ==
  ASSUME NEW k \in ConnStates, NEW m \in Frames
  PROVE  SameWay(k, ToClient(k, m)) /\ ToClient(k, m).client = k.client
<1> DEFINE l == [k EXCEPT !.out = Append(@, m)]
<1>1. SameWay(k, l) /\ l.client = k.client
  BY DEF ConnStates, SameWay, SameLine
<1>2. SameWay(k, k)
  BY DEF SameWay, SameLine
<1> HIDE DEF l
<1>3. ToClient(k, m) \in {k, l}
  BY DEF ToClient, l
<1> QED BY <1>1, <1>2, <1>3

(* The hub has lost the connection, and the bridge ends. *)
LEMMA RemovedInOrder ==
  ASSUME NEW k \in ConnStates, InOrder(k), NEW l,
         l.hub = "removed", l.feed = <<>>, l.bridge = "over", l.sent = k.sent, l.handled = k.handled,
         l.dropped = k.dropped, l.pending = k.pending
  PROVE  InOrder(l)
<1>1. k.sent \in Seq(Requests) /\ Len(k.handled) \in Nat
  BY LineThere DEF InOrder
<1>2. Rest(l) = <<>>
  BY DEF Rest
<1>3. Lined(<<>>, Len(k.handled), k.sent) /\ NoGone(<<>>)
  BY <1>1, LinedNone
<1>4. Ways(l)
  BY <1>3 DEF InOrder, Ways, NoUpstream
<1>5. Ordered(k) => Ordered(l)
  BY <1>2, <1>3 DEF Ordered, Starts
<1> QED BY <1>4, <1>5 DEF InOrder

LEMMA TurnedAwayInOrder ==
  ASSUME NEW k \in ConnStates, InOrder(k)
  PROVE  InOrder(TurnedAway(k))
<1> DEFINE r == Removed(k)
           told == ToClient(r, Gone)
           l == [told EXCEPT !.bridge = "over"]
<1>1. r \in ConnStates
  BY TurnedAwayKeeps
<1>2. /\ r.hub = "removed" /\ r.feed = <<>> /\ r.sent = k.sent /\ r.handled = k.handled
      /\ r.dropped = k.dropped /\ r.pending = k.pending
  BY DEF Removed, ConnStates
<1> HIDE DEF r
<1>3. SameWay(r, told) /\ told \in ConnStates
  BY <1>1, ToClientSame, ToClientKeeps, FramesThere
<1> HIDE DEF told
<1>4. /\ l.hub = told.hub /\ l.feed = told.feed /\ l.bridge = "over" /\ l.sent = told.sent
      /\ l.handled = told.handled /\ l.dropped = told.dropped /\ l.pending = told.pending
  BY <1>3 DEF ConnStates
<1> HIDE DEF l
<1>5. InOrder(l)
  BY <1>2, <1>3, <1>4, RemovedInOrder DEF SameWay, SameLine
<1> QED BY <1>5 DEF l, told, r, TurnedAway

(* The client adds to what it sends: a request, or its close. *)
LEMMA AsksInOrder ==
  ASSUME NEW k \in ConnStates, InOrder(k), NEW r \in Requests, k.bridge # "none",
         NEW l, l = [k EXCEPT !.inbox = Append(@, Ask(r)), !.sent = Append(@, r)]
  PROVE  InOrder(l)
<1> DEFINE s == Append(k.sent, r)
           i == Append(k.inbox, Ask(r))
<1>1. /\ l.hub = k.hub /\ l.feed = k.feed /\ l.sent = s /\ l.handled = k.handled /\ l.dropped = k.dropped
      /\ l.bridge = k.bridge /\ l.gone = k.gone /\ l.pending = k.pending /\ l.inbox = i /\ l.client = k.client
  BY DEF ConnStates
<1>2. /\ k.inbox \in Seq(Frames) /\ k.pending \in Seq(Frames) /\ k.sent \in Seq(Requests)
      /\ Rest(k) \in Seq(Frames) /\ Len(k.inbox) \in Nat /\ Len(k.pending) \in Nat /\ Len(k.sent) \in Nat
      /\ Len(k.handled) \in Nat /\ Reach(k) \in Nat
  BY LineThere DEF InOrder
<1>3. s \in Seq(Requests) /\ Len(s) = Len(k.sent) + 1 /\ s[Len(k.sent) + 1] = r
      /\ \A j \in 1..Len(k.sent) : s[j] = k.sent[j]
  BY <1>2
<1>4. Ask(r) \in Frames /\ Ask(r) # Gone
  BY FramesThere, FramesDiffer
<1> DEFINE n == Reach(k) + Len(k.pending)
<1>5. n \in Nat
  BY <1>2
<1> HIDE DEF s, n
<1>6. Ways(l)
  <2>1. Ways(k)
    BY DEF InOrder
  <2> HIDE DEF i
  <2> QED BY <1>1, <2>1 DEF Ways
<1>7. Rest(l) = Rest(k) /\ Reach(l) = Reach(k)
  BY <1>1 DEF Rest, Reach
<1>8. ASSUME Ordered(k) PROVE Ordered(l)
  <2>1. Starts(l) /\ Lined(Rest(l), Len(l.handled), l.sent)
    <3>1. Lined(Rest(k), Len(k.handled), s)
      BY <1>2, <1>8, LinedLonger DEF Ordered, s
    <3>2. Starts(k)
      BY <1>8 DEF Ordered
    <3>3. Starts(l)
      BY <1>1, <1>2, <1>3, <3>2 DEF Starts
    <3> QED BY <1>1, <1>7, <3>1, <3>3
  <2>2. ASSUME l.bridge # "over", ~l.gone
        PROVE  /\ Lined(l.pending, Reach(l), l.sent)
               /\ Lined(l.inbox, Reach(l) + Len(l.pending), l.sent)
               /\ NoGone(l.inbox) => Reach(l) + Len(l.pending) + Len(l.inbox) = Len(l.sent)
    <3>1. /\ Lined(k.pending, Reach(k), k.sent) /\ Lined(k.inbox, n, k.sent)
          /\ NoGone(k.inbox) => n + Len(k.inbox) = Len(k.sent)
      BY <1>1, <1>8, <2>2 DEF Ordered, n
    <3>2. Lined(k.pending, Reach(k), s) /\ Lined(k.inbox, n, s)
      BY <1>2, <1>5, <3>1, LinedLonger DEF s
    <3>3. NoGone(k.inbox) => n + Len(k.inbox) + 1 <= Len(s) /\ Ask(r) = Ask(s[n + Len(k.inbox) + 1])
      BY <1>2, <1>3, <1>5, <3>1
    <3>4. /\ Lined(i, n, s) /\ Len(i) = Len(k.inbox) + 1
          /\ NoGone(i) <=> NoGone(k.inbox)
      BY <1>2, <1>3, <1>4, <1>5, <3>2, <3>3, LinedAppend
    <3> HIDE DEF i
    <3>5. NoGone(i) => n + Len(i) = Len(s)
      BY <1>2, <1>3, <1>5, <3>1, <3>4
    <3> QED BY <1>1, <1>7, <3>1, <3>2, <3>4, <3>5 DEF n
  <2> QED BY <2>1, <2>2 DEF Ordered
<1> QED BY <1>1, <1>6, <1>8 DEF InOrder

LEMMA ClosesInOrder ==
  ASSUME NEW k \in ConnStates, InOrder(k), k.bridge # "none", NEW i, i \in {Append(k.inbox, Gone), <<Gone>>},
         NEW l, SameLine(k, l), l.bridge = k.bridge, l.gone = k.gone, l.pending = k.pending, l.inbox = i
  PROVE  InOrder(l)
<1>1. /\ k.inbox \in Seq(Frames) /\ k.sent \in Seq(Requests) /\ Reach(k) \in Nat /\ Len(k.pending) \in Nat
  BY LineThere DEF InOrder
<1>2. Ways(l)
  <2>1. Ways(k)
    BY DEF InOrder
  <2> QED BY <2>1 DEF Ways, SameLine
<1>3. Rest(l) = Rest(k) /\ Reach(l) = Reach(k)
  BY DEF Rest, Reach, SameLine
<1> DEFINE n == Reach(k) + Len(k.pending)
<1>4. n \in Nat
  BY <1>1
<1> HIDE DEF n
<1>5. Lined(k.inbox, n, k.sent) => Lined(i, n, k.sent) /\ ~NoGone(i)
  <2>1. Lined(<<Gone>>, n, k.sent) /\ ~NoGone(<<Gone>>)
    BY <1>1, <1>4, LinedNone
  <2>2. Lined(k.inbox, n, k.sent) => Lined(Append(k.inbox, Gone), n, k.sent) /\ ~NoGone(Append(k.inbox, Gone))
    BY <1>1, <1>4, FramesThere, LinedAppend
  <2> QED BY <2>1, <2>2
<1>6. Ordered(k) => Ordered(l)
  BY <1>3, <1>5 DEF Ordered, Starts, SameLine, n
<1> QED BY <1>2, <1>6 DEF InOrder, SameLine

LEMMA ClosedByInOrder ==
  ASSUME NEW k \in ConnStates, InOrder(k), k.bridge # "none"
  PROVE  InOrder(ClosedBy(k))
<1> DEFINE i == IF k.gone \/ Contains(k.inbox, Gone) THEN k.inbox ELSE Append(k.inbox, Gone)
           l == [k EXCEPT !.client = "closed", !.out = <<>>, !.inbox = i]
<1>1. l = ClosedBy(k)
  BY DEF ClosedBy
<1>2. i \in {k.inbox, Append(k.inbox, Gone)}
  OBVIOUS
<1> HIDE DEF i
<1>3. SameLine(k, l) /\ l.bridge = k.bridge /\ l.gone = k.gone /\ l.pending = k.pending /\ l.inbox = i
  BY DEF ConnStates, SameLine
<1> HIDE DEF l
<1>4. CASE i = k.inbox
  BY <1>1, <1>3, <1>4, SameWayKeeps DEF SameWay
<1>5. CASE i = Append(k.inbox, Gone)
  BY <1>1, <1>3, <1>5, ClosesInOrder
<1> QED BY <1>2, <1>4, <1>5

(* The bridge reads the client's close. *)
LEMMA LeavesInOrder ==
  ASSUME NEW j \in ConnStates, InOrder(j), j.bridge # "none",
         NEW k \in ConnStates, SameLine(j, k), k.bridge = j.bridge, k.gone = j.gone, k.pending = j.pending
  PROVE  InOrder(Leaves(k))
<1>0. Ways(k) /\ Rest(k) = Rest(j)
  BY DEF InOrder, Ways, SameLine, Rest
<1>1. CASE k.bridge = "open"
  <2> DEFINE f == Append(k.feed, Gone)
             l == [k EXCEPT !.feed = f, !.gone = TRUE, !.bridge = "over"]
  <2>1. /\ k.feed \in Seq(Frames) /\ k.sent \in Seq(Requests) /\ Len(k.handled) \in Nat
        /\ Rest(k) \in Seq(Frames)
    BY <1>0, LineThere
  <2>2. k.hub \in {"new", "member"} /\ NoGone(k.feed) /\ (k.hub = "new" => k.feed # <<>> /\ Head(k.feed) = Identify)
    BY <1>0, <1>1 DEF Ways
  <2>3. ~(k.feed # <<>> /\ Last(k.feed) = Gone)
    BY <2>1, <2>2 DEF NoGone, Last
  <2>4. ToAgent(k, Gone) = [k EXCEPT !.feed = f]
    BY <2>2, <2>3 DEF ToAgent
  <2>5. Leaves(k) = l
    BY <1>1, <2>4 DEF Leaves, ConnStates
  <2>6. f # <<>> /\ (k.feed # <<>> => Head(f) = Head(k.feed) /\ Tail(f) = Append(Tail(k.feed), Gone))
    BY <2>1, FramesThere, AppendEnds
  <2> HIDE DEF f
  <2>7. /\ l.hub = k.hub /\ l.feed = f /\ l.sent = k.sent /\ l.handled = k.handled /\ l.dropped = k.dropped
        /\ l.bridge = "over" /\ l.pending = j.pending
    BY DEF ConnStates
  <2> HIDE DEF l
  <2>8. Ways(l)
    BY <1>0, <2>2, <2>6, <2>7 DEF Ways, NoUpstream
  <2>9. Rest(l) = Append(Rest(k), Gone)
    BY <2>2, <2>6, <2>7 DEF Rest, f
  <2>10. ASSUME Ordered(j) PROVE Ordered(l)
    <3>1. Lined(Rest(l), Len(k.handled), k.sent)
      <4>1. Lined(Rest(k), Len(k.handled), k.sent)
        BY <1>0, <2>10 DEF Ordered, SameLine
      <4> QED BY <2>1, <2>9, <4>1, FramesThere, LinedAppend
    <3>2. Starts(l)
      BY <2>7, <2>10 DEF Ordered, Starts, SameLine
    <3> QED BY <2>7, <3>1, <3>2 DEF Ordered
  <2> QED BY <2>5, <2>7, <2>8, <2>10 DEF InOrder, SameLine
<1>2. CASE k.bridge # "open"
  <2> DEFINE over == [k EXCEPT !.gone = TRUE, !.bridge = "over"]
             noted == [k EXCEPT !.gone = TRUE]
  <2>1. SameLine(j, over) /\ over.bridge = "over" /\ over.pending = j.pending
    BY DEF ConnStates, SameLine
  <2>2. SameLine(j, noted) /\ noted.bridge = j.bridge /\ noted.gone /\ noted.pending = j.pending
    BY DEF ConnStates, SameLine
  <2>3. Leaves(k) = IF k.bridge = "dialing" THEN over ELSE noted
    BY <1>2 DEF Leaves
  <2> HIDE DEF over, noted
  <2>4. InOrder(over)
    BY <1>0, <2>1, StopKeeps
  <2>5. k.bridge # "dialing" => InOrder(noted)
    BY <1>0, <1>2, <2>2, StopKeeps
  <2> QED BY <2>3, <2>4, <2>5
<1> QED BY <1>1, <1>2

(* The bridge passes on what it reads, or keeps it; a frame that is one too many
   is dropped, and so is what comes after the bridge is over. *)
LEMMA ForwardInOrder ==
  ASSUME NEW j \in ConnStates, InOrder(j), j.inbox # <<>>, Head(j.inbox) # Gone,
         NEW k, k = [j EXCEPT !.inbox = Tail(@)], NEW m, m = Head(j.inbox)
  PROVE  InOrder(Forward(k, m))
<1>0. /\ Ways(j) /\ Len(j.pending) <= MaxPending /\ j.bridge # "none" /\ NoGone(j.pending)
      /\ j.feed \in Seq(Frames) /\ j.inbox \in Seq(Frames) /\ j.pending \in Seq(Frames)
      /\ j.sent \in Seq(Requests) /\ Len(j.handled) \in Nat /\ Rest(j) \in Seq(Frames) /\ Reach(j) \in Nat
      /\ Len(j.pending) \in Nat /\ Len(j.inbox) \in Nat /\ Len(j.sent) \in Nat
  BY LineThere DEF InOrder, Ways
<1> DEFINE t == Tail(j.inbox)
<1>1. m \in Frames /\ t \in Seq(Frames) /\ Len(t) = Len(j.inbox) - 1
  <2>1. Len(t) = Len(j.inbox) - 1
    BY <1>0
  <2> QED BY <1>0, <2>1, SequencesThere
<1> HIDE DEF t
<1>2. /\ k \in ConnStates /\ k.inbox = t /\ k.hub = j.hub /\ k.feed = j.feed /\ k.sent = j.sent
      /\ k.handled = j.handled /\ k.dropped = j.dropped /\ k.bridge = j.bridge /\ k.gone = j.gone
      /\ k.pending = j.pending /\ k.client = j.client
  BY <1>1 DEF ConnStates, t
(* What is read is the next to be passed on. *)
<1> DEFINE n == Reach(j) + Len(j.pending)
           ahead == j.bridge # "over" /\ ~j.gone
<1>9. n \in Nat
  BY <1>0
<1>3. ASSUME Ordered(j), ahead
      PROVE  /\ Lined(j.pending, Reach(j), j.sent)
             /\ n + 1 <= Len(j.sent) /\ m = Ask(j.sent[n + 1]) /\ Lined(t, n + 1, j.sent)
             /\ NoGone(t) => (n + 1) + Len(t) = Len(j.sent)
  <2>1. /\ Lined(j.pending, Reach(j), j.sent) /\ Lined(j.inbox, n, j.sent)
        /\ NoGone(j.inbox) => n + Len(j.inbox) = Len(j.sent)
    BY <1>3 DEF Ordered
  <2> HIDE DEF n
  <2>2. /\ n + 1 <= Len(j.sent) /\ m = Ask(j.sent[n + 1]) /\ Lined(t, n + 1, j.sent)
        /\ NoGone(t) <=> NoGone(j.inbox)
    BY <1>0, <1>9, <2>1, LinedRead DEF t
  <2>3. NoGone(t) => (n + 1) + Len(t) = Len(j.sent)
    BY <1>0, <1>1, <1>9, <2>1, <2>2
  <2> QED BY <2>1, <2>2, <2>3
<1> HIDE DEF n, ahead
<1>4. CASE k.bridge = "open"
  <2> DEFINE f == Append(k.feed, m)
             l == [k EXCEPT !.feed = f]
  <2>1. j.hub \in {"new", "member"} /\ j.pending = <<>> /\ NoGone(j.feed) /\ ~j.gone
        /\ (j.hub = "new" => j.feed # <<>> /\ Head(j.feed) = Identify)
    BY <1>0, <1>2, <1>4 DEF Ways
  <2>2. ~(k.feed # <<>> /\ Last(k.feed) = Gone)
    <3>1. j.feed \in Seq(Frames) /\ NoGone(j.feed) /\ k.feed = j.feed
      BY <1>0, <1>2, <2>1
    <3> QED BY <3>1 DEF NoGone, Last
  <2>3. ToAgent(k, m) = l
    BY <1>2, <2>1, <2>2 DEF ToAgent
  <2>4. Forward(k, m) = l
    BY <1>4, <2>3 DEF Forward
  <2>5. f # <<>> /\ (j.feed # <<>> => Head(f) = Head(j.feed) /\ Tail(f) = Append(Tail(j.feed), m))
    BY <1>0, <1>1, <1>2, AppendEnds, ZenonT(60)
  <2>6. NoGone(f) <=> m # Gone
    <3>1. /\ Len(j.feed) \in Nat /\ Len(f) = Len(j.feed) + 1 /\ f[Len(j.feed) + 1] = m
          /\ \A i \in 1..Len(j.feed) : f[i] = j.feed[i]
      BY <1>0, <1>1, <1>2
    <3> HIDE DEF f
    <3> QED BY <2>1, <3>1 DEF NoGone
  <2> HIDE DEF f
  <2>7. /\ l.hub = j.hub /\ l.feed = f /\ l.sent = j.sent /\ l.handled = j.handled /\ l.dropped = j.dropped
        /\ l.bridge = "open" /\ l.gone = j.gone /\ l.pending = <<>> /\ l.inbox = t
    BY <1>2, <1>4, <2>1 DEF ConnStates
  <2> HIDE DEF l
  <2>8. Ways(l)
    BY <1>0, <2>1, <2>5, <2>6, <2>7 DEF Ways, NoUpstream
  <2>9. Rest(l) = Append(Rest(j), m)
    BY <1>2, <2>1, <2>5, <2>7 DEF Rest, f
  <2>10. ASSUME Ordered(j) PROVE Ordered(l)
    <3>1. /\ n + 1 <= Len(j.sent) /\ m = Ask(j.sent[n + 1]) /\ Lined(t, n + 1, j.sent)
          /\ NoGone(t) => (n + 1) + Len(t) = Len(j.sent)
      BY <1>2, <1>3, <1>4, <2>1, <2>10 DEF ahead
    <3>2. Len(<<>>) = 0
      OBVIOUS
    <3>3. n = Len(j.handled) + Len(Rest(j))
      BY <1>0, <2>1, <3>2 DEF n, Reach
    <3>4. Lined(Rest(j), Len(j.handled), j.sent)
      BY <2>10 DEF Ordered
    <3>5. Lined(Rest(l), Len(j.handled), j.sent) /\ Len(Rest(l)) = Len(Rest(j)) + 1
      <4>1. Len(j.handled) + Len(Rest(j)) + 1 <= Len(j.sent) /\ m = Ask(j.sent[Len(j.handled) + Len(Rest(j)) + 1])
        BY <3>1, <3>3
      <4>2. Rest(j) \in Seq(Frames) /\ Len(j.handled) \in Nat /\ j.sent \in Seq(Requests)
        BY <1>0
      <4>3. Lined(Append(Rest(j), m), Len(j.handled), j.sent) /\ Len(Append(Rest(j), m)) = Len(Rest(j)) + 1
        BY <1>1, <3>4, <4>1, <4>2, LinedAppend, Zenon
      <4> QED BY <2>9, <4>3
    <3>6. Reach(l) + Len(l.pending) = n + 1 /\ Reach(l) \in Nat
      <4>1. /\ Len(Rest(j)) \in Nat /\ Len(j.handled) \in Nat /\ Len(l.handled) = Len(j.handled)
            /\ Len(l.pending) = 0 /\ Len(Rest(l)) = Len(Rest(j)) + 1
        <5>1. Rest(j) \in Seq(Frames)
          BY <1>0
        <5> QED BY <1>0, <2>7, <3>2, <3>5, <5>1
      <4>2. Reach(l) = Len(j.handled) + (Len(Rest(j)) + 1)
        BY <4>1 DEF Reach
      <4>3. \A a, b \in Nat : a + (b + 1) = (a + b) + 1 /\ ((a + b) + 1) + 0 = (a + b) + 1 /\ (a + b) + 1 \in Nat
        OBVIOUS
      <4>4. Reach(l) = n + 1 /\ n + 1 \in Nat /\ (n + 1) + 0 = n + 1
        BY <3>3, <4>1, <4>2, <4>3, Zenon
      <4> QED BY <4>1, <4>4, Zenon
    <3>7. Lined(l.pending, Reach(l), l.sent)
      BY <1>0, <2>7, <3>6, LinedNone
    <3>8. Starts(l)
      BY <2>7, <2>10 DEF Ordered, Starts
    <3> QED BY <2>7, <3>1, <3>5, <3>6, <3>7, <3>8 DEF Ordered
  <2> QED BY <2>4, <2>7, <2>8, <2>10 DEF InOrder
<1>5. CASE k.bridge \in {"verifying", "dialing"} /\ Len(k.pending) < MaxPending
  <2> DEFINE p == Append(k.pending, m)
             l == [k EXCEPT !.pending = p]
  <2>1. Forward(k, m) = l
    BY <1>5 DEF Forward
  <2>2. Len(p) = Len(j.pending) + 1 /\ NoGone(p)
    <3>1. /\ Len(p) = Len(j.pending) + 1 /\ p[Len(j.pending) + 1] = m
          /\ \A i \in 1..Len(j.pending) : p[i] = j.pending[i]
      BY <1>0, <1>1, <1>2
    <3> HIDE DEF p
    <3>2. NoGone(j.pending) /\ m # Gone /\ Len(j.pending) \in Nat
      BY <1>0
    <3>3. ASSUME NEW i \in 1..Len(p) PROVE p[i] # Gone
      <4>1. i \in 1..Len(j.pending) \/ i = Len(j.pending) + 1
        BY <3>1, <3>2
      <4> QED BY <3>1, <3>2, <4>1 DEF NoGone
    <3> QED BY <3>1, <3>3 DEF NoGone
  <2> HIDE DEF p
  <2>3. /\ l.hub = j.hub /\ l.feed = j.feed /\ l.sent = j.sent /\ l.handled = j.handled /\ l.dropped = j.dropped
        /\ l.bridge = j.bridge /\ l.gone = j.gone /\ l.pending = p /\ l.inbox = t
    BY <1>2 DEF ConnStates
  <2> HIDE DEF l
  <2>4. Ways(l)
    BY <1>0, <1>2, <1>5, <2>2, <2>3, ConnectionAssumption DEF Ways
  <2>5. Rest(l) = Rest(j) /\ Reach(l) = Reach(j)
    BY <2>3 DEF Rest, Reach
  <2>6. ASSUME Ordered(j), ahead
        PROVE  /\ Lined(p, Reach(j), j.sent)
               /\ Lined(t, Reach(j) + Len(p), j.sent)
               /\ NoGone(t) => Reach(j) + Len(p) + Len(t) = Len(j.sent)
    <3>1. Reach(j) + Len(p) = n + 1 /\ n = Reach(j) + Len(j.pending)
      BY <1>0, <2>2 DEF n
    <3>2. Lined(p, Reach(j), j.sent)
      BY <1>0, <1>1, <1>2, <1>3, <2>6, <3>1, LinedAppend DEF p
    <3> QED BY <1>3, <2>6, <3>1, <3>2
  <2>7. Ordered(j) => Ordered(l)
    BY <2>3, <2>5, <2>6 DEF Ordered, Starts, ahead
  <2> QED BY <2>1, <2>3, <2>4, <2>7 DEF InOrder
<1>6. CASE k.bridge \in {"verifying", "dialing"} /\ Len(k.pending) = MaxPending
  <2> DEFINE told == ToClient(k, Gone)
             l == [told EXCEPT !.dropped = TRUE]
  <2>1. Forward(k, m) = l
    BY <1>6, ConnectionAssumption DEF Forward
  <2>2. SameWay(k, told) /\ told \in ConnStates
    BY <1>2, ToClientSame, ToClientKeeps, FramesThere
  <2> HIDE DEF told
  <2>3. /\ l.hub = told.hub /\ l.feed = told.feed /\ l.dropped
        /\ l.bridge = told.bridge /\ l.gone = told.gone /\ l.pending = told.pending
    BY <2>2 DEF ConnStates
  <2> HIDE DEF l
  <2>4. Ways(l)
    BY <1>0, <1>2, <1>6, <2>2, <2>3 DEF Ways, SameWay, SameLine
  <2> QED BY <2>1, <2>3, <2>4 DEF InOrder
<1>7. CASE k.bridge = "over"
  <2>1. Forward(k, m) = k
    BY <1>7 DEF Forward
  <2>2. InOrder(k)
    BY <1>0, <1>2, <1>7, StopKeeps DEF SameLine
  <2> QED BY <2>1, <2>2
<1>8. k.bridge \in {"verifying", "dialing", "open", "over"}
  BY <1>0, <1>2 DEF ConnStates
<1> QED BY <1>0, <1>2, <1>4, <1>5, <1>6, <1>7, <1>8, ConnectionAssumption

(* The upstream opens: what was held back follows the `identify`. *)
LEMMA OpensInOrder ==
  ASSUME NEW k \in ConnStates, InOrder(k), k.bridge = "dialing",
         NEW f, f = <<Identify>> \o k.pending,
         NEW l, l = [k EXCEPT !.bridge = "open", !.hub = "new", !.feed = f, !.pending = <<>>]
  PROVE  InOrder(l)
<1>1. /\ Ways(k) /\ k.pending \in Seq(Frames) /\ k.sent \in Seq(Requests) /\ Len(k.handled) \in Nat
      /\ Len(k.pending) \in Nat /\ k.feed = <<>> /\ k.hub = "none" /\ ~k.gone /\ NoGone(k.pending)
  BY LineThere DEF InOrder, Ways, NoUpstream
<1>2. f # <<>> /\ Head(f) = Identify /\ Tail(f) = k.pending /\ NoGone(f)
  <2>1. Identify \in Frames /\ Identify # Gone
    BY FramesThere, FramesDiffer
  <2>2. Len(<<Identify>>) = 1 /\ <<Identify>> \in Seq(Frames) /\ <<Identify>>[1] = Identify
    BY <2>1
  <2>3. /\ f \in Seq(Frames) /\ Len(f) = 1 + Len(k.pending) /\ f[1] = Identify
        /\ \A i \in 1..Len(k.pending) : f[i + 1] = k.pending[i]
    BY <1>1, <2>2
  <2> HIDE DEF Frames
  <2>4. f # <<>> /\ Head(f) = Identify
    BY <1>1, <2>3
  <2>5. Tail(f) = k.pending
    <3> DEFINE t == Tail(f)
    <3>1. t \in Seq(Frames) /\ Len(t) = Len(k.pending) /\ \A i \in 1..Len(t) : t[i] = k.pending[i]
      BY <1>1, <2>3, <2>4
    <3> HIDE DEF t
    <3>2. t = k.pending
      BY <1>1, <3>1, SeqEqual
    <3> QED BY <3>2 DEF t
  <2>6. ASSUME NEW i \in 1..Len(f) PROVE f[i] # Gone
    <3>1. i = 1 \/ (i - 1 \in 1..Len(k.pending) /\ (i - 1) + 1 = i)
      BY <1>1, <2>3
    <3> QED BY <1>1, <2>1, <2>3, <3>1 DEF NoGone
  <2> QED BY <2>4, <2>5, <2>6 DEF NoGone
<1>3. /\ l.bridge = "open" /\ l.hub = "new" /\ l.feed = f /\ l.pending = <<>> /\ l.inbox = k.inbox
      /\ l.sent = k.sent /\ l.handled = k.handled /\ l.dropped = k.dropped /\ l.gone = k.gone
  BY DEF ConnStates
<1>4. Len(<<>>) = 0 /\ Rest(k) = <<>> /\ Rest(l) = k.pending
  BY <1>1, <1>2, <1>3 DEF Rest
<1>5. NoGone(<<>>) /\ Lined(<<>>, Reach(l), l.sent)
  BY DEF NoGone, Lined
<1>6. Reach(k) = Len(k.handled) /\ Reach(l) = Len(k.handled) + Len(k.pending) /\ Reach(l) + Len(<<>>) = Reach(l)
  <2>1. /\ \A a \in Nat : a + 0 = a
        /\ \A a, b \in Nat : a + b \in Nat
    OBVIOUS
  <2>2. Reach(k) = Len(k.handled) + 0 /\ Reach(l) = Len(k.handled) + Len(k.pending)
    BY <1>3, <1>4, Zenon DEF Reach
  <2>3. Len(k.handled) + Len(k.pending) \in Nat
    BY <1>1, <2>1, Zenon
  <2>4. Reach(k) = Len(k.handled)
    BY <1>1, <2>1, <2>2, Zenon
  <2>5. Reach(l) \in Nat
    BY <2>2, <2>3
  <2>6. Reach(l) + 0 = Reach(l)
    BY <2>1, <2>5, Zenon
  <2> QED BY <1>4, <2>2, <2>4, <2>6, Zenon
<1>7. ASSUME Ordered(k) PROVE Ordered(l)
  <2>1. /\ Starts(k) /\ Lined(k.pending, Len(k.handled), k.sent)
        /\ Lined(k.inbox, Len(k.handled) + Len(k.pending), k.sent)
        /\ NoGone(k.inbox) => Len(k.handled) + Len(k.pending) + Len(k.inbox) = Len(k.sent)
    BY <1>1, <1>6, <1>7 DEF Ordered
  <2>2. Starts(l)
    BY <1>3, <2>1 DEF Starts
  <2>3. Lined(l.inbox, Reach(l) + Len(l.pending), l.sent)
    BY <1>3, <1>6, <2>1
  <2>4. NoGone(l.inbox) => Reach(l) + Len(l.pending) + Len(l.inbox) = Len(l.sent)
    BY <1>3, <1>6, <2>1
  <2> QED BY <1>3, <1>4, <1>5, <2>2, <2>3, <2>4, <2>1 DEF Ordered
<1>8. Ways(l)
  BY <1>1, <1>2, <1>3, <1>4, ConnectionAssumption DEF Ways, NoUpstream
<1> QED BY <1>3, <1>7, <1>8 DEF InOrder

(* A frame is read by the hub. *)
LEMMA HandledInOrder ==
  ASSUME NEW k \in ConnStates, InOrder(k), k.hub = "member", k.feed # <<>>, Head(k.feed).type = "ask",
         NEW l, l.hub = "member", l.feed = Tail(k.feed), l.handled = Append(k.handled, Head(k.feed).r),
         Head(k.feed).r \in Requests,
         l.sent = k.sent, l.dropped = k.dropped, l.bridge = k.bridge, l.gone = k.gone, l.pending = k.pending,
         l.inbox = k.inbox
  PROVE  InOrder(l)
<1>1. /\ Ways(k) /\ k.feed \in Seq(Frames) /\ k.sent \in Seq(Requests) /\ k.handled \in Seq(Requests)
      /\ Len(k.handled) \in Nat /\ Len(k.feed) \in Nat /\ Head(k.feed) # Gone /\ Len(k.sent) \in Nat
  BY LineThere, FramesDiffer DEF InOrder
<1>2. /\ Len(Tail(k.feed)) = Len(k.feed) - 1 /\ Len(k.feed) # 0
      /\ \A i \in 1..Len(Tail(k.feed)) : Tail(k.feed)[i] = k.feed[i + 1]
  <2> HIDE DEF Frames
  <2> QED BY <1>1
<1> DEFINE t == Tail(k.feed)
<1> HIDE DEF t
<1>3. Rest(k) = k.feed /\ Rest(l) = t /\ k.bridge \notin NoUpstream
  BY <1>1 DEF Rest, t, Ways
<1>4. NoGone(k.feed) => NoGone(t)
  <2> SUFFICES ASSUME NoGone(k.feed), NEW i \in 1..Len(t) PROVE t[i] # Gone
    BY DEF NoGone
  <2>1. i + 1 \in 1..Len(k.feed) /\ t[i] = k.feed[i + 1]
    BY <1>1, <1>2 DEF t
  <2> QED BY <2>1 DEF NoGone
<1>5. Ways(l)
  BY <1>1, <1>3, <1>4 DEF Ways, NoUpstream, t
<1>6. ASSUME Ordered(k) PROVE Ordered(l)
  <2>1. /\ Len(k.handled) + 1 <= Len(k.sent) /\ Head(k.feed) = Ask(k.sent[Len(k.handled) + 1])
        /\ Lined(t, Len(k.handled) + 1, k.sent)
    BY <1>1, <1>3, <1>6, LinedRead DEF Ordered, t
  <2>2. Head(k.feed).r = k.sent[Len(k.handled) + 1]
    BY <2>1, FramesDiffer
  <2> DEFINE h == Append(k.handled, Head(k.feed).r)
  <2>3. /\ Len(h) = Len(k.handled) + 1 /\ h[Len(k.handled) + 1] = Head(k.feed).r
        /\ \A i \in 1..Len(k.handled) : h[i] = k.handled[i]
    BY <1>1
  <2> HIDE DEF h
  <2>4. Starts(k)
    BY <1>6 DEF Ordered
  <2>5. l.handled = h
    BY DEF h
  <2>6. ASSUME NEW i \in 1..Len(h) PROVE h[i] = k.sent[i]
    BY <1>1, <2>2, <2>3, <2>4 DEF Starts
  <2>7. Starts(l)
    BY <1>1, <2>1, <2>3, <2>5, <2>6 DEF Starts
  <2>8. Reach(l) = Reach(k)
    <3>1. Len(t) = Len(k.feed) - 1
      BY <1>2 DEF t
    <3>2. \A a, b \in Nat : (a + 1) + (b - 1) = a + b
      OBVIOUS
    <3>3. Reach(l) = (Len(k.handled) + 1) + (Len(k.feed) - 1) /\ Reach(k) = Len(k.handled) + Len(k.feed)
      BY <1>3, <2>3, <2>5, <3>1, Zenon DEF Reach
    <3> QED BY <1>1, <3>2, <3>3, Zenon
  <2> QED BY <1>3, <1>6, <2>1, <2>3, <2>5, <2>7, <2>8 DEF Ordered
<1> QED BY <1>5, <1>6 DEF InOrder

LEMMA IdentifiedInOrder ==
  ASSUME NEW k \in ConnStates, InOrder(k), k.hub \in {"new", "member"}, k.feed # <<>>, Head(k.feed) = Identify,
         NEW l, l.hub = "member", l.feed = Tail(k.feed), l.handled = k.handled,
         l.sent = k.sent, l.dropped = k.dropped, l.bridge = k.bridge, l.gone = k.gone, l.pending = k.pending,
         l.inbox = k.inbox
  PROVE  InOrder(l)
<1>1. /\ Ways(k) /\ k.feed \in Seq(Frames) /\ k.sent \in Seq(Requests)
      /\ Len(k.handled) \in Nat /\ Len(k.feed) \in Nat /\ Head(k.feed) # Gone
  BY LineThere, FramesDiffer DEF InOrder
<1>2. /\ Len(Tail(k.feed)) = Len(k.feed) - 1 /\ Len(k.feed) # 0
      /\ \A i \in 1..Len(Tail(k.feed)) : Tail(k.feed)[i] = k.feed[i + 1]
  <2> HIDE DEF Frames
  <2> QED BY <1>1
<1> DEFINE t == Tail(k.feed)
<1> HIDE DEF t
<1>3. Rest(l) = t /\ k.bridge \notin NoUpstream
  BY <1>1 DEF Rest, t, Ways
<1>4. NoGone(k.feed) => NoGone(t)
  <2> SUFFICES ASSUME NoGone(k.feed), NEW i \in 1..Len(t) PROVE t[i] # Gone
    BY DEF NoGone
  <2>1. i + 1 \in 1..Len(k.feed) /\ t[i] = k.feed[i + 1]
    BY <1>1, <1>2 DEF t
  <2> QED BY <2>1 DEF NoGone
<1>5. Ways(l)
  BY <1>1, <1>3, <1>4 DEF Ways, NoUpstream, t
<1>6. ASSUME Ordered(k) PROVE Ordered(l)
  <2>1. k.hub = "new"
    <3> SUFFICES ASSUME k.hub = "member" PROVE FALSE
      OBVIOUS
    <3>1. Lined(k.feed, Len(k.handled), k.sent)
      BY <1>6 DEF Ordered, Rest
    <3>2. Head(k.feed) = Ask(k.sent[Len(k.handled) + 1])
      BY <1>1, <3>1, LinedRead
    <3> QED BY <3>2, FramesDiffer
  <2>2. Rest(k) = t
    BY <2>1 DEF Rest, t
  <2>3. Reach(l) = Reach(k)
    BY <1>3, <2>2 DEF Reach
  <2> QED BY <1>3, <1>6, <2>2, <2>3 DEF Ordered, Starts
<1> QED BY <1>5, <1>6 DEF InOrder

-----------------------------------------------------------------------------
(* Every step leaves every connection in order. *)

LEMMA OInitially == Init => OInv
<1> SUFFICES ASSUME Init PROVE OInv
  OBVIOUS
<1>1. CInv
  BY CInitially
<1>2. \A c \in Sockets : conn[c] = Fresh
  BY DEF Init
<1>3. SockThere
  BY DEF Init, SockThere, Sockets, NoSocket
<1>4. Len(<<>>) = 0
  OBVIOUS
<1>5. InOrder(Fresh)
  <2>1. Ways(Fresh)
    BY <1>4, ConnectionAssumption DEF Ways, Fresh, NoUpstream, NoGone
  <2>2. Rest(Fresh) = <<>> /\ Reach(Fresh) = 0
    BY <1>4 DEF Rest, Reach, Fresh
  <2>3. Ordered(Fresh)
    BY <1>4, <2>2 DEF Ordered, Starts, Lined, Fresh
  <2> QED BY <2>1, <2>3 DEF InOrder
<1> QED BY <1>1, <1>2, <1>3, <1>5 DEF OInv

(* One connection changes, and is in order still. *)
Stays(j, k) == InOrder(k) /\ (k.bridge = "none" => j.bridge = "none")

LEMMA OneStays ==
  ASSUME OInv, CInv', client'.sock \in {client.sock, NoSocket}, NEW c \in Sockets, NEW k, Stays(conn[c], k),
         conn' = [conn EXCEPT ![c] = k]
  PROVE  OInv'
<1>1. \A d \in Sockets : conn'[d] = IF d = c THEN k ELSE conn[d]
  BY DEF OInv, CInv, Typed
<1>2. \A d \in Sockets : InOrder(conn'[d])
  BY <1>1 DEF OInv, Stays
<1>3. SockThere'
  BY <1>1, ConnectionAssumption DEF OInv, SockThere, Stays, Sockets, NoSocket
<1> QED BY <1>2, <1>3 DEF OInv

LEMMA NoneMoves ==
  ASSUME OInv, CInv', client'.sock \in {client.sock, NoSocket}, conn' = conn
  PROVE  OInv'
BY ConnectionAssumption DEF OInv, SockThere, Sockets, NoSocket

(* What goes to the client only. *)
LEMMA ToldStays ==
  ASSUME NEW k \in ConnStates, InOrder(k), NEW m \in Frames, NEW n \in Frames
  PROVE  /\ Stays(k, k) /\ Stays(k, ToClient(k, m)) /\ Stays(k, ToClient(ToClient(k, m), n))
<1>1. /\ SameWay(k, ToClient(k, m)) /\ ToClient(k, m) \in ConnStates /\ ToClient(k, m).client = k.client
  BY ToClientSame, ToClientKeeps
<1>2. InOrder(ToClient(k, m))
  BY <1>1, SameWayKeeps
<1>3. /\ SameWay(ToClient(k, m), ToClient(ToClient(k, m), n))
      /\ ToClient(ToClient(k, m), n).client = ToClient(k, m).client
  BY <1>1, ToClientSame
<1>4. InOrder(ToClient(ToClient(k, m), n))
  BY <1>2, <1>3, SameWayKeeps
<1> QED BY <1>1, <1>2, <1>3, <1>4 DEF Stays, SameWay

LEMMA UrlResolvedOrders == ASSUME OInv, CInv', UrlResolved PROVE OInv'
<1>1. client \in ClientStates /\ client.opened < MaxSockets
  BY DEF OInv, CInv, Typed, UrlResolved
<1>2. CASE client.state = "closed"
  BY <1>1, <1>2, NoneMoves DEF UrlResolved, ClientStates
<1>3. CASE client.state # "closed"
  <2> DEFINE c == client.opened + 1
             k == [conn[c] EXCEPT !.client = "connecting", !.bridge = "verifying"]
  <2>1. c \in Sockets /\ c > client.opened
    BY <1>1, ConnectionAssumption DEF Sockets, ClientStates
  <2>2. conn[c].bridge = "none" /\ conn[c].hub = "none" /\ conn[c] \in ConnStates /\ InOrder(conn[c])
    BY <2>1 DEF OInv, CInv, Typed, NotYetThere, NoUpstream
  <2>3. /\ k.hub = conn[c].hub /\ k.feed = conn[c].feed /\ k.sent = conn[c].sent
        /\ k.handled = conn[c].handled /\ k.dropped = conn[c].dropped /\ k.bridge = "verifying"
        /\ k.gone = conn[c].gone /\ k.pending = conn[c].pending /\ k.inbox = conn[c].inbox
    BY <2>2 DEF ConnStates
  <2>4. client' = [client EXCEPT !.step = "none", !.sock = c, !.opened = c]
    BY <1>3 DEF UrlResolved
  <2>5. conn' = [conn EXCEPT ![c] = k]
    BY <1>3, <2>1 DEF UrlResolved, OInv, CInv, Typed
  <2> HIDE DEF c, k
  <2>6. Ways(k)
    BY <2>2, <2>3 DEF InOrder, Ways, NoUpstream
  <2>7. Rest(k) = Rest(conn[c]) /\ Reach(k) = Reach(conn[c])
    BY <2>3 DEF Rest, Reach
  <2>8. Ordered(conn[c]) => Ordered(k)
    BY <2>2, <2>3, <2>7 DEF Ordered, Starts
  <2>9. InOrder(k)
    BY <2>2, <2>3, <2>6, <2>8 DEF InOrder
  <2>10. \A d \in Sockets : conn'[d] = IF d = c THEN k ELSE conn[d]
    BY <2>5 DEF OInv, CInv, Typed
  <2>11. client'.sock = c
    BY <1>1, <2>4 DEF ClientStates
  <2>12. SockThere'
    BY <2>1, <2>3, <2>10, <2>11 DEF SockThere
  <2>13. \A d \in Sockets : InOrder(conn'[d])
    BY <2>9, <2>10 DEF OInv
  <2> QED BY <2>12, <2>13 DEF OInv
<1> QED BY <1>2, <1>3

LEMMA CloseOrders == ASSUME OInv, CInv', Close PROVE OInv'
<1>1. conn' = [c \in Sockets |-> IF c = client.sock THEN ClosedBy(conn[c]) ELSE conn[c]]
  BY DEF Close
<1>2. client'.sock = NoSocket
  BY DEF Close, OInv, CInv, Typed, ClientStates
<1>3. ASSUME NEW c \in Sockets PROVE InOrder(conn'[c])
  <2>1. InOrder(conn[c]) /\ conn[c] \in ConnStates
    BY DEF OInv, CInv, Typed
  <2>2. CASE c = client.sock
    <3>1. conn[c].bridge # "none"
      BY <2>2 DEF OInv, SockThere
    <3>2. conn'[c] = ClosedBy(conn[c])
      BY <1>1, <2>2
    <3> QED BY <2>1, <3>1, <3>2, ClosedByInOrder
  <2>3. CASE c # client.sock
    BY <1>1, <2>1, <2>3
  <2> QED BY <2>2, <2>3
<1>4. SockThere'
  BY <1>2 DEF SockThere, Sockets, NoSocket
<1> QED BY <1>3, <1>4 DEF OInv

LEMMA RequestOrders == ASSUME OInv, CInv', NEW r \in Requests, Request(r) PROVE OInv'
<1>1. client' = client
  BY DEF Request
<1>2. CASE client.state = "open" /\ client.sock \in Sockets
  <2> DEFINE c == client.sock
             k == [conn[c] EXCEPT !.inbox = Append(@, Ask(r)), !.sent = Append(@, r)]
  <2>1. conn[c] \in ConnStates /\ InOrder(conn[c]) /\ conn[c].bridge # "none"
    BY <1>2 DEF OInv, CInv, Typed, SockThere
  <2>2. conn' = [conn EXCEPT ![c] = k]
    BY <1>2 DEF Request, OInv, CInv, Typed
  <2>3. InOrder(k)
    BY <2>1, AsksInOrder
  <2>4. k.bridge = conn[c].bridge
    BY <2>1 DEF ConnStates
  <2>5. Stays(conn[c], k)
    BY <2>3, <2>4 DEF Stays
  <2> HIDE DEF k
  <2> QED BY <1>1, <1>2, <2>2, <2>5, OneStays
<1>3. CASE ~(client.state = "open" /\ client.sock \in Sockets)
  <2>1. conn' = conn
    BY <1>3 DEF Request, OInv, CInv, Typed
  <2> QED BY <1>1, <2>1, NoneMoves
<1> QED BY <1>2, <1>3

LEMMA SocketOrders ==
  ASSUME OInv, CInv', NEW c \in Sockets, SocketOpens(c) \/ SocketCloses(c) \/ Receive(c) \/ ClientBreaks(c)
  PROVE  OInv'
<1>0. conn[c] \in ConnStates /\ InOrder(conn[c]) /\ Ways(conn[c]) /\ client \in ClientStates
  BY DEF OInv, CInv, Typed, InOrder
<1>1. client'.sock \in {client.sock, NoSocket}
  BY <1>0 DEF SocketOpens, SocketCloses, Receive, ClientBreaks, ClientStates
<1>2. conn[c].client # "none" => conn[c].bridge # "none"
  BY <1>0 DEF Ways
<1>3. CASE SocketOpens(c)
  <2> DEFINE k == [conn[c] EXCEPT !.client = "open"]
  <2>1. SameWay(conn[c], k)
    BY <1>0 DEF ConnStates, SameWay, SameLine
  <2>2. conn' = [conn EXCEPT ![c] = k] /\ conn[c].bridge # "none"
    BY <1>2, <1>3 DEF SocketOpens
  <2> HIDE DEF k
  <2>3. Stays(conn[c], k)
    BY <1>0, <2>1, <2>2, SameWayKeeps DEF Stays, SameWay
  <2> QED BY <1>1, <2>2, <2>3, OneStays
<1>4. CASE SocketCloses(c)
  <2>1. conn' = [conn EXCEPT ![c] = ClosedBy(conn[c])] /\ conn[c].bridge # "none"
    BY <1>2, <1>4 DEF SocketCloses
  <2>2. Stays(conn[c], ClosedBy(conn[c]))
    BY <1>0, <2>1, ClosedByInOrder, ClosedByKeeps DEF Stays
  <2> QED BY <1>1, <2>1, <2>2, OneStays
<1>5. CASE Receive(c)
  <2> DEFINE k == [conn[c] EXCEPT !.out = Tail(@)]
  <2>1. SameWay(conn[c], k) /\ k.client = conn[c].client
    BY <1>0 DEF ConnStates, SameWay, SameLine
  <2>2. conn' = [conn EXCEPT ![c] = k]
    BY <1>5 DEF Receive
  <2> HIDE DEF k
  <2>3. Stays(conn[c], k)
    BY <1>0, <2>1, SameWayKeeps DEF Stays, SameWay
  <2> QED BY <1>1, <2>2, <2>3, OneStays
<1>6. CASE ClientBreaks(c)
  <2>1. PICK i \in Truncated(conn[c].inbox), o \in Truncated(conn[c].out) :
          conn' = [conn EXCEPT ![c].inbox = i, ![c].out = o]
    BY <1>6 DEF ClientBreaks
  <2>2. conn[c].inbox \in Seq(Frames) /\ conn[c].inbox \o <<Gone>> = Append(conn[c].inbox, Gone)
    <3>1. conn[c].inbox \in Seq(Frames)
      BY <1>0 DEF ConnStates
    <3> QED BY <3>1, FramesThere, AppendIsConcat
  <2>3. i \in {Append(conn[c].inbox, Gone), <<Gone>>}
    BY <2>2 DEF Truncated
  <2> DEFINE k == [conn[c] EXCEPT !.inbox = i, !.out = o]
  <2>4. SameLine(conn[c], k) /\ k.bridge = conn[c].bridge /\ k.gone = conn[c].gone
        /\ k.pending = conn[c].pending /\ k.inbox = i
    BY <1>0 DEF ConnStates, SameLine
  <2>5. conn' = [conn EXCEPT ![c] = k] /\ conn[c].bridge # "none"
    BY <1>2, <1>6, <2>1 DEF ClientBreaks, OInv, CInv, Typed
  <2> HIDE DEF k
  <2>6. Stays(conn[c], k)
    BY <1>0, <2>3, <2>4, <2>5, ClosesInOrder DEF Stays
  <2> QED BY <1>1, <2>5, <2>6, OneStays
<1> QED BY <1>3, <1>4, <1>5, <1>6

LEMMA BridgeOrders ==
  ASSUME OInv, CInv', NEW c \in Sockets,
         FromClient(c) \/ Resolves(c) \/ Rejects(c) \/ AgentRefuses(c) \/ UpstreamOpens(c)
  PROVE  OInv'
<1>0. conn[c] \in ConnStates /\ InOrder(conn[c]) /\ Ways(conn[c])
  BY DEF OInv, CInv, Typed, InOrder
<1>1. client'.sock \in {client.sock, NoSocket}
  BY DEF FromClient, Resolves, Rejects, AgentRefuses, UpstreamOpens
<1>2. CASE FromClient(c)
  <2> DEFINE m == Head(conn[c].inbox)
             k == [conn[c] EXCEPT !.inbox = Tail(@)]
             l == IF m = Gone THEN Leaves(k) ELSE Forward(k, m)
  <2>1. conn[c].inbox # <<>> /\ conn[c].bridge # "none" /\ conn' = [conn EXCEPT ![c] = l]
    BY <1>0, <1>2 DEF FromClient, Ways
  <2>2. m \in Frames /\ Tail(conn[c].inbox) \in Seq(Frames)
    BY <1>0, <2>1, SequencesThere DEF ConnStates
  <2>3. k \in ConnStates
    BY <1>0, <2>2 DEF ConnStates
  <2>4. InOrder(l)
    <3>1. CASE m # Gone
      <4>1. InOrder(Forward(k, m))
        BY <1>0, <2>1, <3>1, ForwardInOrder
      <4> QED BY <3>1, <4>1
    <3>2. CASE m = Gone
      <4>1. SameLine(conn[c], k) /\ k.bridge = conn[c].bridge /\ k.gone = conn[c].gone /\ k.pending = conn[c].pending
        BY <1>0 DEF ConnStates, SameLine
      <4>2. InOrder(Leaves(k))
        <5> HIDE DEF k
        <5> QED BY <1>0, <2>1, <2>3, <4>1, LeavesInOrder
      <4> QED BY <3>2, <4>2
    <3> QED BY <3>1, <3>2
  <2>5. l.bridge # "none"
    <3>1. k.bridge = conn[c].bridge
      BY <1>0 DEF ConnStates
    <3> HIDE DEF k, m
    <3> QED BY <2>1, <2>2, <2>3, <3>1, LeavesKeeps, ForwardKeeps
  <2> HIDE DEF l
  <2> QED BY <1>1, <2>1, <2>4, <2>5, OneStays DEF Stays
<1>3. CASE Resolves(c)
  <2> DEFINE b == IF conn[c].gone \/ (conn[c].out # <<>> /\ Last(conn[c].out) = Gone) THEN "over" ELSE "dialing"
             k == [conn[c] EXCEPT !.bridge = b]
  <2>1. conn' = [conn EXCEPT ![c] = k] /\ conn[c].bridge = "verifying"
    BY <1>3 DEF Resolves, OInv, CInv, Typed
  <2>2. b \in {"over", "dialing"} /\ (b = "dialing" => ~conn[c].gone)
    OBVIOUS
  <2> HIDE DEF b
  <2>3. /\ SameLine(conn[c], k) /\ k.bridge = b /\ k.gone = conn[c].gone /\ k.pending = conn[c].pending
        /\ k.inbox = conn[c].inbox
    BY <1>0 DEF ConnStates, SameLine
  <2> HIDE DEF k
  <2>4. CASE b = "over"
    BY <1>0, <1>1, <2>1, <2>3, <2>4, StopKeeps, OneStays DEF Stays
  <2>5. CASE b = "dialing"
    <3>1. Ways(k)
      BY <1>0, <2>1, <2>2, <2>3, <2>5 DEF Ways, SameLine, NoUpstream
    <3>2. Rest(k) = Rest(conn[c]) /\ Reach(k) = Reach(conn[c])
      BY <2>3 DEF Rest, Reach, SameLine
    <3>3. Ordered(conn[c]) => Ordered(k)
      BY <2>1, <2>3, <2>5, <3>2 DEF Ordered, Starts, SameLine
    <3>4. Stays(conn[c], k)
      BY <1>0, <2>3, <2>5, <3>1, <3>3 DEF InOrder, Stays, SameLine
    <3> QED BY <1>1, <2>1, <3>4, OneStays
  <2> QED BY <2>2, <2>4, <2>5
<1>4. CASE Rejects(c) \/ AgentRefuses(c)
  <2> DEFINE told == ToClient(conn[c], Gone)
             k == [told EXCEPT !.bridge = "over"]
  <2>1. told \in ConnStates /\ SameWay(conn[c], told)
    BY <1>0, ToClientKeeps, ToClientSame, FramesThere
  <2>2. conn' = [conn EXCEPT ![c] = k]
    BY <1>4 DEF Rejects, AgentRefuses
  <2> HIDE DEF told
  <2>3. SameLine(told, k) /\ k.bridge = "over" /\ k.pending = told.pending
    BY <2>1 DEF ConnStates, SameLine
  <2> HIDE DEF k
  <2>4. SameLine(conn[c], k) /\ k.pending = conn[c].pending
    BY <2>1, <2>3 DEF SameWay, SameLine
  <2>5. Stays(conn[c], k)
    BY <1>0, <2>3, <2>4, StopKeeps DEF Stays
  <2> QED BY <1>1, <2>2, <2>5, OneStays
<1>5. CASE UpstreamOpens(c)
  <2> DEFINE feed == <<Identify>> \o conn[c].pending
             k == [conn[c] EXCEPT !.bridge = "open", !.hub = "new", !.feed = feed, !.pending = <<>>]
  <2>1. conn' = [conn EXCEPT ![c] = k] /\ conn[c].bridge = "dialing"
    BY <1>5 DEF UpstreamOpens, OInv, CInv, Typed
  <2>2. InOrder(k)
    BY <1>0, <2>1, OpensInOrder
  <2>3. k.bridge = "open"
    BY <1>0 DEF ConnStates
  <2> HIDE DEF k
  <2> QED BY <1>1, <2>1, <2>2, <2>3, OneStays DEF Stays
<1> QED BY <1>2, <1>3, <1>4, <1>5

LEMMA HubReceivesOrders == ASSUME OInv, CInv', NEW c \in Sockets, HubReceives(c) PROVE OInv'
<1> DEFINE j == conn[c]
           m == Head(conn[c].feed)
           k == [conn[c] EXCEPT !.feed = Tail(@)]
<1>0. j \in ConnStates /\ InOrder(j) /\ Ways(j) /\ j.feed \in Seq(Frames) /\ j.handled \in Seq(Requests)
  BY DEF OInv, CInv, Typed, InOrder, ConnStates
<1>1. j.feed # <<>> /\ j.hub \in {"new", "member"} /\ j.bridge # "none" /\ client' = client
  BY <1>0 DEF HubReceives, Ways, NoUpstream
<1>2. m \in Frames /\ Tail(j.feed) \in Seq(Frames)
  BY <1>0, <1>1, SequencesThere
<1>3. /\ k \in ConnStates /\ k.hub = j.hub /\ k.feed = Tail(j.feed) /\ k.sent = j.sent /\ k.handled = j.handled
      /\ k.dropped = j.dropped /\ k.bridge = j.bridge /\ k.gone = j.gone /\ k.pending = j.pending
      /\ k.inbox = j.inbox
  BY <1>0, <1>2 DEF ConnStates
<1>4. \/ m = Gone /\ conn' = [conn EXCEPT ![c] = Removed(k)]
      \/ m = Identify /\ conn' = [conn EXCEPT ![c] = [ToClient(k, Hello) EXCEPT !.hub = "member"]]
      \/ m.type = "ask" /\ k.hub = "new"
      \/ /\ m.type = "ask" /\ k.hub = "member" /\ m.r \in Pings
         /\ conn' = [conn EXCEPT ![c] = [ToClient(k, Reply(m.r)) EXCEPT !.handled = Append(@, m.r)]]
      \/ /\ m.type = "ask" /\ k.hub = "member" /\ m.r \in Execs
         /\ conn' = [conn EXCEPT ![c] = [k EXCEPT !.handled = Append(@, m.r)]]
  BY DEF HubReceives
<1>5. ~(m.type = "ask" /\ k.hub = "new")
  BY <1>0, <1>3, FramesDiffer DEF Ways
<1> HIDE DEF k
(* What the connection becomes when it is told of the frame. *)
<1> DEFINE Like(l) == /\ l.feed = Tail(j.feed) /\ l.sent = j.sent /\ l.dropped = j.dropped /\ l.bridge = j.bridge
                      /\ l.gone = j.gone /\ l.pending = j.pending /\ l.inbox = j.inbox
<1>6. CASE m = Gone /\ conn' = [conn EXCEPT ![c] = Removed(k)]
  <2>1. j.bridge = "over"
    <3>1. 1 \in 1..Len(j.feed) /\ j.feed[1] = Gone
      <4> HIDE DEF Frames
      <4> QED BY <1>0, <1>1, <1>6
    <3> QED BY <1>0, <3>1 DEF Ways, NoGone
  <2> DEFINE l == Removed(k)
  <2>2. /\ l.hub = "removed" /\ l.feed = <<>> /\ l.bridge = "over" /\ l.sent = j.sent /\ l.handled = j.handled
        /\ l.dropped = j.dropped /\ l.pending = j.pending
    BY <1>3, <2>1 DEF Removed, ConnStates
  <2> HIDE DEF l
  <2>3. InOrder(l)
    BY <1>0, <2>2, RemovedInOrder
  <2>4. conn' = [conn EXCEPT ![c] = l] /\ client'.sock \in {client.sock, NoSocket}
    BY <1>1, <1>6 DEF l
  <2> QED BY <2>2, <2>3, <2>4, OneStays DEF Stays
<1>7. CASE m = Identify /\ conn' = [conn EXCEPT ![c] = [ToClient(k, Hello) EXCEPT !.hub = "member"]]
  <2> DEFINE told == ToClient(k, Hello)
             l == [told EXCEPT !.hub = "member"]
  <2>1. told \in ConnStates /\ SameWay(k, told)
    BY <1>3, ToClientKeeps, ToClientSame, FramesThere
  <2>2. conn' = [conn EXCEPT ![c] = l] /\ client'.sock \in {client.sock, NoSocket}
    BY <1>1, <1>7
  <2> HIDE DEF told
  <2>3. /\ l.hub = "member" /\ l.feed = told.feed /\ l.sent = told.sent /\ l.handled = told.handled
        /\ l.dropped = told.dropped /\ l.bridge = told.bridge /\ l.gone = told.gone
        /\ l.pending = told.pending /\ l.inbox = told.inbox
    BY <2>1 DEF ConnStates
  <2> HIDE DEF l
  <2>4. Like(l) /\ l.handled = j.handled
    BY <1>3, <2>1, <2>3 DEF SameWay, SameLine
  <2>5. InOrder(l)
    BY <1>0, <1>1, <1>7, <2>3, <2>4, IdentifiedInOrder
  <2>6. Stays(conn[c], l)
    BY <1>1, <2>4, <2>5 DEF Stays
  <2> QED BY <2>2, <2>6, OneStays
<1>8. CASE /\ m.type = "ask" /\ k.hub = "member" /\ m.r \in Pings
           /\ conn' = [conn EXCEPT ![c] = [ToClient(k, Reply(m.r)) EXCEPT !.handled = Append(@, m.r)]]
  <2> DEFINE told == ToClient(k, Reply(m.r))
             l == [told EXCEPT !.handled = Append(@, m.r)]
  <2>0. m.r \in Requests
    BY <1>8 DEF Requests
  <2>1. told \in ConnStates /\ SameWay(k, told)
    BY <1>3, <2>0, ToClientKeeps, ToClientSame, FramesThere
  <2>2. conn' = [conn EXCEPT ![c] = l] /\ client'.sock \in {client.sock, NoSocket}
    BY <1>1, <1>8
  <2> HIDE DEF told
  <2>3. /\ l.hub = told.hub /\ l.feed = told.feed /\ l.sent = told.sent /\ l.handled = Append(told.handled, m.r)
        /\ l.dropped = told.dropped /\ l.bridge = told.bridge /\ l.gone = told.gone
        /\ l.pending = told.pending /\ l.inbox = told.inbox
    BY <2>1 DEF ConnStates
  <2> HIDE DEF l
  <2>4. Like(l) /\ l.handled = Append(j.handled, m.r) /\ l.hub = "member"
    BY <1>3, <1>8, <2>1, <2>3 DEF SameWay, SameLine
  <2>5. InOrder(l)
    BY <1>0, <1>1, <1>3, <1>8, <2>0, <2>4, HandledInOrder
  <2>6. Stays(conn[c], l)
    BY <1>1, <2>4, <2>5 DEF Stays
  <2> QED BY <2>2, <2>6, OneStays
<1>9. CASE /\ m.type = "ask" /\ k.hub = "member" /\ m.r \in Execs
           /\ conn' = [conn EXCEPT ![c] = [k EXCEPT !.handled = Append(@, m.r)]]
  <2> DEFINE l == [k EXCEPT !.handled = Append(@, m.r)]
  <2>0. m.r \in Requests
    BY <1>9 DEF Requests
  <2>2. conn' = [conn EXCEPT ![c] = l] /\ client'.sock \in {client.sock, NoSocket}
    BY <1>1, <1>9
  <2>3. /\ l.hub = k.hub /\ l.feed = k.feed /\ l.sent = k.sent /\ l.handled = Append(k.handled, m.r)
        /\ l.dropped = k.dropped /\ l.bridge = k.bridge /\ l.gone = k.gone
        /\ l.pending = k.pending /\ l.inbox = k.inbox
    BY <1>3 DEF ConnStates
  <2> HIDE DEF l
  <2>4. Like(l) /\ l.handled = Append(j.handled, m.r) /\ l.hub = "member"
    BY <1>3, <1>9, <2>3
  <2>5. InOrder(l)
    BY <1>0, <1>1, <1>3, <1>9, <2>0, <2>4, HandledInOrder
  <2>6. Stays(conn[c], l)
    BY <1>1, <2>4, <2>5 DEF Stays
  <2> QED BY <2>2, <2>6, OneStays
<1> QED BY <1>4, <1>5, <1>6, <1>7, <1>8, <1>9

LEMMA HubClosesOrders == ASSUME OInv, CInv', NEW c \in Sockets, HubCloses(c) PROVE OInv'
<1>1. conn[c] \in ConnStates /\ InOrder(conn[c])
  BY DEF OInv, CInv, Typed
<1>2. Stays(conn[c], TurnedAway(conn[c]))
  BY <1>1, TurnedAwayInOrder, TurnedAwayKeeps DEF Stays
<1>3. conn' = [conn EXCEPT ![c] = TurnedAway(conn[c])] /\ client'.sock \in {client.sock, NoSocket}
  BY DEF HubCloses
<1> QED BY <1>2, <1>3, OneStays

LEMMA AgentStopsOrders == ASSUME OInv, CInv', AgentStops PROVE OInv'
<1>1. ASSUME NEW c \in Sockets PROVE InOrder(conn'[c]) /\ (conn'[c].bridge = "none" => conn[c].bridge = "none")
  <2>1. conn[c] \in ConnStates /\ InOrder(conn[c])
    BY DEF OInv, CInv, Typed
  <2>2. conn'[c] \in {conn[c], TurnedAway(conn[c])}
    BY DEF AgentStops
  <2> QED BY <2>1, <2>2, TurnedAwayInOrder, TurnedAwayKeeps
<1>2. SockThere'
  BY <1>1 DEF OInv, SockThere, AgentStops
<1> QED BY <1>1, <1>2 DEF OInv

LEMMA ProcessOrders ==
  ASSUME OInv, CInv', NEW e \in Execs,
         \/ ProcessStarts(e) \/ ProcessRefused(e) \/ ProcessTold(e) \/ SpawnFails(e)
         \/ ProcessWrites(e) \/ ChunkRead(e) \/ ProcessKilled(e) \/ ProcessEnds(e) \/ ProcessExits(e)
  PROVE  OInv'
<1> DEFINE c == proc[e].owner
           j == conn[c]
<1>1. /\ proc[e] \in ProcStates /\ e \in Requests /\ client'.sock \in {client.sock, NoSocket}
      /\ c \in Sockets => j \in ConnStates /\ InOrder(j)
      /\ proc[e].read + 1 \in Nat
  <2>1. proc[e] \in ProcStates
    BY DEF OInv, CInv, Typed
  <2>2. proc[e].read + 1 \in Nat
    BY <2>1 DEF ProcStates
  <2>3. client'.sock \in {client.sock, NoSocket}
    BY DEF ProcessStarts, ProcessRefused, ProcessTold, SpawnFails, ProcessWrites, ChunkRead, ProcessKilled, ProcessEnds,
           ProcessExits
  <2> QED BY <2>1, <2>2, <2>3 DEF OInv, CInv, Typed, Requests
<1>2. \/ conn' = conn
      \/ \E m \in Frames : ToOwner(e, m)
      \/ \E m, n \in Frames :
           conn' = [conn EXCEPT ![c] = IF j.hub = "member" THEN ToClient(ToClient(j, m), n) ELSE j]
  <2>1. /\ Refusal(e) \in Frames /\ Reply(e) \in Frames /\ Exited(e) \in Frames /\ Output(e, 1) \in Frames
        /\ Output(e, proc[e].read + 1) \in Frames
    BY <1>1, FramesThere
  <2>2. ProcessRefused(e) => ToOwner(e, Refusal(e))
    BY <1>1 DEF ProcessRefused, ToOwner, OInv, CInv, Typed
  <2>3. SpawnFails(e) =>
          conn' = [conn EXCEPT ![c] = IF j.hub = "member" THEN ToClient(ToClient(j, Output(e, 1)), Exited(e)) ELSE j]
    BY DEF SpawnFails
  <2> QED BY <2>1, <2>2, <2>3 DEF ProcessStarts, ProcessTold, ProcessWrites, ChunkRead, ProcessKilled,
             ProcessEnds, ProcessExits
<1>3. CASE conn' = conn
  BY <1>1, <1>3, NoneMoves
<1>4. CASE c \notin Sockets
  BY <1>1, <1>2, <1>4, NoneMoves DEF ToOwner, OInv, CInv, Typed
<1>5. CASE c \in Sockets /\ \E m \in Frames : ToOwner(e, m)
  <2>1. PICK m \in Frames : ToOwner(e, m)
    BY <1>5
  <2> DEFINE k == IF j.hub = "member" THEN ToClient(j, m) ELSE j
  <2>2. Stays(j, k)
    BY <1>1, <1>5, ToldStays
  <2>3. conn' = [conn EXCEPT ![c] = k]
    BY <2>1 DEF ToOwner
  <2> HIDE DEF k
  <2> QED BY <1>1, <1>5, <2>2, <2>3, OneStays
<1>6. CASE /\ c \in Sockets
           /\ \E m, n \in Frames :
                conn' = [conn EXCEPT ![c] = IF j.hub = "member" THEN ToClient(ToClient(j, m), n) ELSE j]
  <2>1. PICK m, n \in Frames :
          conn' = [conn EXCEPT ![c] = IF j.hub = "member" THEN ToClient(ToClient(j, m), n) ELSE j]
    BY <1>6
  <2> DEFINE k == IF j.hub = "member" THEN ToClient(ToClient(j, m), n) ELSE j
  <2>2. Stays(j, k)
    BY <1>1, <1>6, ToldStays
  <2>3. conn' = [conn EXCEPT ![c] = k]
    BY <2>1
  <2> HIDE DEF k
  <2> QED BY <1>1, <1>6, <2>2, <2>3, OneStays
<1> QED BY <1>2, <1>3, <1>4, <1>5, <1>6

LEMMA StepOrders == OInv /\ [Next]_vars => OInv'
<1> SUFFICES ASSUME OInv, [Next]_vars PROVE OInv'
  OBVIOUS
<1>0. CInv'
  BY StepKeeps DEF OInv
<1>1. CASE UNCHANGED vars
  BY <1>0, <1>1, NoneMoves DEF vars
<1>2. CASE UrlResolved \/ Close
  BY <1>0, <1>2, UrlResolvedOrders, CloseOrders
<1>3. CASE UrlFails \/ ReconnectTimer \/ GiveUp \/ \E r \in Requests : RequestTimesOut(r)
  <2>1. conn' = conn /\ client'.sock \in {client.sock, NoSocket}
    BY <1>3 DEF UrlFails, ReconnectTimer, GiveUp, RequestTimesOut, OInv, CInv, Typed, ClientStates
  <2> QED BY <1>0, <2>1, NoneMoves
<1>4. CASE \E r \in Requests : Request(r)
  BY <1>0, <1>4, RequestOrders
<1>5. CASE \E c \in Sockets : SocketOpens(c) \/ SocketCloses(c) \/ Receive(c) \/ ClientBreaks(c)
  BY <1>0, <1>5, SocketOrders
<1>6. CASE \E c \in Sockets : FromClient(c) \/ Resolves(c) \/ Rejects(c) \/ AgentRefuses(c) \/ UpstreamOpens(c)
  BY <1>0, <1>6, BridgeOrders
<1>7. CASE AgentStops \/ \E c \in Sockets : HubReceives(c) \/ HubCloses(c)
  BY <1>0, <1>7, HubReceivesOrders, HubClosesOrders, AgentStopsOrders
<1>8. CASE \E e \in Execs :
             \/ ProcessStarts(e) \/ ProcessRefused(e) \/ ProcessTold(e) \/ SpawnFails(e)
             \/ ProcessWrites(e) \/ ChunkRead(e) \/ ProcessKilled(e) \/ ProcessEnds(e) \/ ProcessExits(e)
  BY <1>0, <1>8, ProcessOrders
<1> QED BY <1>1, <1>2, <1>3, <1>4, <1>5, <1>6, <1>7, <1>8 DEF Next

(* The agent handles the frames of a connection in the order in which the client
   sent them and leaves none out (bridge.ts holds back what arrives before the
   upstream is open and puts it behind the `identify`), however many there are,
   until the bridge has turned the client away for sending too much too early. *)
THEOREM FramesKeepTheirOrder == Spec => []FramesInOrder
<1>1. OInv => FramesInOrder
  <2> SUFFICES ASSUME OInv, NEW c \in Sockets, ~conn[c].dropped
               PROVE  IsPrefix(conn[c].handled, conn[c].sent)
    BY DEF FramesInOrder
  <2> DEFINE s == conn[c].handled
             t == conn[c].sent
  <2>1. Ordered(conn[c]) /\ s \in Seq(Requests) /\ t \in Seq(Requests)
    BY DEF OInv, InOrder, CInv, Typed, ConnStates
  <2>2. Starts(conn[c])
    BY <2>1 DEF Ordered
  <2>3. Len(s) <= Len(t) /\ \A i \in 1..Len(s) : s[i] = t[i]
    BY <2>2 DEF Starts
  <2> HIDE DEF s, t
  <2>4. SubSeq(s, 1, Len(s)) = SubSeq(t, 1, Len(s))
    <3> DEFINE u == SubSeq(t, 1, Len(s))
    <3>1. u \in Seq(Requests) /\ Len(u) = Len(s) /\ \A i \in 1..Len(s) : u[i] = s[i]
      BY <2>1, <2>3
    <3> HIDE DEF u
    <3>2. u = s
      BY <2>1, <3>1, SeqEqual
    <3>3. SubSeq(s, 1, Len(s)) = s
      BY <2>1
    <3> QED BY <3>2, <3>3 DEF u
  <2> QED BY <2>1, <2>3, <2>4 DEF IsPrefix, s, t
<1> QED BY <1>1, OInitially, StepOrders, PTL DEF Spec
=============================================================================
