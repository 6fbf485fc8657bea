--------------------------- MODULE SessionsProofs ----------------------------
(***************************************************************************)
(* Proofs about Sessions.  Both properties are about what a client that is *)
(* still connected would have made of everything that is on its way to it: *)
(* a fold over its queue.  That changes only by what a step sends, so that *)
(* reading the queue changes nothing, and each step is followed by its     *)
(* messages alone.                                                         *)
(***************************************************************************)
EXTENDS Sessions, SequenceTheorems, TLAPS

U == INSTANCE Folding WITH Op <- Understood

-----------------------------------------------------------------------------
(* What there is: the invariant's types.                                     *)

GridsSeen == Grids \cup {Unopened.grid}
Chunks == [from : Int, to : Int]
Buffers == Seq(Chunks)
Opens == [at : {"unopened", "live", "exited", "disposed"}, attached : SUBSET Clients, made : Int, scrollback : Buffers,
          grid : GridsSeen, told : {"none", "hup", "kill"}, timer : BOOLEAN]
Screens == [from : Int, to : Int, torn : BOOLEAN, grid : GridsSeen]
Heres == {<<>>} \cup UNION {[M -> SUBSET Ids] : M \in SUBSET Clients}
Pages == [list : SUBSET Ids, here : Heres, screen : [Ids -> Screens]]

Snapshots == {<<>>} \cup {<<k>> : k \in Chunks}
Messages ==
  [type : {"hello"}, list : SUBSET Ids, here : Heres]
  \cup [type : {"presence"}, here : Heres]
  \cup [type : {"opened", "exit"}, s : Ids]
  \cup [type : {"output"}, s : Ids, chunk : Chunks]
  \cup [type : {"resized"}, s : Ids, grid : GridsSeen]
  \cup [type : {"attached"}, s : Ids, snapshot : Snapshots, made : Int, grid : GridsSeen]

Typed ==
  /\ session \in [Ids -> Opens]
  /\ member \in [Clients -> {"new", "member", "gone"}]
  /\ queue \in [Clients -> Seq(Messages)]
  /\ page = [c \in Clients |-> page[c]]
  /\ up \subseteq Clients

(* Who is attached is a member, and to a session that is live; what is kept
   ends where the output does. *)
Watched == \A s \in Ids : /\ session[s].attached \subseteq Members
                          /\ session[s].at # "live" => session[s].attached = {}
EndsAt(chunks, n) == chunks = <<>> \/ chunks[Len(chunks)].to = n
Kept == \A s \in Ids : session[s].at = "live" => EndsAt(session[s].scrollback, session[s].made)

(* What a page should show, of the sessions S and the members M. *)
Live(S) == {s \in Ids : S[s].at = "live"}
Here(S, M) == [c \in M |-> {s \in Ids : S[s].at = "live" /\ c \in S[s].attached}]
Follows(x, y) == x.torn = FALSE /\ x.to = y.made /\ x.grid = y.grid
Agrees(d, c, S, M) ==
  /\ d \in Pages
  /\ c \in M => d.list = Live(S) /\ d.here = Here(S, M)
  /\ \A s \in Ids : S[s].at = "live" /\ c \in S[s].attached => Follows(d.screen[s], S[s])

(* What client c has made of its messages once it has read them all. *)
Ahead(c) == U!Fold(page[c], queue[c])

SInv ==
  /\ Typed /\ Watched /\ Kept
  /\ \A c \in up : Agrees(Ahead(c), c, session, Members)

-----------------------------------------------------------------------------
(* The fold, of what is sent and of what is read.                            *)

LEMMA FoldsAreFolds ==
  ASSUME NEW p, NEW q
  PROVE  FoldLeft(Understood, p, q) = U!Fold(p, q)
BY DEF U!Fold, FoldLeft, MapThenFoldSet, Max, U!FoldLeft, U!MapThenFoldSet, U!Max

LEMMA FoldOne ==
  ASSUME NEW p, NEW m \in Messages
  PROVE  <<m>> \in Seq(Messages) /\ U!Fold(p, <<m>>) = Understood(p, m)
<1>1. <<>> \in Seq(Messages) /\ Append(<<>>, m) = <<m>> /\ <<m>> \in Seq(Messages)
  OBVIOUS
<1>2. U!Fold(p, Append(<<>>, m)) = Understood(U!Fold(p, <<>>), m)
  BY <1>1, U!AfterAppend, Zenon
<1> QED BY <1>1, <1>2, U!FoldNone, Zenon

LEMMA FoldTwo ==
  ASSUME NEW p, NEW m \in Messages, NEW n \in Messages
  PROVE  <<m, n>> \in Seq(Messages) /\ U!Fold(p, <<m, n>>) = Understood(Understood(p, m), n)
<1>1. <<m>> \in Seq(Messages) /\ Append(<<m>>, n) = <<m, n>> /\ <<m, n>> \in Seq(Messages)
  <2>1. <<m>> \in Seq(Messages) /\ <<m, n>> \in Seq(Messages) /\ Append(<<m>>, n) \in Seq(Messages)
    OBVIOUS
  <2>2. Len(<<m, n>>) = 2 /\ Len(Append(<<m>>, n)) = 2
    OBVIOUS
  <2>3. \A i \in 1..2 : Append(<<m>>, n)[i] = <<m, n>>[i]
    OBVIOUS
  <2> QED BY <2>1, <2>2, <2>3, SeqEqual
<1>2. U!Fold(p, Append(<<m>>, n)) = Understood(U!Fold(p, <<m>>), n)
  BY <1>1, U!AfterAppend, Zenon
<1> QED BY <1>1, <1>2, FoldOne, Zenon

(* Those that hear of it, and are connected, have that much more to read. *)
LEMMA SendTyped ==
  ASSUME NEW q, NEW to, NEW ms, q \in [Clients -> Seq(Messages)], ms \in Seq(Messages)
  PROVE  Send(q, to, ms) \in [Clients -> Seq(Messages)]
<1>1. Send(q, to, ms) = [k \in Clients |-> IF k \in to \cap up THEN q[k] \o ms ELSE q[k]]
  BY DEF Send
<1>2. \A k \in Clients : q[k] \o ms \in Seq(Messages)
  OBVIOUS
<1> QED BY <1>1, <1>2

LEMMA SendGives ==
  ASSUME NEW q, NEW to, NEW ms, NEW c \in Clients
  PROVE  /\ c \in up /\ c \in to => Send(q, to, ms)[c] = q[c] \o ms
         /\ c \notin to => Send(q, to, ms)[c] = q[c]
BY DEF Send

-----------------------------------------------------------------------------
(* What is sent.                                                             *)

LEMMA OfTheHub ==
  ASSUME NEW S \in [Ids -> Opens], NEW M \in SUBSET Clients
  PROVE  Hello(S, M) \in Messages /\ Presence(S, M) \in Messages
<1>1. Here(S, M) \in Heres /\ Live(S) \in SUBSET Ids
  BY DEF Here, Heres, Live
<1>2. /\ Hello(S, M) = [type |-> "hello", list |-> Live(S), here |-> Here(S, M)]
      /\ Presence(S, M) = [type |-> "presence", here |-> Here(S, M)]
  BY DEF Hello, Presence, Live, Here
<1> QED BY <1>1, <1>2 DEF Messages

LEMMA OfASession ==
  ASSUME NEW s \in Ids
  PROVE  /\ Opened(s) \in Messages /\ Exited(s) \in Messages
         /\ \A k \in Chunks : Output(s, k) \in Messages
         /\ \A g \in GridsSeen : Resized(s, g) \in Messages
BY DEF Opened, Exited, Output, Resized, Messages

LEMMA SnapshotIs ==
  ASSUME NEW q \in Seq(Chunks)
  PROVE  /\ Snapshot(q) \in Snapshots
         /\ q # <<>> => Snapshot(q) = <<Chunk(q[1].from, q[Len(q)].to)>> /\ q[1].from \in Int
         /\ q = <<>> => Snapshot(q) = <<>>
<1>1. q # <<>> => /\ Len(q) \in Nat \ {0} /\ Head(q) = q[1] /\ q[1] \in Chunks /\ q[Len(q)] \in Chunks
  OBVIOUS
<1>2. q # <<>> => Chunk(q[1].from, q[Len(q)].to) \in Chunks /\ q[1].from \in Int
  BY <1>1 DEF Chunk, Chunks
<1>3. q # <<>> => Snapshot(q) = <<Chunk(q[1].from, q[Len(q)].to)>>
  BY <1>1 DEF Snapshot, Last
<1>4. q = <<>> => Snapshot(q) = <<>>
  BY DEF Snapshot
<1>5. Snapshot(q) \in Snapshots
  BY <1>2, <1>3, <1>4 DEF Snapshots
<1> QED BY <1>2, <1>3, <1>4, <1>5

LEMMA OfAnAttachment ==
  ASSUME NEW s \in Ids, NEW x \in Opens
  PROVE  Attached(s, x) \in Messages
<1>1. x.scrollback \in Seq(Chunks) /\ x.made \in Int /\ x.grid \in GridsSeen
  BY DEF Opens, Buffers
<1>2. Snapshot(x.scrollback) \in Snapshots
  BY <1>1, SnapshotIs
<1> QED BY <1>1, <1>2 DEF Attached, Messages

-----------------------------------------------------------------------------
(* What each message makes of a page.                                        *)

LEMMA OfHello ==
  ASSUME NEW d \in Pages, NEW S \in [Ids -> Opens], NEW M \in SUBSET Clients
  PROVE  /\ Understood(d, Hello(S, M)) \in Pages
         /\ Understood(d, Hello(S, M)).list = Live(S)
         /\ Understood(d, Hello(S, M)).here = Here(S, M)
         /\ Understood(d, Hello(S, M)).screen = d.screen
<1>1. Here(S, M) \in Heres /\ Live(S) \in SUBSET Ids
  BY DEF Here, Heres, Live
<1>2. Hello(S, M) = [type |-> "hello", list |-> Live(S), here |-> Here(S, M)]
  BY DEF Hello, Live, Here
<1>3. Understood(d, Hello(S, M)) = [d EXCEPT !.list = Live(S), !.here = Here(S, M)]
  BY <1>2 DEF Understood
<1> QED BY <1>1, <1>3 DEF Pages

LEMMA OfPresence ==
  ASSUME NEW d \in Pages, NEW S \in [Ids -> Opens], NEW M \in SUBSET Clients
  PROVE  /\ Understood(d, Presence(S, M)) \in Pages
         /\ Understood(d, Presence(S, M)).list = d.list
         /\ Understood(d, Presence(S, M)).here = Here(S, M)
         /\ Understood(d, Presence(S, M)).screen = d.screen
<1>1. Here(S, M) \in Heres
  BY DEF Here, Heres
<1>2. Presence(S, M) = [type |-> "presence", here |-> Here(S, M)]
  BY DEF Presence, Hello, Here
<1>3. Understood(d, Presence(S, M)) = [d EXCEPT !.here = Here(S, M)]
  BY <1>2 DEF Understood
<1> QED BY <1>1, <1>3 DEF Pages

LEMMA OfOpened ==
  ASSUME NEW d \in Pages, NEW s \in Ids
  PROVE  /\ Understood(d, Opened(s)) \in Pages
         /\ Understood(d, Opened(s)).list = d.list \cup {s}
         /\ Understood(d, Opened(s)).here = d.here
         /\ Understood(d, Opened(s)).screen = d.screen
<1>1. Understood(d, Opened(s)) = [d EXCEPT !.list = @ \cup {s}]
  BY DEF Understood, Opened
<1> QED BY <1>1 DEF Pages

LEMMA OfExited ==
  ASSUME NEW d \in Pages, NEW s \in Ids
  PROVE  /\ Understood(d, Exited(s)) \in Pages
         /\ Understood(d, Exited(s)).list = d.list \ {s}
         /\ Understood(d, Exited(s)).here = d.here
         /\ Understood(d, Exited(s)).screen = d.screen
<1>1. Understood(d, Exited(s)) = [d EXCEPT !.list = @ \ {s}]
  BY DEF Understood, Exited
<1> QED BY <1>1 DEF Pages

(* A resize leaves the rest of the screen. *)
LEMMA OfResized ==
  ASSUME NEW d \in Pages, NEW s \in Ids, NEW g \in GridsSeen
  PROVE  /\ Understood(d, Resized(s, g)) \in Pages
         /\ Understood(d, Resized(s, g)).list = d.list
         /\ Understood(d, Resized(s, g)).here = d.here
         /\ \A t \in Ids : Understood(d, Resized(s, g)).screen[t] =
              IF t = s THEN [d.screen[t] EXCEPT !.grid = g] ELSE d.screen[t]
<1>1. Understood(d, Resized(s, g)) = [d EXCEPT !.screen[s].grid = g]
  BY DEF Understood, Resized
<1>3. d.screen \in [Ids -> Screens]
  BY DEF Pages
<1>4. [d.screen[s] EXCEPT !.grid = g] \in Screens
  BY <1>3 DEF Screens
<1>5. [d.screen EXCEPT ![s].grid = g] \in [Ids -> Screens]
  BY <1>3, <1>4
<1> QED BY <1>1, <1>3, <1>5 DEF Pages

(* What the screen of a session is attached to begins as is what is kept. *)
LEMMA OfAttached ==
  ASSUME NEW d \in Pages, NEW s \in Ids, NEW x \in Opens, EndsAt(x.scrollback, x.made)
  PROVE  /\ Understood(d, Attached(s, x)) \in Pages
         /\ Understood(d, Attached(s, x)).list = d.list
         /\ Understood(d, Attached(s, x)).here = d.here
         /\ \A t \in Ids : t # s => Understood(d, Attached(s, x)).screen[t] = d.screen[t]
         /\ Follows(Understood(d, Attached(s, x)).screen[s], x)
<1> DEFINE m == Attached(s, x)
<1>1. m = [type |-> "attached", s |-> s, snapshot |-> Snapshot(x.scrollback), made |-> x.made, grid |-> x.grid]
  BY DEF Attached
<1>2. x.scrollback \in Seq(Chunks) /\ x.made \in Int /\ x.grid \in GridsSeen
  BY DEF Opens, Buffers
<1> DEFINE q == x.scrollback
<1>4. /\ q # <<>> => Snapshot(q) = <<Chunk(q[1].from, q[Len(q)].to)>> /\ q[1].from \in Int
      /\ q = <<>> => Snapshot(q) = <<>>
  BY <1>2, SnapshotIs
<1>8. /\ Replayed(m) \in Screens
      /\ Follows(Replayed(m), x)
  <2>1. CASE q = <<>>
    <3>1. Replayed(m) = [from |-> x.made + 1, to |-> x.made, torn |-> FALSE, grid |-> x.grid]
      BY <1>1, <1>4, <2>1 DEF Replayed
    <3> QED BY <1>2, <3>1 DEF Screens, Follows
  <2>2. CASE q # <<>>
    <3>0. Snapshot(q) = <<Chunk(q[1].from, q[Len(q)].to)>>
      BY <1>4, <2>2
    <3>1. Snapshot(q) # <<>> /\ Snapshot(q)[1] = Chunk(q[1].from, q[Len(q)].to)
      BY <3>0
    <3>2. m.snapshot # <<>> /\ m.snapshot[1].from = q[1].from /\ m.snapshot[1].to = q[Len(q)].to /\ m.grid = x.grid
      <4>1. m.snapshot = Snapshot(q) /\ m.grid = x.grid
        BY <1>1
      <4>2. Chunk(q[1].from, q[Len(q)].to).from = q[1].from /\ Chunk(q[1].from, q[Len(q)].to).to = q[Len(q)].to
        BY DEF Chunk
      <4> QED BY <3>1, <4>1, <4>2, Zenon
    <3>3. q[Len(q)].to = x.made
      BY <2>2 DEF EndsAt
    <3>4. q[1].from \in Int
      BY <1>4, <2>2
    <3>5. Replayed(m) = [from |-> q[1].from, to |-> q[Len(q)].to, torn |-> FALSE, grid |-> x.grid]
      BY <3>2, Zenon DEF Replayed
    <3> QED BY <1>2, <3>3, <3>4, <3>5 DEF Screens, Follows
  <2> QED BY <2>1, <2>2
<1>9. Understood(d, m) = [d EXCEPT !.screen[s] = Replayed(m)]
  BY <1>1 DEF Understood
<1>10. d.screen \in [Ids -> Screens]
  BY DEF Pages
<1> HIDE DEF m
<1>11. Understood(d, m).screen = [d.screen EXCEPT ![s] = Replayed(m)] /\ Understood(d, m) \in Pages
       /\ Understood(d, m).list = d.list /\ Understood(d, m).here = d.here
  BY <1>8, <1>9, <1>10 DEF Pages
<1> QED BY <1>8, <1>10, <1>11 DEF m

(* Output that begins where a screen ends goes on with it. *)
LEMMA OfOutput ==
  ASSUME NEW d \in Pages, NEW s \in Ids, NEW k \in Chunks
  PROVE  /\ Understood(d, Output(s, k)) \in Pages
         /\ Understood(d, Output(s, k)).list = d.list
         /\ Understood(d, Output(s, k)).here = d.here
         /\ \A t \in Ids : t # s => Understood(d, Output(s, k)).screen[t] = d.screen[t]
         /\ \A x, y : /\ Follows(d.screen[s], x) /\ k.from = x.made + 1 /\ y.made = k.to /\ y.grid = x.grid
                      => Follows(Understood(d, Output(s, k)).screen[s], y)
<1> DEFINE m == Output(s, k)
<1>1. m = [type |-> "output", s |-> s, chunk |-> k]
  BY DEF Output
<1>3. Understood(d, m) = [d EXCEPT !.screen[s] = Shown(@, k)]
  BY <1>1 DEF Understood
<1>4. d.screen \in [Ids -> Screens] /\ d.screen[s] \in Screens
  BY DEF Pages
<1> DEFINE z == d.screen[s]
<1>5. /\ Shown(z, k) \in Screens
      /\ Shown(z, k).to = k.to /\ Shown(z, k).grid = z.grid
      /\ z.torn = FALSE /\ k.from = z.to + 1 => Shown(z, k).torn = FALSE
  BY <1>4 DEF Screens, Shown, Chunks
<1> HIDE DEF m
<1>6. Understood(d, m).screen = [d.screen EXCEPT ![s] = Shown(z, k)] /\ Understood(d, m) \in Pages
      /\ Understood(d, m).list = d.list /\ Understood(d, m).here = d.here
  BY <1>3, <1>4, <1>5 DEF Pages
<1>7. Understood(d, m).screen[s] = Shown(z, k)
  BY <1>4, <1>6
<1>8. \A x, y : /\ Follows(z, x) /\ k.from = x.made + 1 /\ y.made = k.to /\ y.grid = x.grid
                => Follows(Shown(z, k), y)
  BY <1>5 DEF Follows
<1> QED BY <1>4, <1>6, <1>7, <1>8 DEF m

-----------------------------------------------------------------------------
(* What is kept after a chunk ends where the chunk does: it is not empty, and
   it is the front that is dropped.                                          *)

LEMMA TrimEnds ==
  ASSUME NEW q \in Seq(Chunks), q # <<>>
  PROVE  /\ Trim(q) \in Seq(Chunks) /\ Trim(q) # <<>>
         /\ Trim(q)[Len(Trim(q))] = q[Len(q)]
<1> DEFINE fits == {i \in DOMAIN q : i = Len(q) \/ Bytes(SubSeq(q, i, Len(q))) <= MaxBytes}
           i == Min(fits)
<1>1. Len(q) \in Nat \ {0} /\ DOMAIN q = 1..Len(q)
  OBVIOUS
<1>2. fits \subseteq Nat /\ fits # {}
  BY <1>1
<1>3. \E x \in fits : \A y \in fits : x <= y
  BY <1>2, U!LeastThere
<1>4. i \in fits
  <2> HIDE DEF fits
  <2> QED BY <1>3 DEF Min
<1>5. i \in 1..Len(q)
  BY <1>1, <1>4
<1>6. Trim(q) = SubSeq(q, i, Len(q))
  BY DEF Trim
<1> HIDE DEF i, fits
<1> DEFINE r == SubSeq(q, i, Len(q))
<1>7. r \in Seq(Chunks) /\ Len(r) = Len(q) - i + 1 /\ \A j \in 1..Len(r) : r[j] = q[i + j - 1]
  BY <1>1, <1>5
<1>8. Len(r) \in 1..Len(r) /\ i + Len(r) - 1 = Len(q)
  BY <1>1, <1>5, <1>7
<1>9. r[Len(r)] = q[Len(q)] /\ r # <<>>
  BY <1>7, <1>8
<1> QED BY <1>6, <1>7, <1>9

LEMMA AppendEnds ==
  ASSUME NEW q \in Seq(Chunks), NEW k \in Chunks
  PROVE  AppendTo(q, k) \in Seq(Chunks) /\ EndsAt(AppendTo(q, k), k.to)
<1>1. k.from \in Int /\ k.to \in Int /\ MaxBytes \in Nat
  BY SessionsAssumption DEF Chunks
<1>2. CASE k.to - k.from + 1 > MaxBytes
  <2>1. AppendTo(q, k) = <<Chunk(k.to - MaxBytes + 1, k.to)>>
    BY <1>2 DEF AppendTo
  <2>2. Chunk(k.to - MaxBytes + 1, k.to) \in Chunks /\ Chunk(k.to - MaxBytes + 1, k.to).to = k.to
    BY <1>1 DEF Chunk, Chunks
  <2> QED BY <2>1, <2>2 DEF EndsAt
<1>3. CASE ~(k.to - k.from + 1 > MaxBytes)
  <2>1. AppendTo(q, k) = Trim(Append(q, k))
    BY <1>3 DEF AppendTo
  <2>2. Append(q, k) \in Seq(Chunks) /\ Append(q, k) # <<>> /\ Append(q, k)[Len(Append(q, k))] = k
    OBVIOUS
  <2> QED BY <2>1, <2>2, TrimEnds DEF EndsAt
<1> QED BY <1>2, <1>3

-----------------------------------------------------------------------------
(* What is ahead of a client after a step that sends.                        *)

(* Page d, once client k has read what was sent to those of a set. *)
Hears(d, k, to, ms) == IF k \in to THEN U!Fold(d, ms) ELSE d

LEMMA SentOnce ==
  ASSUME Typed, NEW to, NEW ms, ms \in Seq(Messages), queue' = Send(queue, to, ms), page' = page, up' = up
  PROVE  /\ queue' \in [Clients -> Seq(Messages)]
         /\ \A k \in up : Ahead(k)' = Hears(Ahead(k), k, to, ms)
<1>1. queue \in [Clients -> Seq(Messages)] /\ up \subseteq Clients
  BY DEF Typed
<1>2. \A k \in Clients : Ahead(k)' = U!Fold(page[k], Send(queue, to, ms)[k])
  BY DEF Ahead
<1>3. queue' \in [Clients -> Seq(Messages)]
  BY <1>1, SendTyped, Zenon
<1>4. ASSUME NEW k \in up
      PROVE  Ahead(k)' = Hears(Ahead(k), k, to, ms)
  <2>1. k \in Clients /\ Ahead(k) = U!Fold(page[k], queue[k])
    BY <1>1 DEF Ahead
  <2>2. queue[k] \in Seq(Messages)
    BY <1>1, <2>1
  <2>3. U!Fold(page[k], queue[k] \o ms) = U!Fold(U!Fold(page[k], queue[k]), ms)
    BY <2>2, U!FoldConcat
  <2>4. /\ k \in to => Send(queue, to, ms)[k] = queue[k] \o ms
        /\ k \notin to => Send(queue, to, ms)[k] = queue[k]
    BY <2>1, SendGives
  <2> QED BY <1>2, <2>1, <2>3, <2>4, Zenon DEF Hears
<1> QED BY <1>3, <1>4, Zenon

LEMMA SentTwice ==
  ASSUME Typed, NEW to, NEW ms, NEW too, NEW ns, ms \in Seq(Messages), ns \in Seq(Messages),
         queue' = Send(Send(queue, to, ms), too, ns), page' = page, up' = up
  PROVE  /\ queue' \in [Clients -> Seq(Messages)]
         /\ \A k \in up : Ahead(k)' = Hears(Hears(Ahead(k), k, to, ms), k, too, ns)
<1>1. queue \in [Clients -> Seq(Messages)] /\ up \subseteq Clients
  BY DEF Typed
<1> DEFINE q == Send(queue, to, ms)
<1>2. q \in [Clients -> Seq(Messages)]
  BY <1>1, SendTyped, Zenon
<1>3. ASSUME NEW k \in up
      PROVE  U!Fold(page[k], q[k]) = Hears(Ahead(k), k, to, ms)
  <2>1. k \in Clients /\ queue[k] \in Seq(Messages) /\ Ahead(k) = U!Fold(page[k], queue[k])
    BY <1>1 DEF Ahead
  <2>2. U!Fold(page[k], queue[k] \o ms) = U!Fold(U!Fold(page[k], queue[k]), ms)
    BY <2>1, U!FoldConcat
  <2>3. /\ k \in to => q[k] = queue[k] \o ms
        /\ k \notin to => q[k] = queue[k]
    BY <2>1, SendGives
  <2> HIDE DEF q
  <2> QED BY <2>1, <2>2, <2>3, Zenon DEF Hears
<1>4. \A k \in Clients : Ahead(k)' = U!Fold(page[k], Send(q, too, ns)[k])
  BY DEF Ahead
<1>5. queue' = Send(q, too, ns)
  OBVIOUS
<1> HIDE DEF q
<1>6. queue' \in [Clients -> Seq(Messages)]
  BY <1>2, <1>5, SendTyped, Zenon
<1>7. ASSUME NEW k \in up
      PROVE  Ahead(k)' = Hears(Hears(Ahead(k), k, to, ms), k, too, ns)
  <2>1. k \in Clients /\ q[k] \in Seq(Messages)
    BY <1>1, <1>2
  <2>2. U!Fold(page[k], q[k] \o ns) = U!Fold(U!Fold(page[k], q[k]), ns)
    BY <2>1, U!FoldConcat
  <2>3. /\ k \in too => Send(q, too, ns)[k] = q[k] \o ns
        /\ k \notin too => Send(q, too, ns)[k] = q[k]
    BY <2>1, SendGives
  <2> DEFINE d == Hears(Ahead(k), k, to, ms)
  <2>4. U!Fold(page[k], q[k]) = d
    BY <1>3
  <2> HIDE DEF d
  <2>5. Ahead(k)' = Hears(d, k, too, ns)
    BY <1>4, <2>1, <2>2, <2>3, <2>4, Zenon DEF Hears
  <2> QED BY <2>5 DEF d
<1> QED BY <1>6, <1>7, Zenon

LEMMA SentOne ==
  ASSUME Typed, NEW to, NEW m, m \in Messages, queue' = Send(queue, to, <<m>>), page' = page, up' = up
  PROVE  /\ queue' \in [Clients -> Seq(Messages)]
         /\ \A k \in up : k \in to => Ahead(k)' = Understood(Ahead(k), m)
         /\ \A k \in up : k \notin to => Ahead(k)' = Ahead(k)
<1> DEFINE ms == <<m>>
<1>1. ms \in Seq(Messages) /\ \A d : U!Fold(d, ms) = Understood(d, m)
  BY FoldOne
<1>2. queue' = Send(queue, to, ms)
  OBVIOUS
<1> HIDE DEF ms
<1>3. /\ queue' \in [Clients -> Seq(Messages)]
      /\ \A k \in up : Ahead(k)' = Hears(Ahead(k), k, to, ms)
  BY <1>1, <1>2, SentOnce
<1> QED BY <1>1, <1>3 DEF Hears

LEMMA SentTwo ==
  ASSUME Typed, NEW to, NEW m, NEW n, m \in Messages, n \in Messages,
         queue' = Send(queue, to, <<m, n>>), page' = page, up' = up
  PROVE  /\ queue' \in [Clients -> Seq(Messages)]
         /\ \A k \in up : k \in to => Ahead(k)' = Understood(Understood(Ahead(k), m), n)
         /\ \A k \in up : k \notin to => Ahead(k)' = Ahead(k)
<1> DEFINE ms == <<m, n>>
<1>1. ms \in Seq(Messages) /\ \A d : U!Fold(d, ms) = Understood(Understood(d, m), n)
  BY FoldTwo
<1>2. queue' = Send(queue, to, ms)
  OBVIOUS
<1> HIDE DEF ms
<1>3. /\ queue' \in [Clients -> Seq(Messages)]
      /\ \A k \in up : Ahead(k)' = Hears(Ahead(k), k, to, ms)
  BY <1>1, <1>2, SentOnce
<1> QED BY <1>1, <1>3 DEF Hears

(* To all of a set, and one thing more to one of them. *)
Amounts(ns, m) == \A d : U!Fold(d, ns) = Understood(d, m)
Only(too, c) == \A k : k \in too <=> k = c

LEMMA SentOneMore ==
  ASSUME Typed, NEW to, NEW ms, NEW too, NEW ns, NEW c, NEW m, ms \in Seq(Messages), ns \in Seq(Messages), c \in to,
         queue' = Send(Send(queue, to, ms), too, ns), page' = page, up' = up,
         Amounts(ns, m), Only(too, c)
  PROVE  /\ queue' \in [Clients -> Seq(Messages)]
         /\ \A k \in up : k = c => Ahead(k)' = Understood(U!Fold(Ahead(k), ms), m)
         /\ \A k \in up : k # c /\ k \in to => Ahead(k)' = U!Fold(Ahead(k), ms)
         /\ \A k \in up : k \notin to => Ahead(k)' = Ahead(k)
<1>1. /\ queue' \in [Clients -> Seq(Messages)]
      /\ \A k \in up : Ahead(k)' = Hears(Hears(Ahead(k), k, to, ms), k, too, ns)
  BY SentTwice
<1> QED BY <1>1 DEF Hears, Amounts, Only

(* A client that hears nothing, and has nothing to hear, agrees still. *)
LEMMA StillAgrees ==
  ASSUME NEW d, NEW c, NEW S, NEW M, NEW T, NEW N, Agrees(d, c, S, M),
         c \in N => c \in M /\ Live(T) = Live(S) /\ Here(T, N) = Here(S, M),
         \A s \in Ids : T[s].at = "live" /\ c \in T[s].attached =>
           /\ S[s].at = "live" /\ c \in S[s].attached
           /\ T[s].made = S[s].made /\ T[s].grid = S[s].grid
  PROVE  Agrees(d, c, T, N)
BY DEF Agrees, Follows

(* A step that changes neither who is there nor what is written, and sends
   nothing. *)
LEMMA NothingSeen ==
  ASSUME SInv, session' \in [Ids -> Opens], UNCHANGED <<member, queue, page, up>>,
         \A s \in Ids : /\ session'[s].at = session[s].at /\ session'[s].attached = session[s].attached
                        /\ session'[s].made = session[s].made /\ session'[s].grid = session[s].grid
                        /\ session'[s].scrollback = session[s].scrollback
  PROVE  SInv'
<1>1. Typed' /\ Watched' /\ Kept' /\ Members' = Members
  BY DEF SInv, Typed, Watched, Kept, Members
<1>2. Live(session') = Live(session) /\ Here(session', Members) = Here(session, Members)
  BY DEF Live, Here
<1>3. ASSUME NEW c \in up
      PROVE  Agrees(Ahead(c)', c, session', Members')
  <2>1. Ahead(c)' = Ahead(c) /\ Agrees(Ahead(c), c, session, Members)
    BY DEF Ahead, SInv
  <2> QED BY <1>1, <1>2, <2>1, StillAgrees
<1> QED BY <1>1, <1>3 DEF SInv

-----------------------------------------------------------------------------
(* The steps.                                                                *)

(* What the invariant says of a session and of a client. *)
LEMMA Says ==
  ASSUME SInv
  PROVE  /\ session \in [Ids -> Opens] /\ Members \in SUBSET Clients /\ up \subseteq Clients
         /\ \A s \in Ids : session[s].attached \subseteq Members
         /\ \A c \in up : Agrees(Ahead(c), c, session, Members) /\ Ahead(c) \in Pages
BY DEF SInv, Typed, Watched, Agrees, Members

LEMMA UnopenedIs ==
  Unopened \in Opens /\ Unopened.scrollback = <<>>
<1>1. <<>> \in Seq(Chunks)
  OBVIOUS
<1> DEFINE g == Unopened.grid
<1>2. g \in GridsSeen
  BY DEF GridsSeen
<1>3. Unopened = [at |-> "unopened", attached |-> {}, made |-> 0, scrollback |-> <<>>, grid |-> g,
                  told |-> "none", timer |-> FALSE]
  BY DEF Unopened
<1> HIDE DEF g
<1>4. [at |-> "unopened", attached |-> {}, made |-> 0, scrollback |-> <<>>, grid |-> g,
       told |-> "none", timer |-> FALSE] \in Opens
  BY <1>1, <1>2 DEF Opens, Buffers
<1> QED BY <1>3, <1>4

LEMMA Starts ==
  ASSUME Init
  PROVE  SInv
<1>1. Unopened \in Opens
  BY UnopenedIs
<1>2. Typed
  BY <1>1 DEF Typed, Init
<1>3. Members = {} /\ Watched /\ Kept
  BY DEF Init, Members, Watched, Kept, Unopened, EndsAt
<1>4. ASSUME NEW c \in up
      PROVE  Agrees(Ahead(c), c, session, Members)
  <2>1. c \in Clients /\ queue[c] = <<>> /\ page[c] = [list |-> {}, here |-> <<>>, screen |-> [s \in Ids |-> NoScreen]]
    BY DEF Init
  <2>2. Ahead(c) = page[c]
    BY <2>1, U!FoldNone DEF Ahead
  <2>3. NoScreen \in Screens
    BY DEF NoScreen, Screens, GridsSeen
  <2>4. page[c] \in Pages
    BY <2>1, <2>3 DEF Pages, Heres
  <2>5. \A s \in Ids : session[s].attached = {}
    BY DEF Init, Unopened
  <2> QED BY <1>3, <2>2, <2>4, <2>5 DEF Agrees
<1> QED BY <1>2, <1>3, <1>4 DEF SInv

LEMMA IdentifyStep ==
  ASSUME SInv, NEW c \in Clients, Identify(c)
  PROVE  SInv'
<1> DEFINE M == Members \cup {c}
           hello == Hello(session, M)
           told == Presence(session, M)
<1>1. /\ member[c] = "new" /\ member' = [member EXCEPT ![c] = "member"]
      /\ queue' = Send(Send(queue, {c}, <<hello>>), M, <<told>>)
      /\ UNCHANGED <<session, page, up>>
  BY DEF Identify
<1>2. Typed /\ Watched /\ Kept /\ Members' = M /\ c \notin Members /\ M \in SUBSET Clients
  BY <1>1 DEF SInv, Typed, Members
<1>3. /\ session \in [Ids -> Opens]
      /\ \A s \in Ids : session[s].attached \subseteq Members
      /\ \A k \in up : Agrees(Ahead(k), k, session, Members) /\ Ahead(k) \in Pages
  BY Says
<1>4. ASSUME NEW d \in Pages
      PROVE  /\ Understood(d, hello) \in Pages /\ Understood(d, told) \in Pages
             /\ Understood(d, hello).list = Live(session) /\ Understood(d, hello).screen = d.screen
             /\ Understood(d, told).list = d.list /\ Understood(d, told).screen = d.screen
             /\ Understood(d, told).here = Here(session, M)
  BY <1>2, <1>3, OfHello, OfPresence
<1>5. hello \in Messages /\ told \in Messages
  BY <1>2, <1>3, OfTheHub
<1> DEFINE one == <<hello>>
           rest == <<told>>
           C == {c}
<1> HIDE DEF hello, told
<1>6. /\ one \in Seq(Messages) /\ rest \in Seq(Messages) /\ queue' = Send(Send(queue, C, one), M, rest)
      /\ page' = page /\ up' = up
  BY <1>1, <1>5 DEF hello, told
<1> HIDE DEF one, rest, C, M
<1>7. /\ queue' \in [Clients -> Seq(Messages)]
      /\ \A k \in up : Ahead(k)' = Hears(Hears(Ahead(k), k, C, one), k, M, rest)
  BY <1>2, <1>6, SentTwice
<1>8. Typed' /\ Watched' /\ Kept'
  <2>1. Typed'
    BY <1>1, <1>2, <1>7 DEF Typed
  <2> QED BY <1>1, <1>2, <2>1 DEF Watched, Kept, M
<1>9. ASSUME NEW k \in up'
      PROVE  Agrees(Ahead(k)', k, session', Members')
  <2>1. k \in up /\ session' = session /\ Members' = M
    BY <1>1, <1>2
  <2>2. Agrees(Ahead(k), k, session, Members) /\ Ahead(k) \in Pages
    BY <1>3, <2>1
  <2>3. CASE k = c
    <3> DEFINE d == Understood(Ahead(k), hello)
    <3>1. d \in Pages /\ d.list = Live(session) /\ d.screen = Ahead(k).screen
      BY <1>4, <2>2
    <3>2. Ahead(k)' = Understood(d, told)
      BY <1>2, <1>5, <1>7, <2>1, <2>3, FoldOne DEF Hears, one, rest, C, M
    <3> HIDE DEF d
    <3>3. /\ Understood(d, told) \in Pages /\ Understood(d, told).list = d.list
          /\ Understood(d, told).here = Here(session, M)
      BY <1>4, <3>1
    <3>4. \A s \in Ids : k \notin session[s].attached
      BY <1>2, <1>3, <2>3
    <3> QED BY <2>1, <3>1, <3>2, <3>3, <3>4 DEF Agrees
  <2>4. CASE k # c /\ k \in M
    <3> DEFINE d == Ahead(k)
    <3>1. Ahead(k)' = Understood(d, told)
      BY <1>5, <1>7, <2>1, <2>4, FoldOne DEF Hears, rest, C
    <3>2. d \in Pages
      BY <2>2
    <3> HIDE DEF d
    <3>3. /\ Understood(d, told) \in Pages /\ Understood(d, told).list = d.list
          /\ Understood(d, told).here = Here(session, M) /\ Understood(d, told).screen = d.screen
      BY <1>4, <3>2
    <3>4. Agrees(d, k, session, Members) /\ k \in Members
      BY <2>2, <2>4 DEF d, M
    <3> QED BY <2>1, <3>1, <3>3, <3>4 DEF Agrees
  <2>5. CASE k # c /\ k \notin M
    <3>1. Ahead(k)' = Ahead(k)
      BY <1>7, <2>1, <2>5 DEF Hears, C
    <3> QED BY <2>1, <2>2, <2>5, <3>1 DEF Agrees
  <2> QED BY <2>3, <2>4, <2>5
<1> QED BY <1>8, <1>9 DEF SInv

LEMMA DetachStep ==
  ASSUME SInv, NEW c \in Clients, NEW s \in Ids, Detach(c, s)
  PROVE  SInv'
<1> DEFINE m == Presence(session', Members)
<1>1. /\ session' = [session EXCEPT ![s].attached = @ \ {c}]
      /\ queue' = Send(queue, Members, <<m>>)
      /\ member' = member /\ page' = page /\ up' = up
  BY DEF Detach
<1>2. /\ session \in [Ids -> Opens] /\ Members \in SUBSET Clients /\ Members' = Members
      /\ \A k \in up : Agrees(Ahead(k), k, session, Members) /\ Ahead(k) \in Pages
  BY <1>1, Says DEF Members
<1>3. /\ session' \in [Ids -> Opens]
      /\ \A t \in Ids : /\ session'[t].at = session[t].at /\ session'[t].made = session[t].made
                        /\ session'[t].grid = session[t].grid /\ session'[t].scrollback = session[t].scrollback
                        /\ session'[t].attached \subseteq session[t].attached
  BY <1>1, <1>2 DEF Opens
<1>4. Typed /\ Watched /\ Kept
  BY DEF SInv
<1>5. m \in Messages /\ Live(session') = Live(session)
  BY <1>2, <1>3, OfTheHub DEF Live
<1> HIDE DEF m
<1>6. /\ queue' \in [Clients -> Seq(Messages)]
      /\ \A k \in up : k \in Members => Ahead(k)' = Understood(Ahead(k), m)
      /\ \A k \in up : k \notin Members => Ahead(k)' = Ahead(k)
  BY <1>1, <1>4, <1>5, SentOne
<1>7. Typed' /\ Watched' /\ Kept'
  BY <1>1, <1>2, <1>3, <1>4, <1>6 DEF Typed, Watched, Kept
<1>8. ASSUME NEW k \in up'
      PROVE  Agrees(Ahead(k)', k, session', Members')
  <2>1. k \in up /\ Agrees(Ahead(k), k, session, Members) /\ Ahead(k) \in Pages
    BY <1>1, <1>2
  <2>2. CASE k \in Members
    <3> DEFINE d == Ahead(k)
    <3>1. d \in Pages /\ Agrees(d, k, session, Members)
      BY <2>1
    <3> HIDE DEF d
    <3>2. /\ Understood(d, m) \in Pages /\ Understood(d, m).list = d.list
          /\ Understood(d, m).here = Here(session', Members) /\ Understood(d, m).screen = d.screen
      BY <1>2, <1>3, <3>1, OfPresence DEF m
    <3>3. Agrees(Understood(d, m), k, session', Members)
      BY <1>3, <1>5, <2>2, <3>1, <3>2 DEF Agrees, Follows
    <3> QED BY <1>2, <1>6, <2>1, <2>2, <3>3 DEF d
  <2>3. CASE k \notin Members
    <3>1. Ahead(k)' = Ahead(k)
      BY <1>6, <2>1, <2>3
    <3> QED BY <1>2, <1>3, <2>1, <2>3, <3>1 DEF Agrees, Follows
  <2> QED BY <2>2, <2>3
<1> QED BY <1>7, <1>8 DEF SInv

LEMMA ResizeStep ==
  ASSUME SInv, NEW c \in Clients, NEW s \in Ids, NEW g \in Grids, Resize(c, s, g)
  PROVE  SInv'
<1> DEFINE m == Resized(s, g)
           to == session[s].attached
<1>1. /\ session' = [session EXCEPT ![s].grid = g]
      /\ queue' = Send(queue, to, <<m>>)
      /\ member' = member /\ page' = page /\ up' = up
  BY DEF Resize
<1>2. /\ session \in [Ids -> Opens] /\ Members \in SUBSET Clients /\ Members' = Members
      /\ \A k \in up : Agrees(Ahead(k), k, session, Members) /\ Ahead(k) \in Pages
  BY <1>1, Says DEF Members
<1>3. g \in GridsSeen
  BY DEF GridsSeen
<1>4. /\ session' \in [Ids -> Opens]
      /\ \A t \in Ids : /\ session'[t].at = session[t].at /\ session'[t].made = session[t].made
                        /\ session'[t].scrollback = session[t].scrollback
                        /\ session'[t].attached = session[t].attached
                        /\ session'[t].grid = IF t = s THEN g ELSE session[t].grid
  BY <1>1, <1>2, <1>3 DEF Opens
<1>5. Typed /\ Watched /\ Kept
  BY DEF SInv
<1>6. m \in Messages /\ Live(session') = Live(session) /\ Here(session', Members) = Here(session, Members)
  BY <1>2, <1>3, <1>4, OfASession DEF Live, Here
<1> HIDE DEF m, to
<1>7. /\ queue' \in [Clients -> Seq(Messages)]
      /\ \A k \in up : k \in to => Ahead(k)' = Understood(Ahead(k), m)
      /\ \A k \in up : k \notin to => Ahead(k)' = Ahead(k)
  BY <1>1, <1>5, <1>6, SentOne
<1>8. Typed' /\ Watched' /\ Kept'
  BY <1>1, <1>2, <1>4, <1>5, <1>7 DEF Typed, Watched, Kept
<1>9. ASSUME NEW k \in up'
      PROVE  Agrees(Ahead(k)', k, session', Members')
  <2>1. k \in up /\ Agrees(Ahead(k), k, session, Members) /\ Ahead(k) \in Pages
    BY <1>1, <1>2
  <2>2. CASE k \in to
    <3> DEFINE d == Ahead(k)
    <3>1. d \in Pages /\ Agrees(d, k, session, Members)
      BY <2>1
    <3> HIDE DEF d
    <3>2. /\ Understood(d, m) \in Pages /\ Understood(d, m).list = d.list /\ Understood(d, m).here = d.here
          /\ \A t \in Ids : Understood(d, m).screen[t] = IF t = s THEN [d.screen[t] EXCEPT !.grid = g] ELSE d.screen[t]
      BY <1>3, <3>1, OfResized DEF m
    <3>3. d.screen[s] \in Screens
      BY <3>1 DEF Pages
    <3>4. \A t \in Ids : /\ Understood(d, m).screen[t].torn = d.screen[t].torn
                         /\ Understood(d, m).screen[t].to = d.screen[t].to
                         /\ Understood(d, m).screen[t].grid = IF t = s THEN g ELSE d.screen[t].grid
      BY <3>2, <3>3 DEF Screens
    <3>5. Agrees(Understood(d, m), k, session', Members)
      BY <1>4, <1>6, <3>1, <3>2, <3>4 DEF Agrees, Follows
    <3> QED BY <1>2, <1>7, <2>1, <2>2, <3>5 DEF d
  <2>3. CASE k \notin to
    <3>1. Ahead(k)' = Ahead(k)
      BY <1>7, <2>1, <2>3
    <3>2. k \notin session[s].attached
      BY <2>3 DEF to
    <3> QED BY <1>2, <1>4, <1>6, <2>1, <3>1, <3>2 DEF Agrees, Follows
  <2> QED BY <2>2, <2>3
<1> QED BY <1>8, <1>9 DEF SInv

LEMMA KillStep ==
  ASSUME SInv, NEW c \in Clients, NEW s \in Ids, Kill(c, s)
  PROVE  SInv'
<1>1. session \in [Ids -> Opens]
  BY Says
<1>2. UNCHANGED <<member, queue, page, up>>
  BY DEF Kill
<1> DEFINE x == session[s]
           told == IF x.told = "kill" THEN x.told ELSE "hup"
           timer == x.timer \/ x.told = "none"
<1>3. session' = [session EXCEPT ![s].told = told, ![s].timer = timer]
  BY DEF Kill
<1>4. told \in {"none", "hup", "kill"} /\ timer \in BOOLEAN
  OBVIOUS
<1> HIDE DEF told, timer
<1>5. /\ session' \in [Ids -> Opens]
      /\ \A t \in Ids : /\ session'[t].at = session[t].at /\ session'[t].attached = session[t].attached
                        /\ session'[t].made = session[t].made /\ session'[t].grid = session[t].grid
                        /\ session'[t].scrollback = session[t].scrollback
  BY <1>1, <1>3, <1>4, ZenonT(60) DEF Opens
<1> QED BY <1>2, <1>5, NothingSeen

LEMMA KillTimerStep ==
  ASSUME SInv, NEW s \in Ids, KillTimer(s)
  PROVE  SInv'
<1>1. session \in [Ids -> Opens]
  BY Says
<1>2. UNCHANGED <<member, queue, page, up>>
  BY DEF KillTimer
<1>3. /\ session' \in [Ids -> Opens]
      /\ \A t \in Ids : /\ session'[t].at = session[t].at /\ session'[t].attached = session[t].attached
                        /\ session'[t].made = session[t].made /\ session'[t].grid = session[t].grid
                        /\ session'[t].scrollback = session[t].scrollback
  BY <1>1 DEF KillTimer, Opens
<1> QED BY <1>2, <1>3, NothingSeen

LEMMA PtyDataStep ==
  ASSUME SInv, NEW s \in Ids, NEW n \in 1..MaxMade, PtyData(s, n)
  PROVE  SInv'
<1> DEFINE x == session[s]
           k == Chunk(x.made + 1, x.made + n)
           kept == AppendTo(x.scrollback, k)
           m == Output(s, k)
           to == x.attached
           v == x.made + n
<1>1. /\ session[s].at = "live"
      /\ session' = [session EXCEPT ![s].made = @ + n, ![s].scrollback = AppendTo(@, k)]
      /\ queue' = Send(queue, to, <<m>>)
      /\ member' = member /\ page' = page /\ up' = up
  BY DEF PtyData, Listed
<1>2. /\ session \in [Ids -> Opens] /\ Members \in SUBSET Clients /\ Members' = Members
      /\ \A j \in up : Agrees(Ahead(j), j, session, Members) /\ Ahead(j) \in Pages
  BY <1>1, Says DEF Members
<1>3. n \in Int /\ x.made \in Int /\ x.scrollback \in Seq(Chunks)
  BY <1>2, SessionsAssumption DEF Opens, Buffers
<1>4. k \in Chunks /\ k.from = x.made + 1 /\ k.to = x.made + n
  BY <1>3 DEF Chunk, Chunks
<1> HIDE DEF k
<1>5. kept \in Seq(Chunks) /\ EndsAt(kept, x.made + n)
  BY <1>3, <1>4, AppendEnds
<1>6. /\ session' = [session EXCEPT ![s].made = v, ![s].scrollback = kept]
      /\ v \in Int /\ kept \in Buffers
  BY <1>1, <1>3, <1>5 DEF Buffers
<1> HIDE DEF kept, v
<1>7. /\ session' \in [Ids -> Opens]
      /\ \A t \in Ids : /\ session'[t].at = session[t].at /\ session'[t].attached = session[t].attached
                        /\ session'[t].grid = session[t].grid
                        /\ session'[t].made = IF t = s THEN v ELSE session[t].made
                        /\ session'[t].scrollback = IF t = s THEN kept ELSE session[t].scrollback
  BY <1>2, <1>6 DEF Opens
<1>8. Typed /\ Watched /\ Kept
  BY DEF SInv
<1>9. m \in Messages /\ Live(session') = Live(session) /\ Here(session', Members) = Here(session, Members)
  BY <1>4, <1>7, OfASession DEF Live, Here
<1> HIDE DEF m, to
<1>10. /\ queue' \in [Clients -> Seq(Messages)]
       /\ \A j \in up : j \in to => Ahead(j)' = Understood(Ahead(j), m)
       /\ \A j \in up : j \notin to => Ahead(j)' = Ahead(j)
  BY <1>1, <1>8, <1>9, SentOne
<1>11. Typed' /\ Watched' /\ Kept'
  <2>1. Typed'
    BY <1>1, <1>7, <1>8, <1>10 DEF Typed
  <2>2. Watched'
    BY <1>2, <1>7, <1>8 DEF Watched
  <2>3. Kept'
    BY <1>5, <1>7, <1>8 DEF Kept, v
  <2> QED BY <2>1, <2>2, <2>3
<1>12. ASSUME NEW j \in up'
       PROVE  Agrees(Ahead(j)', j, session', Members')
  <2>1. j \in up /\ Agrees(Ahead(j), j, session, Members) /\ Ahead(j) \in Pages
    BY <1>1, <1>2
  <2>2. CASE j \in to
    <3> DEFINE d == Ahead(j)
    <3>1. d \in Pages /\ Agrees(d, j, session, Members)
      BY <2>1
    <3> HIDE DEF d
    <3>2. /\ Understood(d, m) \in Pages /\ Understood(d, m).list = d.list /\ Understood(d, m).here = d.here
          /\ \A t \in Ids : t # s => Understood(d, m).screen[t] = d.screen[t]
          /\ \A y, z : /\ Follows(d.screen[s], y) /\ k.from = y.made + 1 /\ z.made = k.to /\ z.grid = y.grid
                       => Follows(Understood(d, m).screen[s], z)
      BY <1>4, <3>1, OfOutput DEF m
    <3>3. Follows(d.screen[s], session[s])
      BY <1>1, <2>2, <3>1 DEF Agrees, to
    <3>4. Follows(Understood(d, m).screen[s], session'[s])
      BY <1>4, <1>7, <3>2, <3>3 DEF v
    <3>5. \A t \in Ids : t # s /\ session'[t].at = "live" /\ j \in session'[t].attached =>
            Follows(Understood(d, m).screen[t], session'[t])
      BY <1>7, <3>1, <3>2 DEF Agrees, Follows
    <3>6. Agrees(Understood(d, m), j, session', Members)
      BY <1>9, <3>1, <3>2, <3>4, <3>5 DEF Agrees
    <3> QED BY <1>2, <1>10, <2>1, <2>2, <3>6 DEF d
  <2>3. CASE j \notin to
    <3>1. Ahead(j)' = Ahead(j)
      BY <1>10, <2>1, <2>3
    <3>2. j \notin session[s].attached
      BY <2>3 DEF to
    <3> QED BY <1>2, <1>7, <1>9, <2>1, <3>1, <3>2 DEF Agrees, Follows
  <2> QED BY <2>2, <2>3
<1> QED BY <1>11, <1>12 DEF SInv

LEMMA PtyExitsStep ==
  ASSUME SInv, NEW s \in Ids, PtyExits(s)
  PROVE  SInv'
<1> DEFINE m == Exited(s)
           n == Presence(session', Members)
<1>1. /\ session' = [session EXCEPT ![s].at = "exited", ![s].attached = {}, ![s].timer = FALSE]
      /\ queue' = Send(queue, Members, <<m, n>>)
      /\ member' = member /\ page' = page /\ up' = up
  BY DEF PtyExits
<1>2. /\ session \in [Ids -> Opens] /\ Members \in SUBSET Clients /\ Members' = Members
      /\ \A k \in up : Agrees(Ahead(k), k, session, Members) /\ Ahead(k) \in Pages
  BY <1>1, Says DEF Members
<1>3. /\ session' \in [Ids -> Opens]
      /\ \A t \in Ids : /\ session'[t].at = IF t = s THEN "exited" ELSE session[t].at
                        /\ session'[t].attached = IF t = s THEN {} ELSE session[t].attached
                        /\ session'[t].made = session[t].made /\ session'[t].grid = session[t].grid
                        /\ session'[t].scrollback = session[t].scrollback
  BY <1>1, <1>2 DEF Opens
<1>4. Typed /\ Watched /\ Kept
  BY DEF SInv
<1>5. m \in Messages /\ n \in Messages /\ Live(session') = Live(session) \ {s}
  BY <1>2, <1>3, OfTheHub, OfASession DEF Live
<1> HIDE DEF m, n
<1>6. /\ queue' \in [Clients -> Seq(Messages)]
      /\ \A k \in up : k \in Members => Ahead(k)' = Understood(Understood(Ahead(k), m), n)
      /\ \A k \in up : k \notin Members => Ahead(k)' = Ahead(k)
  BY <1>1, <1>4, <1>5, SentTwo
<1>7. Typed' /\ Watched' /\ Kept'
  <2>1. Typed'
    BY <1>1, <1>3, <1>4, <1>6 DEF Typed
  <2>2. Watched'
    BY <1>2, <1>3, <1>4 DEF Watched
  <2>3. Kept'
    BY <1>3, <1>4 DEF Kept
  <2> QED BY <2>1, <2>2, <2>3
<1>8. ASSUME NEW k \in up'
      PROVE  Agrees(Ahead(k)', k, session', Members')
  <2>1. k \in up /\ Agrees(Ahead(k), k, session, Members) /\ Ahead(k) \in Pages
    BY <1>1, <1>2
  <2>2. CASE k \in Members
    <3> DEFINE d == Ahead(k)
               e == Understood(d, m)
    <3>1. d \in Pages /\ Agrees(d, k, session, Members)
      BY <2>1
    <3> HIDE DEF d
    <3>2. e \in Pages /\ e.list = d.list \ {s} /\ e.screen = d.screen
      BY <3>1, OfExited DEF m
    <3> HIDE DEF e
    <3>3. /\ Understood(e, n) \in Pages /\ Understood(e, n).list = e.list
          /\ Understood(e, n).here = Here(session', Members) /\ Understood(e, n).screen = e.screen
      BY <1>2, <1>3, <3>2, OfPresence DEF n
    <3>4. Agrees(Understood(e, n), k, session', Members)
      BY <1>3, <1>5, <2>2, <3>1, <3>2, <3>3 DEF Agrees, Follows
    <3> QED BY <1>2, <1>6, <2>1, <2>2, <3>4 DEF d, e
  <2>3. CASE k \notin Members
    <3>1. Ahead(k)' = Ahead(k)
      BY <1>6, <2>1, <2>3
    <3> QED BY <1>2, <1>3, <2>1, <2>3, <3>1 DEF Agrees, Follows
  <2> QED BY <2>2, <2>3
<1> QED BY <1>7, <1>8 DEF SInv

LEMMA RemoveClientStep ==
  ASSUME SInv, NEW c \in Clients, RemoveClient(c)
  PROVE  SInv'
<1> DEFINE M == Members \ {c}
           m == Presence(session', M)
<1>1. /\ c \notin up /\ member' = [member EXCEPT ![c] = "gone"]
      /\ session' = [s \in Ids |-> [session[s] EXCEPT !.attached = @ \ {c}]]
      /\ page' = page /\ up' = up
  BY DEF RemoveClient
<1>2. /\ session \in [Ids -> Opens] /\ Members \in SUBSET Clients
      /\ \A s \in Ids : session[s].attached \subseteq Members
      /\ \A k \in up : Agrees(Ahead(k), k, session, Members) /\ Ahead(k) \in Pages
  BY Says
<1>3. Typed /\ Watched /\ Kept /\ Members' = M
  BY <1>1 DEF SInv, Typed, Members
<1>4. /\ session' \in [Ids -> Opens]
      /\ \A t \in Ids : /\ session'[t].at = session[t].at /\ session'[t].made = session[t].made
                        /\ session'[t].grid = session[t].grid /\ session'[t].scrollback = session[t].scrollback
                        /\ session'[t].attached = session[t].attached \ {c}
  BY <1>1, <1>2 DEF Opens
<1>5. M \in SUBSET Clients /\ m \in Messages /\ Live(session') = Live(session)
  BY <1>2, <1>4, OfTheHub DEF Live
<1>6. \A t \in Ids : session'[t].attached \subseteq M
  BY <1>2, <1>4
<1>7. ASSUME queue' \in [Clients -> Seq(Messages)]
      PROVE  Typed' /\ Watched' /\ Kept'
  <2>1. Typed'
    BY <1>1, <1>3, <1>4, <1>7 DEF Typed
  <2>2. Watched'
    BY <1>3, <1>4, <1>6 DEF Watched
  <2>3. Kept'
    BY <1>3, <1>4 DEF Kept
  <2> QED BY <2>1, <2>2, <2>3
<1>8. CASE member[c] = "member"
  <2>1. queue' = Send(queue, M, <<m>>)
    BY <1>8 DEF RemoveClient
  <2> HIDE DEF M, m
  <2>2. /\ queue' \in [Clients -> Seq(Messages)]
        /\ \A k \in up : k \in M => Ahead(k)' = Understood(Ahead(k), m)
        /\ \A k \in up : k \notin M => Ahead(k)' = Ahead(k)
    BY <1>1, <1>3, <1>5, <2>1, SentOne
  <2>3. ASSUME NEW k \in up'
        PROVE  Agrees(Ahead(k)', k, session', Members')
    <3>1. k \in up /\ k # c /\ Agrees(Ahead(k), k, session, Members) /\ Ahead(k) \in Pages
      BY <1>1, <1>2
    <3>2. CASE k \in M
      <4> DEFINE d == Ahead(k)
      <4>1. d \in Pages /\ Agrees(d, k, session, Members) /\ k \in Members
        BY <3>1, <3>2 DEF M
      <4> HIDE DEF d
      <4>2. /\ Understood(d, m) \in Pages /\ Understood(d, m).list = d.list
            /\ Understood(d, m).here = Here(session', M) /\ Understood(d, m).screen = d.screen
        BY <1>4, <1>5, <4>1, OfPresence DEF m
      <4>3. Agrees(Understood(d, m), k, session', M)
        BY <1>4, <1>5, <4>1, <4>2 DEF Agrees, Follows
      <4> QED BY <1>3, <2>2, <3>1, <3>2, <4>3 DEF d
    <3>3. CASE k \notin M
      <4>1. Ahead(k)' = Ahead(k)
        BY <2>2, <3>1, <3>3
      <4> QED BY <1>3, <1>4, <3>1, <3>3, <4>1 DEF Agrees, Follows
    <3> QED BY <3>2, <3>3
  <2> QED BY <1>7, <2>2, <2>3 DEF SInv
<1>9. CASE member[c] # "member"
  <2>1. queue' = queue
    BY <1>9 DEF RemoveClient
  <2>2. c \notin Members /\ M = Members
    BY <1>9 DEF Members
  <2>3. \A t \in Ids : session'[t].attached = session[t].attached
    BY <1>2, <1>4, <2>2
  <2>4. Here(session', M) = Here(session, Members)
    BY <1>4, <2>2, <2>3 DEF Here
  <2>5. ASSUME NEW k \in up'
        PROVE  Agrees(Ahead(k)', k, session', Members')
    <3>1. Ahead(k)' = Ahead(k) /\ Agrees(Ahead(k), k, session, Members)
      BY <1>1, <1>2, <2>1 DEF Ahead
    <3> HIDE DEF M
    <3> QED BY <1>3, <1>4, <1>5, <2>2, <2>3, <2>4, <3>1 DEF Agrees, Follows
  <2>6. queue' \in [Clients -> Seq(Messages)]
    BY <1>3, <2>1 DEF Typed
  <2> QED BY <1>7, <2>5, <2>6 DEF SInv
<1> QED BY <1>8, <1>9

LEMMA DropsStep ==
  ASSUME SInv, NEW c \in Clients, Drops(c)
  PROVE  SInv'
<1>1. /\ up' = up \ {c} /\ queue' = [queue EXCEPT ![c] = <<>>]
      /\ session' = session /\ member' = member /\ page' = page
  BY DEF Drops
<1>2. Typed /\ Watched /\ Kept /\ Members' = Members
  BY <1>1 DEF SInv, Members
<1>3. Typed' /\ Watched' /\ Kept'
  <2>1. queue' \in [Clients -> Seq(Messages)]
    BY <1>1, <1>2 DEF Typed
  <2> QED BY <1>1, <1>2, <2>1 DEF Typed, Watched, Kept
<1>4. ASSUME NEW k \in up'
      PROVE  Agrees(Ahead(k)', k, session', Members')
  <2>1. k \in up /\ k # c /\ k \in Clients
    BY <1>1, <1>2 DEF Typed
  <2>2. queue'[k] = queue[k]
    BY <1>1, <1>2, <2>1 DEF Typed
  <2>3. Ahead(k)' = Ahead(k)
    BY <1>1, <2>2 DEF Ahead
  <2> QED BY <1>1, <1>2, <2>1, <2>3 DEF SInv
<1> QED BY <1>3, <1>4 DEF SInv

LEMMA ShutdownStep ==
  ASSUME SInv, Shutdown
  PROVE  SInv'
<1>1. /\ session' = [s \in Ids |-> IF session[s].at = "live"
                      THEN [session[s] EXCEPT !.at = "disposed", !.told = "kill", !.timer = FALSE, !.attached = {}]
                      ELSE session[s]]
      /\ member' = [c \in Clients |-> "gone"] /\ up' = {} /\ queue' = [c \in Clients |-> <<>>] /\ page' = page
  BY DEF Shutdown
<1>2. session \in [Ids -> Opens] /\ Typed /\ Watched /\ Kept
  BY Says DEF SInv
<1>3. /\ session' \in [Ids -> Opens]
      /\ \A s \in Ids : session'[s].at # "live" /\ session'[s].attached = {}
  BY <1>1, <1>2 DEF Opens, Watched
<1>4. Typed' /\ Watched' /\ Kept'
  <2>1. queue' \in [Clients -> Seq(Messages)]
    <3>1. queue' = [c \in Clients |-> <<>>]
      BY DEF Shutdown
    <3>2. <<>> \in Seq(Messages)
      OBVIOUS
    <3> QED BY <3>1, <3>2
  <2>2. page' = [c \in Clients |-> page'[c]]
    <3>1. page' = page
      BY DEF Shutdown
    <3>2. page = [c \in Clients |-> page[c]]
      BY <1>2 DEF Typed
    <3> QED BY <3>1, <3>2, Zenon
  <2>3. Typed'
    BY <1>1, <1>3, <2>1, <2>2 DEF Typed
  <2>4. Watched' /\ Kept'
    BY <1>3 DEF Watched, Kept
  <2> QED BY <2>3, <2>4
<1> QED BY <1>1, <1>4 DEF SInv

LEMMA ReceiveStep ==
  ASSUME SInv, NEW c \in Clients, Receive(c)
  PROVE  SInv'
<1>1. /\ queue[c] # <<>>
      /\ page' = [page EXCEPT ![c] = Understood(@, Head(queue[c]))]
      /\ queue' = [queue EXCEPT ![c] = Tail(@)]
      /\ session' = session /\ member' = member /\ up' = up
  BY DEF Receive
<1>2. Typed /\ Watched /\ Kept /\ Members' = Members
  BY <1>1 DEF SInv, Members
<1>3. queue \in [Clients -> Seq(Messages)] /\ page = [k \in Clients |-> page[k]] /\ up \subseteq Clients
  BY <1>2 DEF Typed
<1> DEFINE q == queue[c]
<1>4. q \in Seq(Messages) /\ q # <<>> /\ Tail(q) \in Seq(Messages)
  BY <1>1, <1>3
<1>5. /\ queue'[c] = Tail(q) /\ page'[c] = Understood(page[c], Head(q))
      /\ \A k \in Clients : k # c => queue'[k] = queue[k] /\ page'[k] = page[k]
      /\ queue' \in [Clients -> Seq(Messages)] /\ page' = [k \in Clients |-> page'[k]]
  BY <1>1, <1>3, <1>4
<1>6. Typed' /\ Watched' /\ Kept'
  BY <1>1, <1>2, <1>5 DEF Typed, Watched, Kept
<1>7. U!Fold(Understood(page[c], Head(q)), Tail(q)) = U!Fold(page[c], q)
  BY <1>4, U!AfterTail
<1>8. ASSUME NEW k \in up'
      PROVE  Agrees(Ahead(k)', k, session', Members')
  <2>1. k \in up /\ k \in Clients
    BY <1>1, <1>3
  <2>2. Ahead(k)' = Ahead(k)
    <3>1. CASE k = c
      BY <1>5, <1>7, <3>1 DEF Ahead
    <3>2. CASE k # c
      BY <1>5, <2>1, <3>2 DEF Ahead
    <3> QED BY <3>1, <3>2
  <2> QED BY <1>1, <1>2, <2>1, <2>2 DEF SInv
<1> QED BY <1>6, <1>8 DEF SInv

LEMMA AttachStep ==
  ASSUME SInv, NEW c \in Clients, NEW s \in Ids, Attach(c, s)
  PROVE  SInv'
<1> DEFINE n == Presence(session', Members)
           ns == <<n>>
           x == session'[s]
           m == Attached(s, x)
           ms == <<m>>
           to == {c}
<1>1. /\ c \in Members /\ session[s].at = "live"
      /\ session' = [session EXCEPT ![s].attached = @ \cup {c}]
      /\ queue' = Send(Send(queue, Members, ns), to, ms)
      /\ member' = member /\ page' = page /\ up' = up
  BY DEF Attach, Listed
<1>2. /\ session \in [Ids -> Opens] /\ Members \in SUBSET Clients /\ Members' = Members
      /\ \A k \in up : Agrees(Ahead(k), k, session, Members) /\ Ahead(k) \in Pages
  BY <1>1, Says DEF Members
<1>3. /\ session' \in [Ids -> Opens]
      /\ \A t \in Ids : /\ session'[t].at = session[t].at /\ session'[t].made = session[t].made
                        /\ session'[t].grid = session[t].grid /\ session'[t].scrollback = session[t].scrollback
                        /\ session'[t].attached = IF t = s THEN session[t].attached \cup {c} ELSE session[t].attached
  BY <1>1, <1>2 DEF Opens
<1>4. Typed /\ Watched /\ Kept
  BY DEF SInv
<1>5. x \in Opens /\ EndsAt(x.scrollback, x.made)
  BY <1>1, <1>3, <1>4 DEF Kept
<1>6. n \in Messages /\ Live(session') = Live(session)
  BY <1>2, <1>3, OfTheHub DEF Live
<1> HIDE DEF x
<1>7. m \in Messages
  BY <1>5, OfAnAttachment
<1> HIDE DEF m, n
<1>8. /\ ns \in Seq(Messages) /\ ms \in Seq(Messages)
      /\ \A d : U!Fold(d, ns) = Understood(d, n)
      /\ Amounts(ms, m) /\ Only(to, c)
  BY <1>6, <1>7, FoldOne DEF Amounts, Only
<1> HIDE DEF ns, ms, to
<1>9. /\ queue' \in [Clients -> Seq(Messages)]
      /\ \A k \in up : k = c => Ahead(k)' = Understood(U!Fold(Ahead(k), ns), m)
      /\ \A k \in up : k # c /\ k \in Members => Ahead(k)' = U!Fold(Ahead(k), ns)
      /\ \A k \in up : k \notin Members => Ahead(k)' = Ahead(k)
  <2>1. /\ Typed /\ ns \in Seq(Messages) /\ ms \in Seq(Messages) /\ c \in Members
        /\ queue' = Send(Send(queue, Members, ns), to, ms) /\ page' = page /\ up' = up
        /\ Amounts(ms, m) /\ Only(to, c)
    BY <1>1, <1>4, <1>8
  <2> QED BY <2>1, SentOneMore
<1>10. Typed' /\ Watched' /\ Kept'
  <2>1. Typed'
    BY <1>1, <1>3, <1>4, <1>9 DEF Typed
  <2>2. Watched'
    BY <1>1, <1>2, <1>3, <1>4 DEF Watched
  <2>3. Kept'
    BY <1>3, <1>4 DEF Kept
  <2> QED BY <2>1, <2>2, <2>3
<1>11. ASSUME NEW k \in up'
       PROVE  Agrees(Ahead(k)', k, session', Members')
  <2>1. k \in up /\ Agrees(Ahead(k), k, session, Members) /\ Ahead(k) \in Pages
    BY <1>1, <1>2
  <2> DEFINE d == Ahead(k)
             e == Understood(d, n)
  <2>2. d \in Pages /\ Agrees(d, k, session, Members)
    BY <2>1
  <2>3. /\ e \in Pages /\ e.list = d.list /\ e.here = Here(session', Members) /\ e.screen = d.screen
    <3> HIDE DEF d
    <3> QED BY <1>2, <1>3, <2>2, OfPresence DEF n
  <2>4. CASE k = c
    <3>1. Ahead(k)' = Understood(e, m)
      BY <1>8, <1>9, <2>1, <2>4
    <3> HIDE DEF d, e
    <3>2. /\ Understood(e, m) \in Pages /\ Understood(e, m).list = e.list /\ Understood(e, m).here = e.here
          /\ \A t \in Ids : t # s => Understood(e, m).screen[t] = e.screen[t]
          /\ Follows(Understood(e, m).screen[s], x)
      BY <1>5, <2>3, OfAttached DEF m
    <3>3. \A t \in Ids : t # s /\ session'[t].at = "live" /\ k \in session'[t].attached =>
            Follows(Understood(e, m).screen[t], session'[t])
      <4> SUFFICES ASSUME NEW t \in Ids, t # s, session'[t].at = "live", k \in session'[t].attached
                   PROVE  Follows(Understood(e, m).screen[t], session'[t])
        OBVIOUS
      <4>1. Follows(d.screen[t], session[t])
        BY <1>3, <2>2 DEF Agrees
      <4>2. Understood(e, m).screen[t] = d.screen[t]
        BY <2>3, <3>2
      <4> QED BY <1>3, <4>1, <4>2 DEF Follows
    <3>4. Agrees(Understood(e, m), k, session', Members)
      BY <1>1, <1>6, <2>2, <2>3, <2>4, <3>2, <3>3 DEF Agrees, x
    <3> QED BY <1>2, <3>1, <3>4
  <2>5. CASE k # c /\ k \in Members
    <3>1. Ahead(k)' = e
      BY <1>8, <1>9, <2>1, <2>5
    <3> HIDE DEF d, e
    <3>2. Agrees(e, k, session', Members)
      BY <1>3, <1>6, <2>2, <2>3, <2>5 DEF Agrees, Follows
    <3> QED BY <1>2, <3>1, <3>2
  <2>6. CASE k \notin Members
    <3>1. Ahead(k)' = d /\ k # c
      BY <1>1, <1>9, <2>1, <2>6
    <3> HIDE DEF d
    <3>2. Agrees(d, k, session', Members)
      BY <1>3, <2>2, <2>6, <3>1 DEF Agrees, Follows
    <3> QED BY <1>2, <3>1, <3>2
  <2> QED BY <2>4, <2>5, <2>6
<1> QED BY <1>10, <1>11 DEF SInv

LEMMA CreateStep ==
  ASSUME SInv, NEW c \in Clients, NEW attach \in BOOLEAN, Create(c, attach)
  PROVE  SInv'
<1> DEFINE s == CHOOSE t \in Unused : TRUE
           to == IF attach THEN {c} ELSE {}
           x == [Unopened EXCEPT !.at = "live", !.attached = to]
           o == Opened(s)
           n == Presence(session', Members)
           ns == <<o, n>>
           m == Attached(s, x)
           ms == <<m>>
           os == <<o>>
           own == {c}
<1>1. /\ c \in Members /\ Unused # {}
      /\ session' = [session EXCEPT ![s] = x]
      /\ attach => queue' = Send(Send(queue, Members, ns), own, ms)
      /\ ~attach => queue' = Send(queue, Members, os)
      /\ member' = member /\ page' = page /\ up' = up
  BY DEF Create
<1>2. s \in Ids /\ session[s].at = "unopened"
  BY <1>1 DEF Unused
<1> HIDE DEF s
<1>3. /\ session \in [Ids -> Opens] /\ Members \in SUBSET Clients /\ Members' = Members
      /\ \A k \in up : Agrees(Ahead(k), k, session, Members) /\ Ahead(k) \in Pages
  BY <1>1, Says DEF Members
<1>4. Typed /\ Watched /\ Kept
  BY DEF SInv
<1>5. /\ x \in Opens /\ x.at = "live" /\ x.attached = to /\ x.scrollback = <<>> /\ EndsAt(x.scrollback, x.made)
  <2>1. Unopened \in Opens /\ Unopened.scrollback = <<>>
    BY UnopenedIs
  <2>2. to \subseteq Clients
    OBVIOUS
  <2> HIDE DEF to
  <2> QED BY <2>1, <2>2 DEF Opens, EndsAt
<1> HIDE DEF x
<1>6. /\ session' \in [Ids -> Opens]
      /\ session'[s] = x /\ \A t \in Ids : t # s => session'[t] = session[t]
  BY <1>1, <1>2, <1>3, <1>5
<1>7. Live(session') = Live(session) \cup {s}
  BY <1>2, <1>5, <1>6 DEF Live
<1>8. n \in Messages /\ o \in Messages /\ m \in Messages
  BY <1>2, <1>3, <1>5, <1>6, OfTheHub, OfASession, OfAnAttachment
<1> HIDE DEF m, n, o
<1>9. /\ ns \in Seq(Messages) /\ ms \in Seq(Messages)
      /\ \A d : U!Fold(d, ns) = Understood(Understood(d, o), n)
      /\ Amounts(ms, m) /\ Only(own, c)
  BY <1>8, FoldOne, FoldTwo DEF Amounts, Only
<1> HIDE DEF ns, ms, own
<1>10. ASSUME queue' \in [Clients -> Seq(Messages)]
       PROVE  Typed' /\ Watched' /\ Kept'
  <2>1. Typed'
    BY <1>1, <1>4, <1>6, <1>10 DEF Typed
  <2>2. to \subseteq Members
    BY <1>1
  <2>3. Watched'
    BY <1>3, <1>4, <1>5, <1>6, <2>2 DEF Watched
  <2>4. Kept'
    BY <1>4, <1>5, <1>6 DEF Kept
  <2> QED BY <2>1, <2>3, <2>4
<1>11. ASSUME NEW d, NEW k, d \in Pages, Agrees(d, k, session, Members)
       PROVE  /\ Understood(d, o) \in Pages
              /\ Understood(d, o).list = d.list \cup {s} /\ Understood(d, o).here = d.here
              /\ Understood(d, o).screen = d.screen
  BY <1>2, <1>11, OfOpened DEF o
<1>12. CASE attach
  <2>1. /\ queue' \in [Clients -> Seq(Messages)]
        /\ \A k \in up : k = c => Ahead(k)' = Understood(U!Fold(Ahead(k), ns), m)
        /\ \A k \in up : k # c /\ k \in Members => Ahead(k)' = U!Fold(Ahead(k), ns)
        /\ \A k \in up : k \notin Members => Ahead(k)' = Ahead(k)
    <3>1. /\ Typed /\ ns \in Seq(Messages) /\ ms \in Seq(Messages) /\ c \in Members
          /\ queue' = Send(Send(queue, Members, ns), own, ms) /\ page' = page /\ up' = up
          /\ Amounts(ms, m) /\ Only(own, c)
      BY <1>1, <1>4, <1>9, <1>12
    <3> QED BY <3>1, SentOneMore
  <2>2. to = {c}
    BY <1>12
  <2> HIDE DEF to
  <2>3. ASSUME NEW k \in up'
        PROVE  Agrees(Ahead(k)', k, session', Members')
    <3>1. k \in up /\ Agrees(Ahead(k), k, session, Members) /\ Ahead(k) \in Pages
      BY <1>1, <1>3
    <3> DEFINE d == Ahead(k)
               e == Understood(d, o)
               f == Understood(e, n)
    <3>2. d \in Pages /\ Agrees(d, k, session, Members)
      BY <3>1
    <3>3. e \in Pages /\ e.list = d.list \cup {s} /\ e.here = d.here /\ e.screen = d.screen
      <4> HIDE DEF d
      <4> QED BY <1>11, <3>2
    <3>4. f \in Pages /\ f.list = e.list /\ f.here = Here(session', Members) /\ f.screen = e.screen
      <4> HIDE DEF e
      <4> QED BY <1>3, <1>6, <3>3, OfPresence DEF n
    <3>5. CASE k = c
      <4>1. Ahead(k)' = Understood(f, m)
        BY <1>9, <2>1, <3>1, <3>5
      <4> HIDE DEF d, e, f
      <4>2. /\ Understood(f, m) \in Pages /\ Understood(f, m).list = f.list /\ Understood(f, m).here = f.here
            /\ \A t \in Ids : t # s => Understood(f, m).screen[t] = f.screen[t]
            /\ Follows(Understood(f, m).screen[s], x)
        BY <1>2, <1>5, <3>4, OfAttached DEF m
      <4>3. \A t \in Ids : t # s /\ session'[t].at = "live" /\ k \in session'[t].attached =>
              Follows(Understood(f, m).screen[t], session'[t])
        BY <1>6, <3>2, <3>3, <3>4, <4>2 DEF Agrees
      <4>4. Agrees(Understood(f, m), k, session', Members)
        BY <1>1, <1>6, <1>7, <3>2, <3>3, <3>4, <3>5, <4>2, <4>3 DEF Agrees
      <4> QED BY <1>3, <4>1, <4>4
    <3>6. CASE k # c /\ k \in Members
      <4>1. Ahead(k)' = f
        BY <1>9, <2>1, <3>1, <3>6
      <4> HIDE DEF d, e, f
      <4>2. k \notin session'[s].attached
        BY <1>5, <1>6, <2>2, <3>6
      <4>3. Agrees(f, k, session', Members)
        BY <1>6, <1>7, <3>2, <3>3, <3>4, <3>6, <4>2 DEF Agrees
      <4> QED BY <1>3, <4>1, <4>3
    <3>7. CASE k \notin Members
      <4>1. Ahead(k)' = d /\ k # c
        BY <1>1, <2>1, <3>1, <3>7
      <4> HIDE DEF d
      <4>2. k \notin session'[s].attached
        BY <1>5, <1>6, <2>2, <4>1
      <4>3. Agrees(d, k, session', Members)
        BY <1>6, <3>2, <3>7, <4>2 DEF Agrees
      <4> QED BY <1>3, <4>1, <4>3
    <3> QED BY <3>5, <3>6, <3>7
  <2> QED BY <1>10, <2>1, <2>3 DEF SInv
<1>13. CASE ~attach
  <2>1. /\ queue' \in [Clients -> Seq(Messages)]
        /\ \A k \in up : k \in Members => Ahead(k)' = Understood(Ahead(k), o)
        /\ \A k \in up : k \notin Members => Ahead(k)' = Ahead(k)
    BY <1>1, <1>4, <1>8, <1>13, SentOne DEF os
  <2>2. to = {}
    BY <1>13
  <2> HIDE DEF to
  <2>3. Here(session', Members) = Here(session, Members)
    <3>1. \A t \in Ids, k \in Members :
            session'[t].at = "live" /\ k \in session'[t].attached <=> session[t].at = "live" /\ k \in session[t].attached
      BY <1>2, <1>5, <1>6, <2>2
    <3> QED BY <3>1 DEF Here
  <2>4. ASSUME NEW k \in up'
        PROVE  Agrees(Ahead(k)', k, session', Members')
    <3>1. k \in up /\ Agrees(Ahead(k), k, session, Members) /\ Ahead(k) \in Pages
      BY <1>1, <1>3
    <3> DEFINE d == Ahead(k)
               e == Understood(d, o)
    <3>2. d \in Pages /\ Agrees(d, k, session, Members)
      BY <3>1
    <3>3. e \in Pages /\ e.list = d.list \cup {s} /\ e.here = d.here /\ e.screen = d.screen
      <4> HIDE DEF d
      <4> QED BY <1>11, <3>2
    <3>4. k \notin session'[s].attached
      BY <1>5, <1>6, <2>2
    <3>5. CASE k \in Members
      <4>1. Ahead(k)' = e
        BY <2>1, <3>1, <3>5
      <4> HIDE DEF d, e
      <4>2. Agrees(e, k, session', Members)
        BY <1>6, <1>7, <2>3, <3>2, <3>3, <3>4, <3>5 DEF Agrees
      <4> QED BY <1>3, <4>1, <4>2
    <3>6. CASE k \notin Members
      <4>1. Ahead(k)' = d
        BY <2>1, <3>1, <3>6
      <4> HIDE DEF d
      <4>2. Agrees(d, k, session', Members)
        BY <1>6, <3>2, <3>4, <3>6 DEF Agrees
      <4> QED BY <1>3, <4>1, <4>2
    <3> QED BY <3>5, <3>6
  <2> QED BY <1>10, <2>1, <2>4 DEF SInv
<1> QED BY <1>12, <1>13

-----------------------------------------------------------------------------

LEMMA InductiveSInv == Spec => []SInv
<1>1. Init => SInv
  BY Starts
<1>2. SInv /\ [Next]_vars => SInv'
  <2> SUFFICES ASSUME SInv, [Next]_vars PROVE SInv'
    OBVIOUS
  <2>1. CASE Next
    <3>1. ASSUME NEW c \in Clients, Identify(c) \/ RemoveClient(c) \/ Drops(c) \/ Receive(c)
          PROVE  SInv'
      BY <3>1, IdentifyStep, RemoveClientStep, DropsStep, ReceiveStep
    <3>2. ASSUME NEW c \in Clients, NEW attach \in BOOLEAN, Create(c, attach)
          PROVE  SInv'
      BY <3>2, CreateStep
    <3>3. ASSUME NEW c \in Clients, NEW s \in Ids, Attach(c, s) \/ Detach(c, s) \/ Kill(c, s)
          PROVE  SInv'
      BY <3>3, AttachStep, DetachStep, KillStep
    <3>4. ASSUME NEW c \in Clients, NEW s \in Ids, NEW g \in Grids, Resize(c, s, g)
          PROVE  SInv'
      BY <3>4, ResizeStep
    <3>5. ASSUME NEW s \in Ids, PtyExits(s) \/ KillTimer(s)
          PROVE  SInv'
      BY <3>5, PtyExitsStep, KillTimerStep
    <3>6. ASSUME NEW s \in Ids, NEW n \in 1..MaxMade, PtyData(s, n)
          PROVE  SInv'
      BY <3>6, PtyDataStep
    <3>7. CASE Shutdown
      BY <3>7, ShutdownStep
    <3> QED BY <2>1, <3>1, <3>2, <3>3, <3>4, <3>5, <3>6, <3>7, Zenon DEF Next
  <2>2. CASE UNCHANGED vars
    <3>1. session' \in [Ids -> Opens] /\ UNCHANGED <<member, queue, page, up>> /\ session' = session
      BY <2>2, Says DEF vars
    <3> QED BY <3>1, NothingSeen
  <2> QED BY <2>1, <2>2
<1> QED BY <1>1, <1>2, PTL DEF Spec

LEMMA DrainedIs ==
  ASSUME NEW c
  PROVE  Drained(c) = Ahead(c)
BY FoldsAreFolds DEF Drained, Ahead

(* A client attached to a session, once it has read what was sent to it, shows
   an unbroken run of the session's output up to its last byte, at the size the
   session has, whatever was trimmed and whoever else came, went or resized. *)
THEOREM ScreensGoOn == Spec => []ScreensContinue
<1>1. SInv => ScreensContinue
  <2> SUFFICES ASSUME SInv, NEW s \in Listed, NEW c \in session[s].attached \cap up
               PROVE  LET x == Drained(c).screen[s]
                      IN ~x.torn /\ x.to = session[s].made /\ x.grid = session[s].grid
    BY DEF ScreensContinue
  <2>1. s \in Ids /\ session[s].at = "live" /\ Agrees(Ahead(c), c, session, Members)
    BY DEF SInv, Listed
  <2>2. Follows(Ahead(c).screen[s], session[s])
    BY <2>1 DEF Agrees
  <2>3. Drained(c) = Ahead(c)
    BY DrainedIs
  <2> QED BY <2>2, <2>3 DEF Follows
<1> QED BY <1>1, InductiveSInv, PTL

(* A member that is connected and has read what was sent to it lists the
   sessions there are, and the clients there are with what each watches. *)
THEOREM PagesAreTrue == Spec => []PagesAgree
<1>1. SInv => PagesAgree
  <2> SUFFICES ASSUME SInv, NEW c \in Members \cap up
               PROVE  Drained(c).list = Listed /\ Drained(c).here = Presence(session, Members).here
    BY DEF PagesAgree
  <2>1. Agrees(Ahead(c), c, session, Members)
    BY DEF SInv
  <2>2. Drained(c) = Ahead(c)
    BY DrainedIs
  <2>3. Listed = Live(session) /\ Presence(session, Members).here = Here(session, Members)
    BY DEF Listed, Live, Presence, Hello, Here
  <2> QED BY <2>1, <2>2, <2>3 DEF Agrees
<1> QED BY <1>1, InductiveSInv, PTL
=============================================================================
