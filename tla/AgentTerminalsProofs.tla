------------------------ MODULE AgentTerminalsProofs ------------------------
(***************************************************************************)
(* Theorems about AgentTerminals, for any viewers, sizes and bounds: two   *)
(* processes of a member never run unless one has been hung up, the        *)
(* orchestrator keeps an entry exactly as long as there is a use for it,   *)
(* and whoever has attached has been shown what everybody else has.        *)
(***************************************************************************)
EXTENDS AgentTerminals, TLAPS

-----------------------------------------------------------------------------
(* One process.  Once the script of a start has run, what is alive has been
   hung up, and until the launch nothing else is started. *)

PInv ==
  /\ start \in {"ending", "launching"} => live \subseteq doomed
  /\ OneProcess

(* The steps that touch neither the processes nor the start keep the invariant. *)
LEMMA ProcessesAlone ==
  ASSUME PInv, UNCHANGED <<start, live, doomed>>
  PROVE  PInv'
BY DEF PInv, OneProcess

(* Every step keeps at most one process that has not been hung up. *)
LEMMA ProcessStep == PInv /\ [Next]_vars => PInv'
<1> SUFFICES ASSUME PInv, [Next]_vars PROVE PInv'
  OBVIOUS
<1>1. ASSUME NEW v \in Viewers, Attach(v) \/ Close(v)
      PROVE  PInv'
  BY <1>1, ProcessesAlone DEF Attach, Close, tty
<1>2. CASE Parse
  BY <1>2, ProcessesAlone DEF Parse, tty
<1>3. ASSUME NEW s \in Sizes, Resize(s)
      PROVE  PInv'
  BY <1>3, ProcessesAlone DEF Resize
<1>4. ASSUME NEW s \in Sizes, Start(s)
      PROVE  PInv'
  BY <1>4 DEF Start, PInv, OneProcess
<1>5. CASE StartClears
  BY <1>5 DEF StartClears, PInv, OneProcess
<1>6. CASE StartCleared
  BY <1>6 DEF StartCleared, tty, PInv, OneProcess
<1>7. CASE StartFails
  BY <1>7 DEF StartFails, PInv, OneProcess
<1>8. CASE Launch
  BY <1>8 DEF Launch, PInv, OneProcess
<1>9. CASE Output \/ StreamLost \/ Finish
  BY <1>9, ProcessesAlone DEF Output, StreamLost, Finish, tty
<1>10. ASSUME NEW p \in live, Ends(p)
       PROVE  PInv'
  BY <1>10 DEF Ends, PInv, OneProcess
<1>11. ASSUME NEW c \in BOOLEAN, Stop(c)
       PROVE  PInv'
  BY <1>11, ProcessesAlone DEF Stop, tty
<1>12. CASE StopArrives
  BY <1>12 DEF StopArrives, PInv, OneProcess
<1>13. CASE StopFails \/ Shutdown \/ Forget
  BY <1>13, ProcessesAlone DEF StopFails, Shutdown, Forget, tty
<1>14. CASE Exit \/ Crash
  <2>1. Restart
    BY <1>14 DEF Exit, Crash
  <2> QED BY <2>1 DEF Restart, PInv, OneProcess
<1>15. CASE UNCHANGED vars
  BY <1>15, ProcessesAlone DEF vars, tty
<1> QED
  BY <1>1, <1>2, <1>3, <1>4, <1>5, <1>6, <1>7, <1>8, <1>9, <1>10, <1>11, <1>12, <1>13, <1>14, <1>15 DEF Next

(* A member has at most one terminal process that has not been hung up,
   crashes of the orchestrator and lost streams included (start() of
   agent-terminals.ts stops before it starts). *)
THEOREM OneProcessOnly == Spec => []OneProcess
<1>1. Init => PInv
  BY DEF Init, PInv, OneProcess
<1>2. PInv => OneProcess
  BY DEF PInv
<1> QED
  BY <1>1, <1>2, ProcessStep, PTL DEF Spec

-----------------------------------------------------------------------------
(* The entry.  Its listeners are the connections there are, its status says
   where the start and the process are, and it is known when it is in use. *)

Items == {Printed(n) : n \in Nat} \cup {Reset} \cup {Snapshot(v) : v \in Viewers}

EntrySet == [ known : BOOLEAN, status : Statuses, size : Sizes, text : Seq(Nat), queue : Seq(Items),
              listeners : SUBSET Viewers, handle : Nat, over : BOOLEAN, stopRequested : BOOLEAN ]

CountSet == [starts : Nat, prints : Nat, resizes : Nat, faults : Nat]

KTyped ==
  /\ entry \in EntrySet
  /\ at \in [Viewers -> Connections]
  /\ start \in {"none", "preparing", "ending", "launching"}
  /\ count \in CountSet

Listening == orch # "closed" => entry.listeners = {v \in Viewers : at[v] # "away"}
KnownIfInUse == orch # "closed" => (entry.known <=> InUse(entry))
StatusTells ==
  /\ entry.status = "starting" <=> start # "none"
  /\ entry.status = "running" <=> entry.handle # NoHandle
  /\ start # "none" => count.starts # 0

KInv == KTyped /\ Listening /\ KnownIfInUse /\ StatusTells

(* A new entry is one. *)
LEMMA NoEntryTyped == NoEntry \in EntrySet
<1>1. (CHOOSE s \in Sizes : TRUE) \in Sizes
  BY AgentTerminalsAssumption
<1> QED
  BY <1>1 DEF NoEntry, EntrySet, Statuses, NoHandle

(* collect() gives back the entry it gets or a new one, and one that is known
   exactly when it is in use. *)
LEMMA CollectKeeps ==
  ASSUME NEW e \in EntrySet, orch # "closed" => e.known
  PROVE  /\ Collect(e) \in EntrySet
         /\ orch # "closed" => (Collect(e).known <=> InUse(Collect(e)))
         /\ Collect(e).listeners = e.listeners
         /\ Collect(e).status = "starting" <=> e.status = "starting"
         /\ Collect(e).status = "running" <=> e.status = "running"
         /\ Collect(e).handle = e.handle \/ (e.status # "running" /\ Collect(e).handle = NoHandle)
<1>1. CASE Collect(e) = e /\ (orch # "closed" => InUse(e))
  BY <1>1
<1>2. CASE Collect(e) = NoEntry /\ ~InUse(e)
  <2>1. /\ NoEntry.listeners = {} /\ NoEntry.status = "idle" /\ NoEntry.handle = NoHandle
        /\ ~NoEntry.known /\ ~InUse(NoEntry)
    BY DEF NoEntry, InUse
  <2> QED BY <1>2, <2>1, NoEntryTyped DEF InUse
<1> QED
  BY <1>1, <1>2 DEF Collect

(* Something is queued for the parser. *)
LEMMA Queueing ==
  ASSUME NEW e \in EntrySet, NEW i \in Items
  PROVE  /\ [e EXCEPT !.queue = Append(@, i)] \in EntrySet
         /\ [e EXCEPT !.queue = Append(@, i)].known = e.known
         /\ [e EXCEPT !.queue = Append(@, i)].listeners = e.listeners
         /\ [e EXCEPT !.queue = Append(@, i)].status = e.status
         /\ [e EXCEPT !.queue = Append(@, i)].handle = e.handle
<1>1. e.queue \in Seq(Items)
  BY DEF EntrySet
<1>2. Append(e.queue, i) \in Seq(Items)
  BY <1>1
<1> QED
  BY <1>2 DEF EntrySet

(* The counters stay numbers. *)
LEMMA Counting ==
  ASSUME count \in CountSet,
         CountStart \/ CountPrint \/ CountResize \/ CountFault \/ UNCHANGED count
  PROVE  /\ count' \in CountSet
         /\ count'.starts = count.starts \/ CountStart
BY DEF CountSet, CountStart, CountPrint, CountResize, CountFault

(* The invariant holds in the initial states. *)
LEMMA KInvInit == Init => KInv
BY NoEntryTyped DEF Init, KInv, KTyped, Listening, KnownIfInUse, StatusTells, NoEntry, NoHandle, InUse,
   Connections, CountSet

(* A connection that goes leaves an entry that is kept for those that stay. *)
LEMMA Detached ==
  ASSUME KInv, NEW v \in Viewers, NEW e \in EntrySet,
         orch # "closed" => e.known,
         e.listeners = entry.listeners \ {v},
         e.status = entry.status, e.handle = entry.handle,
         entry' = Collect(e), Forgotten(v),
         UNCHANGED <<orch, start, count>>
  PROVE  KInv'
<1>1. /\ Collect(e) \in EntrySet
      /\ orch # "closed" => (Collect(e).known <=> InUse(Collect(e)))
      /\ Collect(e).listeners = e.listeners
      /\ Collect(e).status = "starting" <=> e.status = "starting"
      /\ Collect(e).status = "running" <=> e.status = "running"
      /\ Collect(e).handle = e.handle \/ (e.status # "running" /\ Collect(e).handle = NoHandle)
  BY CollectKeeps
<1>2. at' \in [Viewers -> Connections] /\ at' = [at EXCEPT ![v] = "away"]
  BY DEF KInv, KTyped, Forgotten, Connections
<1>3. Listening'
  BY <1>1, <1>2 DEF KInv, KTyped, Listening
<1>4. KnownIfInUse'
  BY <1>1 DEF KnownIfInUse, InUse
<1>5. StatusTells'
  BY <1>1 DEF KInv, StatusTells
<1> QED BY <1>1, <1>2, <1>3, <1>4, <1>5 DEF KInv, KTyped

(* Every step keeps it. *)
LEMMA KInvStep == KInv /\ [Next]_vars => KInv'
<1> SUFFICES ASSUME KInv, [Next]_vars PROVE KInv'
  OBVIOUS
<1>0. /\ entry \in EntrySet /\ at \in [Viewers -> Connections] /\ count \in CountSet
      /\ start \in {"none", "preparing", "ending", "launching"}
      /\ Listening /\ KnownIfInUse /\ StatusTells
  BY DEF KInv, KTyped
<1> USE DEF KInv, KTyped
<1>1. ASSUME NEW v \in Viewers, Attach(v)
      PROVE  KInv'
  <2>1. Snapshot(v) \in Items
    BY DEF Items
  <2>2. /\ entry' \in EntrySet /\ entry'.known
        /\ entry'.listeners = entry.listeners \cup {v}
        /\ entry'.status = entry.status /\ entry'.handle = entry.handle
    <3> DEFINE e == [[entry EXCEPT !.known = TRUE] EXCEPT !.listeners = @ \cup {v}]
    <3>1. /\ e \in EntrySet /\ e.known /\ e.listeners = entry.listeners \cup {v}
          /\ e.status = entry.status /\ e.handle = entry.handle
      BY <1>0 DEF EntrySet
    <3>2. entry' = [e EXCEPT !.queue = Append(@, Snapshot(v))]
      BY <1>0, <1>1 DEF Attach, Entry, EntrySet
    <3> HIDE DEF e
    <3> QED BY <2>1, <3>1, <3>2, Queueing
  <2>3. at' \in [Viewers -> Connections] /\ at' = [at EXCEPT ![v] = "attaching"]
    BY <1>0, <1>1 DEF Attach, Connections
  <2>4. UNCHANGED <<orch, start, count>> /\ orch # "closed"
    BY <1>1 DEF Attach
  <2>5. Listening'
    BY <1>0, <2>2, <2>3, <2>4 DEF Listening
  <2>6. KnownIfInUse'
    BY <2>2 DEF KnownIfInUse, InUse
  <2>7. StatusTells'
    BY <1>0, <2>2, <2>4 DEF StatusTells
  <2> QED BY <1>0, <2>2, <2>3, <2>4, <2>5, <2>6, <2>7
<1>2. ASSUME NEW s \in Sizes, Resize(s)
      PROVE  KInv'
  <2>1. /\ entry' \in EntrySet /\ entry'.known = entry.known
        /\ entry'.listeners = entry.listeners
        /\ entry'.status = entry.status /\ entry'.handle = entry.handle
    BY <1>0, <1>2 DEF Resize, EntrySet
  <2>2. at' = at /\ UNCHANGED <<orch, start>>
    BY <1>2 DEF Resize, Broadcast
  <2>3. count' \in CountSet /\ count'.starts = count.starts
    BY <1>0, <1>2 DEF Resize, CountResize, CountSet
  <2> QED BY <1>0, <2>1, <2>2, <2>3 DEF Listening, KnownIfInUse, InUse, StatusTells
<1>3. ASSUME NEW s \in Sizes, Start(s)
      PROVE  KInv'
  <2>1. Reset \in Items
    BY DEF Items
  <2>2. /\ entry' \in EntrySet /\ entry'.known
        /\ entry'.listeners = entry.listeners
        /\ entry'.status = "starting" /\ entry'.handle = entry.handle
    <3> DEFINE e == ResetScreen(Entry)
    <3>1. Entry \in EntrySet /\ Entry.known /\ Entry.listeners = entry.listeners /\ Entry.handle = entry.handle
      BY <1>0 DEF Entry, EntrySet
    <3>2. /\ e \in EntrySet /\ e.known = Entry.known /\ e.listeners = Entry.listeners
          /\ e.handle = Entry.handle
      BY <2>1, <3>1, Queueing DEF ResetScreen
    <3>3. entry' = [e EXCEPT !.status = "starting", !.size = s, !.stopRequested = FALSE]
      BY <1>3 DEF Start
    <3> HIDE DEF e
    <3> QED BY <3>1, <3>2, <3>3 DEF EntrySet, Statuses
  <2>3. at' = at /\ orch' = orch /\ start' = "preparing"
    BY <1>3 DEF Start, Broadcast
  <2>4. count' \in CountSet /\ count'.starts # 0
    BY <1>0, <1>3 DEF Start, CountStart, CountSet
  <2>5. entry.handle = NoHandle
    BY <1>0, <1>3 DEF Start, StatusTells
  <2> QED BY <1>0, <2>2, <2>3, <2>4, <2>5 DEF Listening, KnownIfInUse, InUse, StatusTells
<1>4. CASE StartClears \/ StartCleared
  <2>1. UNCHANGED <<orch, entry, at>>
    BY <1>4 DEF StartClears, StartCleared, viewers
  <2>2. start # "none" /\ start' \in {"ending", "launching"}
    BY <1>4 DEF StartClears, StartCleared
  <2>3. count' \in CountSet /\ count'.starts = count.starts
    BY <1>0, <1>4 DEF StartClears, StartCleared, CountFault, CountSet
  <2> QED BY <1>0, <2>1, <2>2, <2>3 DEF Listening, KnownIfInUse, InUse, StatusTells
<1>5. CASE Launch
  <2>1. /\ start = "launching" /\ start' = "none" /\ orch' = orch /\ at' = at /\ count' = count
    BY <1>5 DEF Launch, Broadcast
  <2>2. count.starts \in Nat \ {0}
    BY <1>0, <2>1 DEF StatusTells, CountSet
  <2>3. /\ entry' \in EntrySet /\ entry'.known = entry.known
        /\ entry'.listeners = entry.listeners
        /\ entry'.status = "running" /\ entry'.handle = count.starts
    BY <1>0, <1>5, <2>2 DEF Launch, EntrySet, Statuses
  <2>4. entry.status = "starting"
    BY <1>0, <2>1 DEF StatusTells
  <2> QED BY <1>0, <2>1, <2>2, <2>3, <2>4 DEF Listening, KnownIfInUse, InUse, StatusTells, NoHandle
<1>6. CASE StartFails
  <2> DEFINE e == [entry EXCEPT !.status = "exited"]
  <2>1. /\ start # "none" /\ start' = "none" /\ orch' = orch /\ at' = at
    BY <1>6 DEF StartFails, Broadcast
  <2>2. entry' = Collect(e)
    BY <1>6 DEF StartFails
  <2>3. count' \in CountSet
    BY <1>0, <1>6 DEF StartFails, CountFault, CountSet
  <2>4. /\ e \in EntrySet /\ e.known = entry.known /\ e.listeners = entry.listeners
        /\ e.status = "exited" /\ e.handle = entry.handle
    BY <1>0 DEF EntrySet, Statuses
  <2>5. entry.status = "starting" /\ entry.handle = NoHandle
    BY <1>0, <2>1 DEF StatusTells
  <2>6. orch # "closed" => e.known
    BY <1>0, <2>4, <2>5 DEF KnownIfInUse, InUse
  <2> HIDE DEF e
  <2>7. /\ Collect(e) \in EntrySet
        /\ orch # "closed" => (Collect(e).known <=> InUse(Collect(e)))
        /\ Collect(e).listeners = e.listeners
        /\ Collect(e).status # "starting" /\ Collect(e).status # "running"
        /\ Collect(e).handle = NoHandle
    BY <2>4, <2>5, <2>6, CollectKeeps
  <2> QED BY <1>0, <2>1, <2>2, <2>3, <2>4, <2>7 DEF Listening, KnownIfInUse, InUse, StatusTells
<1>7. ASSUME NEW v \in Viewers, Close(v)
      PROVE  KInv'
  <2> DEFINE e == [entry EXCEPT !.listeners = @ \ {v}]
  <2>1. UNCHANGED <<orch, start, count>>
    BY <1>7 DEF Close
  <2>2. CASE at[v] = "attaching" /\ at' = [at EXCEPT ![v] = "leaving"] /\ entry' = entry
    BY <1>0, <2>1, <2>2 DEF Listening, KnownIfInUse, InUse, StatusTells, Connections
  <2>3. CASE at[v] = "live" /\ entry' = Collect(e) /\ Forgotten(v)
    <3>1. /\ e \in EntrySet /\ e.known = entry.known /\ e.listeners = entry.listeners \ {v}
          /\ e.status = entry.status /\ e.handle = entry.handle
      BY <1>0 DEF EntrySet
    <3>2. orch # "closed" => e.known
      BY <1>0, <2>3, <3>1 DEF KnownIfInUse, Listening, InUse
    <3> HIDE DEF e
    <3> QED BY <1>0, <2>1, <2>3, <3>1, <3>2, Detached
  <2> QED BY <1>7, <2>2, <2>3 DEF Close
<1>8. CASE Parse
  <2> DEFINE item == Head(entry.queue)
             v == item.of
             e == [entry EXCEPT !.queue = Tail(@), !.text = Parsed(@, item)]
             d == [e EXCEPT !.listeners = @ \ {v}]
  <2>1. /\ UNCHANGED <<orch, start, count>> /\ orch # "closed"
        /\ entry.queue \in Seq(Items) /\ entry.queue # <<>>
    BY <1>0, <1>8 DEF Parse, EntrySet
  <2>2. item \in Items /\ Tail(entry.queue) \in Seq(Items)
    BY <2>1
  <2>3. Parsed(entry.text, item) \in Seq(Nat)
    BY <1>0, <2>2 DEF Parsed, Items, Printed, Reset, Snapshot, EntrySet
  <2>4. /\ e \in EntrySet /\ e.known = entry.known /\ e.listeners = entry.listeners
        /\ e.status = entry.status /\ e.handle = entry.handle
    BY <1>0, <2>2, <2>3 DEF EntrySet
  <2>5. item.kind = "snapshot" => v \in Viewers
    BY <2>2 DEF Items, Printed, Reset, Snapshot
  <2>6. CASE entry' = e /\ UNCHANGED at
    BY <1>0, <2>1, <2>4, <2>6 DEF Listening, KnownIfInUse, InUse, StatusTells
  <2>7. CASE item.kind = "snapshot" /\ at[v] = "attaching" /\ entry' = e /\ at' = [at EXCEPT ![v] = "live"]
    BY <1>0, <2>1, <2>4, <2>5, <2>7 DEF Listening, KnownIfInUse, InUse, StatusTells, Connections
  <2>8. CASE item.kind = "snapshot" /\ at[v] = "leaving" /\ entry' = Collect(d) /\ Forgotten(v)
    <3>1. /\ d \in EntrySet /\ d.known = entry.known /\ d.listeners = entry.listeners \ {v}
          /\ d.status = entry.status /\ d.handle = entry.handle
      BY <2>4 DEF EntrySet
    <3>2. d.known
      BY <1>0, <2>1, <2>5, <2>8, <3>1 DEF KnownIfInUse, Listening, InUse
    <3> HIDE DEF d, v
    <3> QED BY <1>0, <2>1, <2>5, <2>8, <3>1, <3>2, Detached
  <2> HIDE DEF e, d, v, item
  <2> QED
    <3> USE DEF e, d, v, item
    <3> QED BY <1>8, <2>6, <2>7, <2>8 DEF Parse, viewers
<1>9. CASE Finish
  <2>1. /\ entry.handle # NoHandle /\ UNCHANGED <<orch, start, at>>
        /\ entry.status = "running" /\ start = "none"
    BY <1>0, <1>9 DEF Finish, Broadcast, StatusTells
  <2>2. /\ entry.known \/ orch = "closed"
        /\ count' \in CountSet
    BY <1>0, <1>9, <2>1 DEF Finish, CountPrint, CountSet, KnownIfInUse, InUse
  <2>3. PICK e \in EntrySet : /\ entry' = Collect(e)
                              /\ e.known = entry.known /\ e.listeners = entry.listeners
                              /\ e.status = "exited" /\ e.handle = NoHandle
    <3> DEFINE e == [entry EXCEPT !.handle = NoHandle, !.status = "exited"]
               f == Written(e, count.prints + 1)
    <3>1. /\ e \in EntrySet /\ e.known = entry.known /\ e.listeners = entry.listeners
          /\ e.status = "exited" /\ e.handle = NoHandle
      BY <1>0 DEF EntrySet, Statuses, NoHandle
    <3>2. Printed(count.prints + 1) \in Items
      BY <1>0 DEF Items, CountSet
    <3>3. /\ f \in EntrySet /\ f.known = e.known /\ f.listeners = e.listeners
          /\ f.status = e.status /\ f.handle = e.handle
      BY <3>1, <3>2, Queueing DEF Written
    <3>4. entry' = Collect(e) \/ entry' = Collect(f)
      BY <1>9 DEF Finish
    <3> HIDE DEF e, f
    <3> QED BY <3>1, <3>3, <3>4
  <2>4. /\ Collect(e) \in EntrySet
        /\ orch # "closed" => (Collect(e).known <=> InUse(Collect(e)))
        /\ Collect(e).listeners = e.listeners
        /\ Collect(e).status # "starting" /\ Collect(e).status # "running"
        /\ Collect(e).handle = NoHandle
    BY <2>2, <2>3, CollectKeeps
  <2> QED BY <1>0, <2>1, <2>2, <2>3, <2>4 DEF Listening, KnownIfInUse, InUse, StatusTells
<1>10. ASSUME Output \/ StreamLost \/ (\E p \in live : Ends(p)) \/ (\E c \in BOOLEAN : Stop(c))
       PROVE  KInv'
  <2>1. UNCHANGED <<orch, start, at>>
    BY <1>10 DEF Output, StreamLost, Ends, Stop, Broadcast, viewers
  <2>2. count' \in CountSet /\ count'.starts = count.starts
    BY <1>0, <1>10 DEF Output, StreamLost, Ends, Stop, CountPrint, CountFault, CountSet
  <2>3. Printed(count.prints + 1) \in Items
    BY <1>0 DEF Items, CountSet
  <2>4. /\ entry' \in EntrySet /\ entry'.known = entry.known
        /\ entry'.listeners = entry.listeners
        /\ entry'.status = entry.status /\ entry'.handle = entry.handle
    <3>1. CASE Output
      BY <1>0, <2>3, <3>1, Queueing DEF Output, Written
    <3>2. CASE StreamLost \/ (\E p \in live : Ends(p)) \/ (\E c \in BOOLEAN : Stop(c))
      BY <1>0, <3>2 DEF StreamLost, Ends, Stop, EntrySet
    <3> QED BY <1>10, <3>1, <3>2
  <2> QED BY <1>0, <2>1, <2>2, <2>4 DEF Listening, KnownIfInUse, InUse, StatusTells
<1>11. CASE StopArrives \/ StopFails \/ Shutdown \/ Forget \/ UNCHANGED vars
  <2>1. UNCHANGED <<start, at, entry>> /\ (orch' # "closed" => orch # "closed")
    BY <1>11 DEF StopArrives, StopFails, Shutdown, Forget, viewers, vars
  <2>2. count' \in CountSet /\ count'.starts = count.starts
    BY <1>0, <1>11 DEF StopArrives, StopFails, Shutdown, Forget, CountFault, CountSet, vars
  <2> QED BY <1>0, <2>1, <2>2 DEF Listening, KnownIfInUse, InUse, StatusTells
<1>12. CASE Exit \/ Crash
  <2>1. count' \in CountSet
    BY <1>0, <1>12 DEF Exit, Crash, CountFault, CountSet
  <2>2. entry' = NoEntry /\ start' = "none" /\ at' = [v \in Viewers |-> "away"]
    BY <1>12 DEF Exit, Crash, Restart
  <2> QED BY <2>1, <2>2, NoEntryTyped DEF Listening, KnownIfInUse, InUse, StatusTells, NoEntry, Connections
<1> QED
  BY <1>1, <1>2, <1>3, <1>4, <1>5, <1>6, <1>7, <1>8, <1>9, <1>10, <1>11, <1>12 DEF Next

(* A terminal is forgotten when nobody is attached and nothing runs, and not
   before (collect() of agent-terminals.ts and its callers). *)
THEOREM EntriesAreKept == Spec => []EntryKept
<1>1. KInv => EntryKept
  BY DEF KInv, KTyped, Listening, KnownIfInUse, StatusTells, EntryKept, InUse, EntrySet
<1> QED
  BY <1>1, KInvInit, KInvStep, PTL DEF Spec
-----------------------------------------------------------------------------
(* What the viewers see.  Output is shown to those who are live, is held back for
   those who wait for their snapshot, and goes to the parser, all at once; the
   snapshot is what the parser has made of the part of the queue before it. *)

P == INSTANCE Folding WITH Op <- Parsed
S == INSTANCE Folding WITH Op <- Show

(* The text the screen will have when the parser has caught up. *)
Text(e) == P!Fold(e.text, e.queue)
Seen(e, status) == [text |-> Text(e), status |-> status]

LEMMA FoldsAreFolds ==
  /\ \A t, q : FoldLeft(Parsed, t, q) = P!Fold(t, q)
  /\ \A x, q : FoldLeft(Show, x, q) = S!Fold(x, q)
<1>1. ASSUME NEW t, NEW q
      PROVE  FoldLeft(Parsed, t, q) = P!Fold(t, q)
  BY DEF P!Fold, FoldLeft, MapThenFoldSet, Max, P!FoldLeft, P!MapThenFoldSet, P!Max
<1>2. ASSUME NEW x, NEW q
      PROVE  FoldLeft(Show, x, q) = S!Fold(x, q)
  BY DEF S!Fold, FoldLeft, MapThenFoldSet, Max, S!FoldLeft, S!MapThenFoldSet, S!Max
<1> QED BY <1>1, <1>2

Messages == {OutputOf(n) : n \in Nat} \cup {Clear} \cup {[type |-> "state", status |-> s] : s \in Statuses}

(* A viewer who waits has one snapshot in the queue.  What the parser will have made
   of what is before it, followed by what is held back, is what the screen will
   show; the status is the entry's, or the one the hello gives. *)
Catches(e, msgs, k) ==
  \A s \in Statuses :
    S!Fold([text |-> P!After(e.text, e.queue, k), status |-> s], msgs) \in {Seen(e, s), Seen(e, e.status)}

IsSnapshot(e, v, k) ==
  /\ k \in 1..Len(e.queue) /\ e.queue[k] = Snapshot(v)
  /\ \A j \in 1..Len(e.queue) : e.queue[j] = Snapshot(v) => j = k

NoSnapshot(e, v) == \A j \in 1..Len(e.queue) : e.queue[j] # Snapshot(v)

LiveSee == \A v \in Viewers : at[v] = "live" => shown[v] = Seen(entry, entry.status)
WaitersWillSee ==
  \A v \in Viewers :
    at[v] \in {"attaching", "leaving"} => \E k \in Nat : IsSnapshot(entry, v, k) /\ Catches(entry, pending[v], k)
OthersHaveNone == \A v \in Viewers : at[v] \in {"away", "live"} => pending[v] = <<>> /\ NoSnapshot(entry, v)

VInv ==
  /\ pending \in [Viewers -> Seq(Messages)] /\ DOMAIN shown = Viewers
  /\ entry.listeners = {v \in Viewers : at[v] # "away"}
  /\ LiveSee /\ WaitersWillSee /\ OthersHaveNone

(* The invariant is what the property says of the folds. *)
LEMMA SeenIsShown == VInv => ViewersAgree
BY FoldsAreFolds DEF VInv, LiveSee, ViewersAgree, Seen, Text

(* Items and messages. *)
LEMMA ItemFacts ==
  /\ \A n \in Nat : Printed(n) \in Items /\ OutputOf(n) \in Messages
  /\ Reset \in Items /\ Clear \in Messages
  /\ \A v \in Viewers : Snapshot(v) \in Items /\ \A w : Snapshot(v) = Snapshot(w) => v = w
  /\ \A s \in Statuses : [type |-> "state", status |-> s] \in Messages
  /\ \A v : Snapshot(v) # Reset /\ \A n : Snapshot(v) # Printed(n)
BY DEF Items, Messages, Printed, Reset, Snapshot, OutputOf, Clear

LEMMA ParsedFacts ==
  ASSUME NEW t
  PROVE  /\ \A n : Parsed(t, Printed(n)) = Append(t, n)
         /\ Parsed(t, Reset) = <<>>
         /\ \A v : Parsed(t, Snapshot(v)) = t
BY DEF Parsed, Printed, Reset, Snapshot

LEMMA ShowFacts ==
  ASSUME NEW t, NEW s
  PROVE  /\ \A n : Show([text |-> t, status |-> s], OutputOf(n)) = [text |-> Append(t, n), status |-> s]
         /\ Show([text |-> t, status |-> s], Clear) = [text |-> <<>>, status |-> s]
BY DEF Show, OutputOf, Clear

LEMMA StateShown ==
  ASSUME NEW t, NEW s, NEW e
  PROVE  Show([text |-> t, status |-> s], StateOf(e)) = [text |-> t, status |-> e.status]
BY DEF Show, StateOf

(* Folds of no message, of one, and of two. *)
LEMMA ShowsMore ==
  ASSUME NEW x, NEW q \in Seq(Messages), NEW a \in Messages, NEW r, r = Append(q, a)
  PROVE  S!Fold(x, r) = Show(S!Fold(x, q), a)
BY S!AfterAppend

LEMMA ShowsFew ==
  ASSUME NEW x, NEW a \in Messages, NEW b \in Messages
  PROVE  /\ S!Fold(x, <<>>) = x
         /\ S!Fold(x, <<a>>) = Show(x, a)
         /\ S!Fold(x, <<a, b>>) = Show(Show(x, a), b)
<1>1. PICK none, one, two :
        /\ none = <<>> /\ one = <<a>> /\ two = <<a, b>>
        /\ none \in Seq(Messages) /\ one \in Seq(Messages)
        /\ one = Append(none, a) /\ two = Append(one, b)
  <2>1. <<a>> = Append(<<>>, a) /\ <<a, b>> = Append(<<a>>, b) /\ <<>> \in Seq(Messages) /\ <<a>> \in Seq(Messages)
    OBVIOUS
  <2> QED BY <2>1, Zenon
<1>2. S!Fold(x, none) = x
  BY <1>1, S!FoldNone
<1>3. S!Fold(x, one) = Show(S!Fold(x, none), a)
  BY <1>1, ShowsMore
<1>4. S!Fold(x, two) = Show(S!Fold(x, one), b)
  <2>1. one \in Seq(Messages) /\ two = Append(one, b)
    BY <1>1
  <2> QED BY <2>1, ShowsMore
<1>5. /\ S!Fold(x, none) = x
      /\ S!Fold(x, one) = Show(x, a)
      /\ S!Fold(x, two) = Show(Show(x, a), b)
  BY <1>2, <1>3, <1>4, Zenon
<1>6. none = <<>> /\ one = <<a>> /\ two = <<a, b>>
  BY <1>1
<1> QED BY <1>5, <1>6, Zenon

(* What one more item in the queue does to the text to come, and to the snapshots. *)
LEMMA MoreQueued ==
  ASSUME NEW e \in EntrySet, NEW d \in EntrySet, NEW i \in Items, d.text = e.text, d.queue = Append(e.queue, i)
  PROVE  /\ Text(d) = Parsed(Text(e), i)
         /\ \A k \in 0..Len(e.queue) : P!After(d.text, d.queue, k) = P!After(e.text, e.queue, k)
         /\ \A v \in Viewers : i # Snapshot(v) =>
              /\ NoSnapshot(e, v) => NoSnapshot(d, v)
              /\ \A k \in Nat : IsSnapshot(e, v, k) => IsSnapshot(d, v, k)
<1>1. e.queue \in Seq(Items)
  BY DEF EntrySet
<1>2. /\ P!Fold(d.text, d.queue) = Parsed(P!Fold(e.text, e.queue), i)
      /\ \A k \in 0..Len(e.queue) : P!After(d.text, d.queue, k) = P!After(e.text, e.queue, k)
  BY <1>1, P!AfterAppend
<1>3. Len(d.queue) = Len(e.queue) + 1 /\ d.queue[Len(d.queue)] = i /\ \A j \in 1..Len(e.queue) : d.queue[j] = e.queue[j]
  BY <1>1
<1>4. Len(e.queue) \in Nat
  BY <1>1
<1>5. ASSUME NEW v \in Viewers, i # Snapshot(v)
      PROVE  /\ NoSnapshot(e, v) => NoSnapshot(d, v)
             /\ \A k \in Nat : IsSnapshot(e, v, k) => IsSnapshot(d, v, k)
  BY <1>3, <1>4, <1>5 DEF NoSnapshot, IsSnapshot
<1> QED BY <1>2, <1>5 DEF Text

(* What one item less does. *)
LEMMA OneRead ==
  ASSUME NEW e \in EntrySet, NEW d \in EntrySet, e.queue # <<>>,
         d.queue = Tail(e.queue), d.text = Parsed(e.text, Head(e.queue)), d.status = e.status
  PROVE  /\ Text(d) = Text(e)
         /\ P!After(e.text, e.queue, 1) = d.text
         /\ \A v \in Viewers :
              /\ NoSnapshot(e, v) => NoSnapshot(d, v)
              /\ IsSnapshot(e, v, 1) => NoSnapshot(d, v)
              /\ \A k \in Nat : \A msgs : IsSnapshot(e, v, k) /\ k # 1 /\ Catches(e, msgs, k) =>
                   k - 1 \in Nat /\ IsSnapshot(d, v, k - 1) /\ Catches(d, msgs, k - 1)
<1>1. e.queue \in Seq(Items) /\ d.queue \in Seq(Items)
  BY DEF EntrySet
<1>2. /\ Len(e.queue) \in Nat /\ Len(d.queue) = Len(e.queue) - 1 /\ 1 \in 1..Len(e.queue) /\ 0 \in 0..Len(d.queue)
      /\ \A j \in 1..Len(d.queue) : j + 1 \in 1..Len(e.queue) /\ d.queue[j] = e.queue[j + 1]
  BY <1>1
<1>3. /\ \A i \in 1..Len(e.queue) : P!After(d.text, d.queue, i - 1) = P!After(e.text, e.queue, i)
      /\ P!Fold(d.text, d.queue) = P!Fold(e.text, e.queue)
  BY <1>1, P!AfterTail
<1>4. Text(d) = Text(e)
  BY <1>3 DEF Text
<1>5. P!After(e.text, e.queue, 1) = d.text
  <2>1. P!After(d.text, d.queue, 1 - 1) = P!After(e.text, e.queue, 1)
    BY <1>2, <1>3
  <2>2. P!After(d.text, d.queue, 0) = d.text
    BY <1>1, P!AfterRuns
  <2> QED BY <2>1, <2>2
<1>6. ASSUME NEW v \in Viewers
      PROVE  /\ NoSnapshot(e, v) => NoSnapshot(d, v)
             /\ IsSnapshot(e, v, 1) => NoSnapshot(d, v)
  BY <1>2 DEF NoSnapshot, IsSnapshot
<1>7. ASSUME NEW v \in Viewers, NEW k \in Nat, NEW msgs, IsSnapshot(e, v, k), k # 1, Catches(e, msgs, k)
      PROVE  k - 1 \in Nat /\ IsSnapshot(d, v, k - 1) /\ Catches(d, msgs, k - 1)
  <2>1. k \in 1..Len(e.queue) /\ k - 1 \in 1..Len(d.queue) /\ k - 1 \in Nat
    BY <1>2, <1>7 DEF IsSnapshot
  <2>2. IsSnapshot(d, v, k - 1)
    BY <1>2, <1>7, <2>1 DEF IsSnapshot
  <2>3. P!After(d.text, d.queue, k - 1) = P!After(e.text, e.queue, k)
    BY <1>3, <2>1
  <2>4. Catches(d, msgs, k - 1)
    BY <1>4, <1>7, <2>3 DEF Catches, Seen
  <2> QED BY <2>1, <2>2, <2>4
<1> QED BY <1>4, <1>5, <1>6, <1>7

(* Messages that tell of what has become of an entry, to whoever has seen all of it
   and to whoever has seen all but the status. *)
Tells(e, d, ms) ==
  /\ S!Fold(Seen(e, e.status), ms) = Seen(d, d.status)
  /\ \A s \in Statuses : S!Fold(Seen(e, s), ms) \in {Seen(d, s), Seen(d, d.status)}

(* The queue does not change, or something else than the viewer's snapshot is added. *)
Grows(e, d, v) ==
  d.text = e.text /\ (d.queue = e.queue \/ \E i \in Items : i # Snapshot(v) /\ d.queue = Append(e.queue, i))

(* Whoever waits still will see all of it. *)
LEMMA StillCatches ==
  ASSUME NEW e \in EntrySet, NEW d \in EntrySet, NEW v \in Viewers, Grows(e, d, v),
         NEW msgs \in Seq(Messages), NEW ms \in Seq(Messages), Tells(e, d, ms)
  PROVE  /\ NoSnapshot(e, v) => NoSnapshot(d, v)
         /\ \A k \in Nat : IsSnapshot(e, v, k) /\ Catches(e, msgs, k) =>
                             IsSnapshot(d, v, k) /\ Catches(d, msgs \o ms, k)
<1>1. /\ NoSnapshot(e, v) => NoSnapshot(d, v)
      /\ \A k \in Nat : IsSnapshot(e, v, k) => IsSnapshot(d, v, k)
      /\ \A k \in 0..Len(e.queue) : P!After(d.text, d.queue, k) = P!After(e.text, e.queue, k)
  <2>1. CASE d.queue = e.queue
    BY <2>1 DEF Grows, NoSnapshot, IsSnapshot
  <2>2. ASSUME NEW i \in Items, i # Snapshot(v), d.queue = Append(e.queue, i)
        PROVE  /\ NoSnapshot(e, v) => NoSnapshot(d, v)
               /\ \A k \in Nat : IsSnapshot(e, v, k) => IsSnapshot(d, v, k)
               /\ \A k \in 0..Len(e.queue) : P!After(d.text, d.queue, k) = P!After(e.text, e.queue, k)
    BY <2>2, MoreQueued DEF Grows
  <2> QED BY <2>1, <2>2 DEF Grows
<1>2. ASSUME NEW k \in Nat, IsSnapshot(e, v, k), Catches(e, msgs, k)
      PROVE  Catches(d, msgs \o ms, k)
  <2>1. P!After(d.text, d.queue, k) = P!After(e.text, e.queue, k)
    <3>1. e.queue \in Seq(Items)
      BY DEF EntrySet
    <3>2. k \in 0..Len(e.queue)
      BY <1>2, <3>1 DEF IsSnapshot
    <3> QED BY <1>1, <3>2
  <2>2. ASSUME NEW s \in Statuses
        PROVE  S!Fold([text |-> P!After(d.text, d.queue, k), status |-> s], msgs \o ms) \in
                 {Seen(d, s), Seen(d, d.status)}
    <3> DEFINE x == [text |-> P!After(e.text, e.queue, k), status |-> s]
    <3>1. S!Fold(x, msgs \o ms) = S!Fold(S!Fold(x, msgs), ms)
      BY S!FoldConcat
    <3>2. S!Fold(x, msgs) \in {Seen(e, s), Seen(e, e.status)}
      BY <1>2 DEF Catches
    <3> HIDE DEF x
    <3>3. S!Fold(x, msgs \o ms) \in {Seen(d, s), Seen(d, d.status)}
      BY <3>1, <3>2 DEF Tells
    <3> QED BY <2>1, <3>3 DEF x
  <2> QED BY <2>2 DEF Catches
<1> QED BY <1>1, <1>2

(* A terminal nobody is connected to. *)
LEMMA NobodyThere ==
  ASSUME entry' = NoEntry, DOMAIN shown' = Viewers, pending' = [v \in Viewers |-> <<>>],
         \A v \in Viewers : at'[v] = "away"
  PROVE  VInv'
<1>1. NoEntry.queue = <<>> /\ NoEntry.listeners = {}
  BY DEF NoEntry
<1>2. pending' \in [Viewers -> Seq(Messages)]
  OBVIOUS
<1>3. \A v \in Viewers : pending'[v] = <<>> /\ NoSnapshot(entry', v)
  BY <1>1 DEF NoSnapshot
<1> QED BY <1>1, <1>2, <1>3 DEF VInv, LiveSee, WaitersWillSee, OthersHaveNone

(* The steps that leave what is seen alone keep the invariant. *)
LEMMA Unseen ==
  ASSUME VInv, UNCHANGED viewers, UNCHANGED <<entry.text, entry.queue, entry.status, entry.listeners>>
  PROVE  VInv'
<1>1. /\ at' = at /\ pending' = pending /\ shown' = shown
      /\ entry'.text = entry.text /\ entry'.queue = entry.queue
      /\ entry'.status = entry.status /\ entry'.listeners = entry.listeners
  BY DEF viewers
<1>2. \A s : Seen(entry', s) = Seen(entry, s)
  BY <1>1 DEF Seen, Text
<1>3. \A v \in Viewers : /\ NoSnapshot(entry', v) <=> NoSnapshot(entry, v)
                         /\ \A k \in Nat : \A m : IsSnapshot(entry, v, k) /\ Catches(entry, m, k) =>
                                                IsSnapshot(entry', v, k) /\ Catches(entry', m, k)
  BY <1>1, <1>2 DEF NoSnapshot, IsSnapshot, Catches
<1>4. LiveSee'
  BY <1>1, <1>2 DEF VInv, LiveSee
<1>5. WaitersWillSee'
  BY <1>1, <1>3 DEF VInv, WaitersWillSee
<1>6. OthersHaveNone'
  BY <1>1, <1>3 DEF VInv, OthersHaveNone
<1> QED BY <1>1, <1>4, <1>5, <1>6 DEF VInv

(* The steps that tell the viewers do. *)
LEMMA Told ==
  ASSUME VInv, entry \in EntrySet, NEW ms \in Seq(Messages), NEW d \in EntrySet,
         Broadcast(ms), entry' = d \/ entry' = Collect(d),
         d.listeners = entry.listeners, \A v \in Viewers : Grows(entry, d, v), Tells(entry, d, ms)
  PROVE  VInv'
<1>1. /\ pending \in [Viewers -> Seq(Messages)] /\ DOMAIN shown = Viewers
      /\ entry.listeners = {v \in Viewers : at[v] # "away"}
      /\ LiveSee /\ WaitersWillSee /\ OthersHaveNone
  BY DEF VInv
<1>2. /\ at' = at /\ DOMAIN shown' = Viewers
      /\ pending' = [v \in Viewers |-> IF v \in entry.listeners /\ at[v] # "live"
                                        THEN pending[v] \o ms ELSE pending[v]]
      /\ \A v \in Viewers : v \in entry.listeners /\ at[v] = "live" => shown'[v] = S!Fold(shown[v], ms)
  BY FoldsAreFolds DEF Broadcast
<1>3. CASE entry' = d
  <2>1. pending' \in [Viewers -> Seq(Messages)]
    <3>1. \A v \in Viewers : pending[v] \o ms \in Seq(Messages)
      BY <1>1
    <3> QED BY <1>1, <1>2, <3>1
  <2>2. entry'.listeners = {v \in Viewers : at'[v] # "away"}
    BY <1>1, <1>2, <1>3
  <2>3. LiveSee'
    <3>1. ASSUME NEW v \in Viewers, at[v] = "live"
          PROVE  shown'[v] = Seen(d, d.status)
      BY <1>1, <1>2, <3>1 DEF LiveSee, Tells
    <3> QED BY <1>2, <1>3, <3>1 DEF LiveSee
  <2>4. WaitersWillSee'
    <3>1. ASSUME NEW v \in Viewers, at[v] \in {"attaching", "leaving"}
          PROVE  \E k \in Nat : IsSnapshot(d, v, k) /\ Catches(d, pending'[v], k)
      <4>1. pending'[v] = pending[v] \o ms
        BY <1>1, <1>2, <3>1
      <4>2. PICK k \in Nat : IsSnapshot(entry, v, k) /\ Catches(entry, pending[v], k)
        BY <1>1, <3>1 DEF WaitersWillSee
      <4>3. pending[v] \in Seq(Messages) /\ Grows(entry, d, v)
        BY <1>1
      <4> QED BY <4>1, <4>2, <4>3, StillCatches
    <3> QED BY <1>2, <1>3, <3>1 DEF WaitersWillSee
  <2>5. OthersHaveNone'
    <3>1. ASSUME NEW v \in Viewers, at[v] \in {"away", "live"}
          PROVE  pending'[v] = <<>> /\ NoSnapshot(d, v)
      <4>1. pending'[v] = pending[v] /\ pending[v] = <<>> /\ NoSnapshot(entry, v)
        BY <1>1, <1>2, <3>1 DEF OthersHaveNone
      <4>2. pending[v] \in Seq(Messages) /\ Grows(entry, d, v)
        BY <1>1
      <4> QED BY <4>1, <4>2, StillCatches
    <3> QED BY <1>2, <1>3, <3>1 DEF OthersHaveNone
  <2> QED BY <1>2, <2>1, <2>2, <2>3, <2>4, <2>5 DEF VInv
<1>4. CASE entry' # d
  <2>1. entry' = NoEntry /\ d.listeners = {}
    BY <1>4 DEF Collect, InUse
  <2>2. \A v \in Viewers : at[v] = "away"
    BY <1>1, <2>1
  <2>3. pending' = [v \in Viewers |-> <<>>]
    BY <1>1, <1>2, <2>1, <2>2 DEF OthersHaveNone
  <2> QED BY <1>2, <2>1, <2>2, <2>3, NobodyThere
<1> QED BY <1>3, <1>4

(* A connection that goes takes nothing from the others. *)
LEMMA Gone ==
  ASSUME VInv, NEW v \in Viewers, NEW d \in EntrySet,
         entry' = Collect(d), Forgotten(v), DOMAIN at = Viewers,
         d.listeners = entry.listeners \ {v}, NoSnapshot(d, v),
         Text(d) = Text(entry), d.status = entry.status,
         \A w \in Viewers \ {v} :
           /\ NoSnapshot(entry, w) => NoSnapshot(d, w)
           /\ \A k \in Nat : IsSnapshot(entry, w, k) /\ Catches(entry, pending[w], k) =>
                \E j \in Nat : IsSnapshot(d, w, j) /\ Catches(d, pending[w], j)
  PROVE  VInv'
<1>1. /\ pending \in [Viewers -> Seq(Messages)] /\ DOMAIN shown = Viewers
      /\ entry.listeners = {w \in Viewers : at[w] # "away"}
      /\ LiveSee /\ WaitersWillSee /\ OthersHaveNone
  BY DEF VInv
<1>2. /\ at' = [at EXCEPT ![v] = "away"]
      /\ pending' = [pending EXCEPT ![v] = <<>>] /\ pending' \in [Viewers -> Seq(Messages)]
      /\ shown' = [shown EXCEPT ![v] = NoView] /\ DOMAIN shown' = Viewers
  BY <1>1 DEF Forgotten
<1>3. CASE entry' = d
  <2>1. entry'.listeners = {w \in Viewers : at'[w] # "away"}
    BY <1>1, <1>2, <1>3
  <2>2. LiveSee'
    <3>1. ASSUME NEW w \in Viewers, at'[w] = "live"
          PROVE  shown'[w] = Seen(d, d.status)
      BY <1>1, <1>2, <3>1 DEF LiveSee, Seen
    <3> QED BY <1>3, <3>1 DEF LiveSee
  <2>3. WaitersWillSee'
    <3>1. ASSUME NEW w \in Viewers, at'[w] \in {"attaching", "leaving"}
          PROVE  \E k \in Nat : IsSnapshot(d, w, k) /\ Catches(d, pending'[w], k)
      <4>1. w # v /\ at[w] \in {"attaching", "leaving"} /\ pending'[w] = pending[w]
        BY <1>1, <1>2, <3>1
      <4>2. PICK k \in Nat : IsSnapshot(entry, w, k) /\ Catches(entry, pending[w], k)
        BY <1>1, <4>1 DEF WaitersWillSee
      <4> QED BY <4>1, <4>2
    <3> QED BY <1>3, <3>1 DEF WaitersWillSee
  <2>4. OthersHaveNone'
    <3>1. ASSUME NEW w \in Viewers, at'[w] \in {"away", "live"}
          PROVE  pending'[w] = <<>> /\ NoSnapshot(d, w)
      <4>1. CASE w = v
        BY <1>1, <1>2, <4>1
      <4>2. CASE w # v
        BY <1>1, <1>2, <3>1, <4>2 DEF OthersHaveNone
      <4> QED BY <4>1, <4>2
    <3> QED BY <1>3, <3>1 DEF OthersHaveNone
  <2> QED BY <1>2, <2>1, <2>2, <2>3, <2>4 DEF VInv
<1>4. CASE entry' # d
  <2>1. entry' = NoEntry /\ d.listeners = {}
    BY <1>4 DEF Collect, InUse
  <2>2. \A w \in Viewers : at'[w] = "away" /\ pending'[w] = <<>>
    BY <1>1, <1>2, <2>1 DEF OthersHaveNone
  <2>3. pending' = [w \in Viewers |-> <<>>]
    BY <1>2, <2>2
  <2> QED BY <1>2, <2>1, <2>2, <2>3, NobodyThere
<1> QED BY <1>3, <1>4

(* The messages of the code tell of what it does to the entry. *)
LEMMA Telling ==
  ASSUME NEW e \in EntrySet, NEW d \in EntrySet
  PROVE  /\ <<StateOf(d)>> \in Seq(Messages) /\ (Text(d) = Text(e) => Tells(e, d, <<StateOf(d)>>))
         /\ <<Clear, StateOf(d)>> \in Seq(Messages) /\ (Text(d) = <<>> => Tells(e, d, <<Clear, StateOf(d)>>))
         /\ \A n \in Nat :
              /\ <<OutputOf(n)>> \in Seq(Messages) /\ <<OutputOf(n), StateOf(d)>> \in Seq(Messages)
              /\ Text(d) = Append(Text(e), n) =>
                   /\ d.status = e.status => Tells(e, d, <<OutputOf(n)>>)
                   /\ Tells(e, d, <<OutputOf(n), StateOf(d)>>)
<1>1. /\ d.status \in Statuses /\ e.status \in Statuses
      /\ StateOf(d) = [type |-> "state", status |-> d.status]
      /\ StateOf(d) \in Messages /\ Clear \in Messages /\ \A n \in Nat : OutputOf(n) \in Messages
  BY ItemFacts DEF EntrySet, StateOf
<1>2. ASSUME NEW s \in Statuses
      PROVE  /\ S!Fold(Seen(e, s), <<StateOf(d)>>) = [text |-> Text(e), status |-> d.status]
             /\ S!Fold(Seen(e, s), <<Clear, StateOf(d)>>) = [text |-> <<>>, status |-> d.status]
             /\ \A n \in Nat :
                  /\ S!Fold(Seen(e, s), <<OutputOf(n)>>) = [text |-> Append(Text(e), n), status |-> s]
                  /\ S!Fold(Seen(e, s), <<OutputOf(n), StateOf(d)>>) =
                       [text |-> Append(Text(e), n), status |-> d.status]
  <2>1. /\ S!Fold(Seen(e, s), <<StateOf(d)>>) = Show(Seen(e, s), StateOf(d))
        /\ S!Fold(Seen(e, s), <<Clear, StateOf(d)>>) = Show(Show(Seen(e, s), Clear), StateOf(d))
    BY <1>1, ShowsFew
  <2>2. ASSUME NEW n \in Nat
        PROVE  /\ S!Fold(Seen(e, s), <<OutputOf(n)>>) = Show(Seen(e, s), OutputOf(n))
               /\ S!Fold(Seen(e, s), <<OutputOf(n), StateOf(d)>>) = Show(Show(Seen(e, s), OutputOf(n)), StateOf(d))
    BY <1>1, ShowsFew
  <2>3. /\ \A n : Show(Seen(e, s), OutputOf(n)) = [text |-> Append(Text(e), n), status |-> s]
        /\ Show(Seen(e, s), Clear) = [text |-> <<>>, status |-> s]
    BY ShowFacts DEF Seen
  <2>4. \A t, z : Show([text |-> t, status |-> z], StateOf(d)) = [text |-> t, status |-> d.status]
    <3>1. ASSUME NEW t, NEW z
          PROVE  Show([text |-> t, status |-> z], StateOf(d)) = [text |-> t, status |-> d.status]
      BY StateShown, Zenon
    <3> QED BY <3>1
  <2>5. Show(Seen(e, s), StateOf(d)) = [text |-> Text(e), status |-> d.status]
    BY <2>4 DEF Seen
  <2> QED BY <2>1, <2>2, <2>3, <2>4, <2>5
<1>3. <<StateOf(d)>> \in Seq(Messages) /\ <<Clear, StateOf(d)>> \in Seq(Messages)
  BY <1>1
<1>4. \A n \in Nat : <<OutputOf(n)>> \in Seq(Messages) /\ <<OutputOf(n), StateOf(d)>> \in Seq(Messages)
  BY <1>1
<1>5. Text(d) = Text(e) => Tells(e, d, <<StateOf(d)>>)
  BY <1>1, <1>2 DEF Tells, Seen
<1>6. Text(d) = <<>> => Tells(e, d, <<Clear, StateOf(d)>>)
  BY <1>1, <1>2 DEF Tells, Seen
<1>7. ASSUME NEW n \in Nat, Text(d) = Append(Text(e), n)
      PROVE  /\ d.status = e.status => Tells(e, d, <<OutputOf(n)>>)
             /\ Tells(e, d, <<OutputOf(n), StateOf(d)>>)
  <2>1. d.status = e.status => Tells(e, d, <<OutputOf(n)>>)
    BY <1>1, <1>2, <1>7 DEF Tells, Seen
  <2>2. Tells(e, d, <<OutputOf(n), StateOf(d)>>)
    BY <1>1, <1>2, <1>7 DEF Tells, Seen
  <2> QED BY <2>1, <2>2
<1> QED BY <1>3, <1>4, <1>5, <1>6, <1>7

(* attach() puts the newcomer's snapshot behind all that has been written. *)
LEMMA AttachSees ==
  ASSUME KInv, VInv, NEW v \in Viewers, Attach(v)
  PROVE  VInv'
<1>1. /\ pending \in [Viewers -> Seq(Messages)] /\ DOMAIN shown = Viewers
      /\ entry.listeners = {w \in Viewers : at[w] # "away"}
      /\ LiveSee /\ WaitersWillSee /\ OthersHaveNone
      /\ entry \in EntrySet /\ at \in [Viewers -> Connections] /\ entry.queue \in Seq(Items)
  BY DEF VInv, KInv, KTyped, EntrySet
<1>2. PICK d \in EntrySet :
        /\ entry' = d /\ d.text = entry.text /\ d.queue = Append(entry.queue, Snapshot(v))
        /\ d.status = entry.status /\ d.listeners = entry.listeners \cup {v}
  <2>1. PICK q \in Seq(Items) : q = Append(entry.queue, Snapshot(v))
    <3>1. Snapshot(v) \in Items /\ entry.queue \in Seq(Items)
      BY <1>1, ItemFacts
    <3>2. Append(entry.queue, Snapshot(v)) \in Seq(Items)
      BY <3>1
    <3> QED BY <3>2
  <2>2. entry' = [[[entry EXCEPT !.known = TRUE] EXCEPT !.listeners = @ \cup {v}] EXCEPT !.queue = q]
    BY <1>1, <2>1 DEF Attach, Entry, EntrySet
  <2>3. entry' \in EntrySet
    BY <1>1, <2>2 DEF EntrySet
  <2>4. /\ entry'.text = entry.text /\ entry'.queue = q
        /\ entry'.status = entry.status /\ entry'.listeners = entry.listeners \cup {v}
    BY <1>1, <2>2 DEF EntrySet
  <2> QED BY <2>1, <2>3, <2>4
<1>3. at[v] = "away" /\ at' = [at EXCEPT ![v] = "attaching"] /\ UNCHANGED <<pending, shown>>
  BY DEF Attach
<1>4. Text(d) = Text(entry)
  <2>1. Snapshot(v) \in Items /\ Parsed(Text(entry), Snapshot(v)) = Text(entry)
    BY ItemFacts, ParsedFacts
  <2>2. Text(d) = Parsed(Text(entry), Snapshot(v))
    BY <1>1, <1>2, <2>1, MoreQueued
  <2> QED BY <2>1, <2>2
<1>5. pending[v] = <<>> /\ NoSnapshot(entry, v)
  BY <1>1, <1>3 DEF OthersHaveNone
<1>6. IsSnapshot(d, v, Len(d.queue)) /\ Len(d.queue) \in Nat
  BY <1>1, <1>2, <1>5 DEF IsSnapshot, NoSnapshot
<1>7. Catches(d, pending[v], Len(d.queue))
  <2>1. P!After(d.text, d.queue, Len(d.queue)) = Text(d)
    <3>1. d.queue \in Seq(Items)
      BY DEF EntrySet
    <3> QED BY <3>1, P!AfterRuns DEF Text
  <2>2. ASSUME NEW s \in Statuses
        PROVE  S!Fold([text |-> P!After(d.text, d.queue, Len(d.queue)), status |-> s], pending[v]) = Seen(d, s)
    BY <1>5, <2>1, S!FoldNone DEF Seen
  <2> QED BY <2>2 DEF Catches
<1>8. ASSUME NEW w \in Viewers, w # v
      PROVE  /\ NoSnapshot(entry, w) => NoSnapshot(d, w)
             /\ \A k \in Nat : IsSnapshot(entry, w, k) /\ Catches(entry, pending[w], k) =>
                                 IsSnapshot(d, w, k) /\ Catches(d, pending[w], k)
  <2>1. Grows(entry, d, w)
    BY <1>2, <1>8, ItemFacts DEF Grows
  <2>2. Tells(entry, d, <<>>)
    BY <1>2, <1>4, S!FoldNone DEF Tells, Seen
  <2>3. pending[w] \in Seq(Messages) /\ <<>> \in Seq(Messages) /\ pending[w] \o <<>> = pending[w]
    BY <1>1
  <2>4. entry \in EntrySet
    BY <1>1
  <2>5. /\ NoSnapshot(entry, w) => NoSnapshot(d, w)
        /\ \A k \in Nat : IsSnapshot(entry, w, k) /\ Catches(entry, pending[w], k) =>
                            IsSnapshot(d, w, k) /\ Catches(d, pending[w] \o <<>>, k)
    BY <2>1, <2>2, <2>3, <2>4, StillCatches
  <2> QED BY <2>3, <2>5
<1>9. entry'.listeners = {w \in Viewers : at'[w] # "away"}
  BY <1>1, <1>2, <1>3
<1>10. LiveSee'
  <2>1. ASSUME NEW w \in Viewers, at'[w] = "live"
        PROVE  shown'[w] = Seen(d, d.status)
    BY <1>1, <1>2, <1>3, <1>4, <2>1 DEF LiveSee, Seen
  <2> QED BY <1>2, <2>1 DEF LiveSee
<1>11. WaitersWillSee'
  <2>1. ASSUME NEW w \in Viewers, at'[w] \in {"attaching", "leaving"}
        PROVE  \E k \in Nat : IsSnapshot(d, w, k) /\ Catches(d, pending'[w], k)
    <3>1. CASE w = v
      BY <1>3, <1>6, <1>7, <3>1
    <3>2. CASE w # v
      BY <1>1, <1>3, <1>8, <2>1, <3>2 DEF WaitersWillSee
    <3> QED BY <3>1, <3>2
  <2> QED BY <1>2, <2>1 DEF WaitersWillSee
<1>12. OthersHaveNone'
  <2>1. ASSUME NEW w \in Viewers, at'[w] \in {"away", "live"}
        PROVE  pending'[w] = <<>> /\ NoSnapshot(d, w)
    BY <1>1, <1>3, <1>8, <2>1 DEF OthersHaveNone
  <2> QED BY <1>2, <2>1 DEF OthersHaveNone
<1> QED BY <1>1, <1>3, <1>9, <1>10, <1>11, <1>12 DEF VInv

(* The parser's step: who gets a snapshot has been shown what the screen will show. *)
LEMMA ParseSees ==
  ASSUME KInv, VInv, Parse
  PROVE  VInv'
<1>1. /\ pending \in [Viewers -> Seq(Messages)] /\ DOMAIN shown = Viewers
      /\ entry.listeners = {w \in Viewers : at[w] # "away"}
      /\ LiveSee /\ WaitersWillSee /\ OthersHaveNone
      /\ entry \in EntrySet /\ at \in [Viewers -> Connections]
      /\ entry.queue \in Seq(Items) /\ entry.queue # <<>>
  BY DEF VInv, KInv, KTyped, EntrySet, Parse
<1>2. PICK item : item = Head(entry.queue)
  OBVIOUS
<1>3. item \in Items /\ item = entry.queue[1] /\ 1 \in 1..Len(entry.queue)
  BY <1>1, <1>2
<1>4. PICK d \in EntrySet :
        /\ d = [entry EXCEPT !.queue = Tail(@), !.text = Parsed(@, item)]
        /\ d.queue = Tail(entry.queue) /\ d.text = Parsed(entry.text, item)
        /\ d.status = entry.status /\ d.listeners = entry.listeners
  <2>1. PICK q \in Seq(Items) : q = Tail(entry.queue)
    <3>1. entry.queue \in Seq(Items) /\ entry.queue # <<>>
      BY <1>1
    <3>2. Tail(entry.queue) \in Seq(Items)
      BY <3>1
    <3> QED BY <3>2
  <2>2. PICK t \in Seq(Nat) : t = Parsed(entry.text, item)
    <3>1. entry.text \in Seq(Nat)
      BY <1>1 DEF EntrySet
    <3>2. Parsed(entry.text, item) \in Seq(Nat)
      BY <1>3, <3>1 DEF Parsed, Items, Printed, Reset, Snapshot
    <3> QED BY <3>2
  <2> DEFINE e == [entry EXCEPT !.queue = q, !.text = t]
  <2>3. e = [entry EXCEPT !.queue = Tail(@), !.text = Parsed(@, item)]
    BY <1>1, <2>1, <2>2 DEF EntrySet
  <2>4. e \in EntrySet /\ e.queue = q /\ e.text = t /\ e.status = entry.status /\ e.listeners = entry.listeners
    BY <1>1 DEF EntrySet
  <2> HIDE DEF e
  <2> QED BY <2>1, <2>2, <2>3, <2>4
<1>5. /\ Text(d) = Text(entry)
      /\ P!After(entry.text, entry.queue, 1) = d.text
      /\ \A v \in Viewers :
           /\ NoSnapshot(entry, v) => NoSnapshot(d, v)
           /\ IsSnapshot(entry, v, 1) => NoSnapshot(d, v)
           /\ \A k \in Nat : \A msgs : IsSnapshot(entry, v, k) /\ k # 1 /\ Catches(entry, msgs, k) =>
                k - 1 \in Nat /\ IsSnapshot(d, v, k - 1) /\ Catches(d, msgs, k - 1)
  <2>1. /\ entry \in EntrySet /\ entry.queue # <<>> /\ d.queue = Tail(entry.queue)
        /\ d.text = Parsed(entry.text, Head(entry.queue)) /\ d.status = entry.status
    BY <1>1, <1>2, <1>4
  <2> QED BY <2>1, OneRead
<1>6. ASSUME NEW w \in Viewers, item # Snapshot(w), NEW k \in Nat, IsSnapshot(entry, w, k)
      PROVE  k # 1
  BY <1>3, <1>6 DEF IsSnapshot
<1>7. ASSUME item.kind # "snapshot", entry' = d, UNCHANGED viewers
      PROVE  VInv'
  <2>1. \A w \in Viewers : item # Snapshot(w)
    BY <1>7 DEF Snapshot
  <2>2. at' = at /\ pending' = pending /\ shown' = shown
    BY <1>7 DEF viewers
  <2>3. LiveSee'
    BY <1>1, <1>4, <1>5, <1>7, <2>2 DEF LiveSee, Seen
  <2>4. WaitersWillSee'
    <3>1. ASSUME NEW w \in Viewers, at[w] \in {"attaching", "leaving"}
          PROVE  \E k \in Nat : IsSnapshot(d, w, k) /\ Catches(d, pending[w], k)
      <4>1. PICK k \in Nat : IsSnapshot(entry, w, k) /\ Catches(entry, pending[w], k)
        BY <1>1, <3>1 DEF WaitersWillSee
      <4>2. k # 1
        BY <1>6, <2>1, <4>1
      <4> QED BY <1>5, <4>1, <4>2
    <3> QED BY <1>7, <2>2, <3>1 DEF WaitersWillSee
  <2>5. OthersHaveNone'
    BY <1>1, <1>5, <1>7, <2>2 DEF OthersHaveNone
  <2> QED BY <1>1, <1>4, <1>7, <2>2, <2>3, <2>4, <2>5 DEF VInv
<1>8. ASSUME item.kind = "snapshot"
      PROVE  item.of \in Viewers /\ item = Snapshot(item.of)
  BY <1>3, <1>8 DEF Items, Printed, Reset, Snapshot
<1>9. ASSUME NEW v \in Viewers, item = Snapshot(v), at[v] \in {"attaching", "leaving"}
      PROVE  IsSnapshot(entry, v, 1) /\ Catches(entry, pending[v], 1) /\ NoSnapshot(d, v)
  <2>1. PICK k \in Nat : IsSnapshot(entry, v, k) /\ Catches(entry, pending[v], k)
    BY <1>1, <1>9 DEF WaitersWillSee
  <2>2. k = 1
    BY <1>3, <1>9, <2>1 DEF IsSnapshot
  <2> QED BY <1>5, <2>1, <2>2
<1>10. ASSUME NEW v \in Viewers, item = Snapshot(v), NEW w \in Viewers, w # v
       PROVE  /\ item # Snapshot(w)
              /\ NoSnapshot(entry, w) => NoSnapshot(d, w)
              /\ \A k \in Nat : IsSnapshot(entry, w, k) /\ Catches(entry, pending[w], k) =>
                   k - 1 \in Nat /\ IsSnapshot(d, w, k - 1) /\ Catches(d, pending[w], k - 1)
  <2>1. item # Snapshot(w)
    BY <1>10, ItemFacts
  <2> QED BY <1>5, <1>6, <2>1
<1>11. ASSUME NEW v \in Viewers, item = Snapshot(v), at[v] = "attaching", entry' = d,
              at' = [at EXCEPT ![v] = "live"], pending' = [pending EXCEPT ![v] = <<>>],
              shown' = [shown EXCEPT ![v] = FoldLeft(Show, [text |-> d.text, status |-> d.status], pending[v])]
       PROVE  VInv'
  <2>1. IsSnapshot(entry, v, 1) /\ Catches(entry, pending[v], 1) /\ NoSnapshot(d, v)
    BY <1>9, <1>11
  <2>2. pending' \in [Viewers -> Seq(Messages)] /\ DOMAIN shown' = Viewers
    BY <1>1, <1>11
  <2>3. entry'.listeners = {w \in Viewers : at'[w] # "away"}
    BY <1>1, <1>4, <1>11
  <2>4. shown'[v] = Seen(d, d.status)
    <3>1. shown'[v] = S!Fold([text |-> d.text, status |-> d.status], pending[v])
      BY <1>1, <1>11, FoldsAreFolds
    <3>2. entry.status \in Statuses
      BY <1>1 DEF EntrySet
    <3>3. S!Fold([text |-> d.text, status |-> d.status], pending[v]) = Seen(entry, entry.status)
      BY <1>4, <1>5, <2>1, <3>2 DEF Catches
    <3> QED BY <1>4, <1>5, <3>1, <3>3 DEF Seen
  <2>5. LiveSee'
    <3>1. ASSUME NEW w \in Viewers, at'[w] = "live"
          PROVE  shown'[w] = Seen(d, d.status)
      <4>1. CASE w # v
        BY <1>1, <1>4, <1>5, <1>11, <3>1, <4>1 DEF LiveSee, Seen
      <4> QED BY <2>4, <4>1
    <3> QED BY <1>11, <3>1 DEF LiveSee
  <2>6. WaitersWillSee'
    <3>1. ASSUME NEW w \in Viewers, at'[w] \in {"attaching", "leaving"}
          PROVE  \E k \in Nat : IsSnapshot(d, w, k) /\ Catches(d, pending'[w], k)
      <4>1. w # v /\ at[w] \in {"attaching", "leaving"} /\ pending'[w] = pending[w]
        BY <1>1, <1>11, <3>1
      <4>2. PICK k \in Nat : IsSnapshot(entry, w, k) /\ Catches(entry, pending[w], k)
        BY <1>1, <4>1 DEF WaitersWillSee
      <4> QED BY <1>10, <1>11, <4>1, <4>2
    <3> QED BY <1>11, <3>1 DEF WaitersWillSee
  <2>7. OthersHaveNone'
    <3>1. ASSUME NEW w \in Viewers, at'[w] \in {"away", "live"}
          PROVE  pending'[w] = <<>> /\ NoSnapshot(d, w)
      <4>1. CASE w = v
        BY <1>1, <1>11, <2>1, <4>1
      <4>2. CASE w # v
        BY <1>1, <1>10, <1>11, <3>1, <4>2 DEF OthersHaveNone
      <4> QED BY <4>1, <4>2
    <3> QED BY <1>11, <3>1 DEF OthersHaveNone
  <2> QED BY <2>2, <2>3, <2>5, <2>6, <2>7 DEF VInv
<1>12. ASSUME NEW v \in Viewers, item = Snapshot(v), at[v] = "leaving",
              entry' = Collect([d EXCEPT !.listeners = @ \ {v}]), Forgotten(v)
       PROVE  VInv'
  <2>1. PICK c \in EntrySet : /\ c = [d EXCEPT !.listeners = @ \ {v}]
                              /\ c.text = d.text /\ c.queue = d.queue /\ c.status = d.status
                              /\ c.listeners = d.listeners \ {v}
    <3> DEFINE e == [d EXCEPT !.listeners = @ \ {v}]
    <3>1. /\ e \in EntrySet /\ e.text = d.text /\ e.queue = d.queue /\ e.status = d.status
          /\ e.listeners = d.listeners \ {v}
      BY DEF EntrySet
    <3> QED BY <3>1
  <2>2. Text(c) = Text(d)
    BY <2>1 DEF Text
  <2>3. \A w \in Viewers : /\ NoSnapshot(d, w) => NoSnapshot(c, w)
                           /\ \A k \in Nat : \A m : IsSnapshot(d, w, k) /\ Catches(d, m, k) =>
                                                      IsSnapshot(c, w, k) /\ Catches(c, m, k)
    BY <2>1, <2>2 DEF NoSnapshot, IsSnapshot, Catches, Seen
  <2>4. NoSnapshot(c, v)
    BY <1>9, <1>12, <2>3
  <2>5. \A w \in Viewers \ {v} :
          /\ NoSnapshot(entry, w) => NoSnapshot(c, w)
          /\ \A k \in Nat : IsSnapshot(entry, w, k) /\ Catches(entry, pending[w], k) =>
               \E j \in Nat : IsSnapshot(c, w, j) /\ Catches(c, pending[w], j)
    BY <1>10, <1>12, <2>3
  <2>6. c.listeners = entry.listeners \ {v} /\ Text(c) = Text(entry) /\ c.status = entry.status /\ entry' = Collect(c)
    BY <1>4, <1>5, <1>12, <2>1, <2>2
  <2>7. DOMAIN at = Viewers
    BY <1>1
  <2> QED BY <1>12, <2>4, <2>5, <2>6, <2>7, Gone
<1> QED
  BY <1>2, <1>4, <1>7, <1>8, <1>11, <1>12 DEF Parse

(* Every step keeps it. *)
LEMMA VInvStep == KInv /\ VInv /\ [Next]_vars => VInv'
<1> SUFFICES ASSUME KInv, VInv, [Next]_vars PROVE VInv'
  OBVIOUS
<1>0. /\ entry \in EntrySet /\ at \in [Viewers -> Connections] /\ count \in CountSet
      /\ entry.queue \in Seq(Items) /\ DOMAIN at = Viewers
  BY DEF KInv, KTyped, EntrySet
<1>1. ASSUME NEW v \in Viewers, Attach(v)
      PROVE  VInv'
  BY <1>1, AttachSees
<1>2. ASSUME NEW v \in Viewers, Close(v)
      PROVE  VInv'
  <2>1. CASE at[v] = "attaching" /\ at' = [at EXCEPT ![v] = "leaving"] /\ UNCHANGED <<entry, pending, shown>>
    <3>1. entry' = entry /\ pending' = pending /\ shown' = shown
      BY <2>1
    <3>2. \A w \in Viewers : /\ at'[w] \in {"attaching", "leaving"} <=> at[w] \in {"attaching", "leaving"}
                             /\ at'[w] = "live" <=> at[w] = "live"
                             /\ at'[w] = "away" <=> at[w] = "away"
      BY <1>0, <2>1 DEF Connections
    <3>3. LiveSee'
      BY <3>1, <3>2 DEF VInv, LiveSee
    <3>4. WaitersWillSee'
      BY <3>1, <3>2 DEF VInv, WaitersWillSee
    <3>5. OthersHaveNone'
      BY <3>1, <3>2 DEF VInv, OthersHaveNone
    <3> QED BY <3>1, <3>2, <3>3, <3>4, <3>5 DEF VInv
  <2>2. CASE at[v] = "live" /\ entry' = Collect([entry EXCEPT !.listeners = @ \ {v}]) /\ Forgotten(v)
    <3>1. PICK c \in EntrySet : /\ c = [entry EXCEPT !.listeners = @ \ {v}]
                                /\ c.text = entry.text /\ c.queue = entry.queue /\ c.status = entry.status
                                /\ c.listeners = entry.listeners \ {v}
      <4> DEFINE e == [entry EXCEPT !.listeners = @ \ {v}]
      <4>1. /\ e \in EntrySet /\ e.text = entry.text /\ e.queue = entry.queue /\ e.status = entry.status
            /\ e.listeners = entry.listeners \ {v}
        BY <1>0 DEF EntrySet
      <4> QED BY <4>1
    <3>2. Text(c) = Text(entry)
      BY <3>1 DEF Text
    <3>3. \A w \in Viewers : /\ NoSnapshot(entry, w) => NoSnapshot(c, w)
                             /\ \A k \in Nat : \A m : IsSnapshot(entry, w, k) /\ Catches(entry, m, k) =>
                                                        IsSnapshot(c, w, k) /\ Catches(c, m, k)
      BY <3>1, <3>2 DEF NoSnapshot, IsSnapshot, Catches, Seen
    <3>4. NoSnapshot(c, v)
      BY <2>2, <3>3 DEF VInv, OthersHaveNone
    <3>5. entry' = Collect(c)
      BY <2>2, <3>1
    <3> QED BY <1>0, <2>2, <3>1, <3>2, <3>3, <3>4, <3>5, Gone
  <2> QED BY <1>2, <2>1, <2>2 DEF Close
<1>3. CASE Parse
  BY <1>3, ParseSees
<1>4. ASSUME NEW s \in Sizes, Resize(s)
      PROVE  VInv'
  <2>1. PICK d \in EntrySet : /\ entry' = d /\ Broadcast(<<StateOf(d)>>)
                              /\ d.text = entry.text /\ d.queue = entry.queue /\ d.listeners = entry.listeners
    <3> DEFINE e == [entry EXCEPT !.size = s]
    <3>1. e \in EntrySet /\ e.text = entry.text /\ e.queue = entry.queue /\ e.listeners = entry.listeners
      BY <1>0 DEF EntrySet
    <3>2. entry' = e /\ Broadcast(<<StateOf(e)>>)
      BY <1>4 DEF Resize
    <3> HIDE DEF e
    <3> QED BY <3>1, <3>2
  <2>2. Text(d) = Text(entry) /\ \A v \in Viewers : Grows(entry, d, v)
    BY <2>1 DEF Text, Grows
  <2> QED BY <1>0, <2>1, <2>2, Telling, Told
<1>5. ASSUME NEW s \in Sizes, Start(s)
      PROVE  VInv'
  <2>1. PICK d \in EntrySet : /\ entry' = d /\ Broadcast(<<Clear, StateOf(d)>>) /\ d.text = entry.text
                              /\ d.queue = Append(entry.queue, Reset) /\ d.listeners = entry.listeners
    <3> DEFINE e == [ResetScreen(Entry) EXCEPT !.status = "starting", !.size = s, !.stopRequested = FALSE]
    <3>1. PICK q \in Seq(Items) : q = Append(entry.queue, Reset)
      <4>1. Append(entry.queue, Reset) \in Seq(Items)
        BY <1>0, ItemFacts
      <4> QED BY <4>1
    <3>2. PICK f \in EntrySet : /\ f = ResetScreen(Entry) /\ f.text = entry.text /\ f.queue = q
                                /\ f.listeners = entry.listeners
      <4> DEFINE g == [[entry EXCEPT !.known = TRUE] EXCEPT !.queue = q]
      <4>1. g = ResetScreen(Entry)
        BY <1>0, <3>1 DEF ResetScreen, Entry, EntrySet
      <4>2. g \in EntrySet /\ g.text = entry.text /\ g.queue = q /\ g.listeners = entry.listeners
        BY <1>0 DEF EntrySet
      <4> HIDE DEF g
      <4> QED BY <4>1, <4>2
    <3>3. e \in EntrySet /\ e.text = f.text /\ e.queue = f.queue /\ e.listeners = f.listeners
      BY <3>2 DEF EntrySet, Statuses
    <3>4. entry' = e /\ Broadcast(<<Clear, StateOf(e)>>)
      BY <1>5 DEF Start
    <3> HIDE DEF e
    <3> QED BY <3>1, <3>2, <3>3, <3>4
  <2>2. Reset \in Items /\ \A v \in Viewers : Reset # Snapshot(v)
    BY ItemFacts
  <2>3. \A v \in Viewers : Grows(entry, d, v)
    BY <2>1, <2>2 DEF Grows
  <2>4. Text(d) = <<>>
    <3>1. Text(d) = Parsed(Text(entry), Reset)
      BY <1>0, <2>1, <2>2, MoreQueued
    <3> QED BY <3>1, ParsedFacts
  <2> QED BY <1>0, <2>1, <2>3, <2>4, Telling, Told
<1>6. CASE StartFails \/ Launch
  <2>1. PICK d \in EntrySet : /\ entry' = d \/ entry' = Collect(d)
                              /\ Broadcast(<<StateOf(d)>>)
                              /\ d.text = entry.text /\ d.queue = entry.queue /\ d.listeners = entry.listeners
    <3> DEFINE e == [entry EXCEPT !.status = "exited"]
               f == [entry EXCEPT !.status = "running", !.handle = count.starts, !.over = FALSE]
    <3>1. /\ e \in EntrySet /\ e.text = entry.text /\ e.queue = entry.queue /\ e.listeners = entry.listeners
          /\ f \in EntrySet /\ f.text = entry.text /\ f.queue = entry.queue /\ f.listeners = entry.listeners
      BY <1>0 DEF EntrySet, Statuses, CountSet
    <3>2. \/ entry' = Collect(e) /\ Broadcast(<<StateOf(e)>>)
          \/ entry' = f /\ Broadcast(<<StateOf(f)>>)
      BY <1>6 DEF StartFails, Launch
    <3> HIDE DEF e, f
    <3> QED BY <3>1, <3>2
  <2>2. Text(d) = Text(entry) /\ \A v \in Viewers : Grows(entry, d, v)
    BY <2>1 DEF Text, Grows
  <2> QED BY <1>0, <2>1, <2>2, Telling, Told
<1>7. CASE Output \/ Finish
  <2> DEFINE n == count.prints + 1
  <2>1. /\ n \in Nat /\ Printed(n) \in Items /\ \A v \in Viewers : Printed(n) # Snapshot(v)
        /\ Append(entry.queue, Printed(n)) \in Seq(Items)
    <3>1. n \in Nat
      BY <1>0 DEF CountSet
    <3>2. Printed(n) \in Items /\ \A v \in Viewers : Printed(n) # Snapshot(v)
      BY <3>1, ItemFacts
    <3> QED BY <1>0, <3>1, <3>2
  <2> HIDE DEF n
  <2>2. ASSUME NEW e \in EntrySet, e.text = entry.text, e.queue = entry.queue, e.listeners = entry.listeners
        PROVE  \E d \in EntrySet :
                 /\ d = Written(e, n) /\ d.text = entry.text /\ d.queue = Append(entry.queue, Printed(n))
                 /\ d.listeners = entry.listeners /\ d.status = e.status
    <3>1. PICK q \in Seq(Items) : q = Append(entry.queue, Printed(n))
      BY <2>1
    <3> DEFINE d == [e EXCEPT !.queue = q]
    <3>2. d = Written(e, n)
      BY <2>2, <3>1 DEF Written
    <3>3. d \in EntrySet /\ d.text = e.text /\ d.queue = q /\ d.listeners = e.listeners /\ d.status = e.status
      BY DEF EntrySet
    <3> HIDE DEF d
    <3> QED BY <2>2, <3>1, <3>2, <3>3
  <2>3. ASSUME NEW d \in EntrySet, d.text = entry.text, d.queue = Append(entry.queue, Printed(n))
        PROVE  Text(d) = Append(Text(entry), n) /\ \A v \in Viewers : Grows(entry, d, v)
    <3>1. Text(d) = Parsed(Text(entry), Printed(n))
      BY <1>0, <2>1, <2>3, MoreQueued
    <3>2. Text(d) = Append(Text(entry), n)
      BY <3>1, ParsedFacts
    <3> QED BY <2>1, <2>3, <3>2 DEF Grows
  <2>4. CASE Output
    <3>1. PICK d \in EntrySet :
            /\ d = Written(entry, n) /\ d.text = entry.text /\ d.queue = Append(entry.queue, Printed(n))
            /\ d.listeners = entry.listeners /\ d.status = entry.status
      BY <1>0, <2>2
    <3>2. entry' = d /\ Broadcast(<<OutputOf(n)>>)
      BY <2>4, <3>1 DEF Output, n
    <3>3. <<OutputOf(n)>> \in Seq(Messages) /\ Tells(entry, d, <<OutputOf(n)>>)
      BY <1>0, <2>1, <2>3, <3>1, Telling
    <3>4. \A v \in Viewers : Grows(entry, d, v)
      BY <2>3, <3>1
    <3> QED BY <1>0, <3>1, <3>2, <3>3, <3>4, Told
  <2>5. CASE Finish
    <3>1. PICK e \in EntrySet : /\ e = [entry EXCEPT !.handle = NoHandle, !.status = "exited"]
                                /\ e.text = entry.text /\ e.queue = entry.queue
                                /\ e.listeners = entry.listeners /\ e.status = "exited"
      <4> DEFINE f == [entry EXCEPT !.handle = NoHandle, !.status = "exited"]
      <4>1. /\ f \in EntrySet /\ f.text = entry.text /\ f.queue = entry.queue
            /\ f.listeners = entry.listeners /\ f.status = "exited"
        BY <1>0 DEF EntrySet, Statuses, NoHandle
      <4> QED BY <4>1
    <3>2. PICK d \in EntrySet :
            /\ d = Written(e, n) /\ d.text = entry.text /\ d.queue = Append(entry.queue, Printed(n))
            /\ d.listeners = entry.listeners /\ d.status = e.status
      BY <2>2, <3>1
    <3>3. \/ entry' = Collect(e) /\ Broadcast(<<StateOf(e)>>)
          \/ entry' = Collect(d) /\ Broadcast(<<OutputOf(n), StateOf(e)>>)
      BY <2>5, <3>1, <3>2 DEF Finish, n
    <3>4. StateOf(d) = StateOf(e)
      BY <3>2 DEF StateOf
    <3>5. CASE entry' = Collect(e) /\ Broadcast(<<StateOf(e)>>)
      <4>1. Text(e) = Text(entry) /\ \A v \in Viewers : Grows(entry, e, v)
        BY <3>1 DEF Text, Grows
      <4>2. <<StateOf(e)>> \in Seq(Messages) /\ Tells(entry, e, <<StateOf(e)>>)
        BY <1>0, <4>1, Telling
      <4> QED BY <1>0, <3>1, <3>5, <4>1, <4>2, Told
    <3>6. CASE entry' = Collect(d) /\ Broadcast(<<OutputOf(n), StateOf(e)>>)
      <4>1. \A v \in Viewers : Grows(entry, d, v)
        BY <2>3, <3>2
      <4>2. PICK ms \in Seq(Messages) : ms = <<OutputOf(n), StateOf(d)>> /\ Tells(entry, d, ms)
        BY <1>0, <2>1, <2>3, <3>2, Telling
      <4>3. Broadcast(ms)
        BY <3>4, <3>6, <4>2
      <4> QED BY <1>0, <3>2, <3>6, <4>1, <4>2, <4>3, Told
    <3> QED BY <3>3, <3>5, <3>6
  <2> QED BY <1>7, <2>4, <2>5
<1>8. CASE StreamLost \/ (\E p \in live : Ends(p)) \/ (\E c \in BOOLEAN : Stop(c))
  <2>1. /\ entry'.text = entry.text /\ entry'.queue = entry.queue
        /\ entry'.status = entry.status /\ entry'.listeners = entry.listeners
    BY <1>0, <1>8 DEF StreamLost, Ends, Stop, EntrySet
  <2>2. UNCHANGED viewers
    BY <1>8 DEF StreamLost, Ends, Stop
  <2> QED BY <2>1, <2>2, Unseen
<1>9. CASE StartClears \/ StartCleared \/ StopArrives \/ StopFails \/ Shutdown \/ Forget \/ UNCHANGED vars
  <2>1. entry' = entry /\ UNCHANGED viewers
    BY <1>9 DEF StartClears, StartCleared, StopArrives, StopFails, Shutdown, Forget, vars
  <2> QED BY <2>1, Unseen
<1>10. CASE Exit \/ Crash
  BY <1>10, NobodyThere DEF Exit, Crash, Restart
<1> QED
  BY <1>1, <1>2, <1>3, <1>4, <1>5, <1>6, <1>7, <1>8, <1>9, <1>10 DEF Next

(* Whoever has attached has been shown what everybody else has, every piece of
   output once and in its order, and knows the terminal's state (attach() of
   agent-terminals.ts and the route that sends the hello). *)
THEOREM ViewersSeeTheSame == Spec => []ViewersAgree
<1>1. Init => VInv
  <2> SUFFICES ASSUME Init PROVE VInv
    OBVIOUS
  <2>1. /\ entry = NoEntry /\ NoEntry.queue = <<>> /\ NoEntry.listeners = {}
        /\ DOMAIN shown = Viewers /\ pending = [v \in Viewers |-> <<>>] /\ at = [v \in Viewers |-> "away"]
    BY DEF Init, NoEntry
  <2>2. pending \in [Viewers -> Seq(Messages)] /\ \A v \in Viewers : pending[v] = <<>> /\ at[v] = "away"
    BY <2>1
  <2>3. \A v \in Viewers : NoSnapshot(entry, v)
    BY <2>1 DEF NoSnapshot
  <2> QED BY <2>1, <2>2, <2>3 DEF VInv, LiveSee, WaitersWillSee, OthersHaveNone
<1> QED
  BY <1>1, SeenIsShown, KInvInit, KInvStep, VInvStep, PTL DEF Spec
=============================================================================
