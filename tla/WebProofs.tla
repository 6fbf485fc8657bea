------------------------------ MODULE WebProofs ------------------------------
(***************************************************************************)
(* Theorems about the web application's side, for all values of the        *)
(* constants.  About Workspaces: starts that cross never take a container  *)
(* of the current image away from each other, and what is gone from the    *)
(* control plane's list has left nothing behind.  About WorkspacePage: a   *)
(* press that is answered as done made one legal move, and one that is     *)
(* refused was made on a page that was out of date.  About TerminalPane:   *)
(* behind what is on its way, a pane that is connected shows what its      *)
(* terminal has put out.                                                   *)
(***************************************************************************)
EXTENDS Workspaces, WorkspacePage, TerminalPane, TLAPS

-----------------------------------------------------------------------------
(* The inductive invariant: the types; a call that is over is forgotten, and
   only createWorkspace() undoes; before there is a record there is nothing. *)

Rows == [at : {"none", "creating", "live", "deleted", "removed"},
         known : {"none", "creating", "running", "stopped", "deleted"}]
Containers == [id : Nat, status : {"none", "created", "running", "exited"}, image : Nat, ready : BOOLEAN]
CallStates == [kind : {"none", "create", "start", "wake", "stop", "delete", "undo"},
               at : InOrchestrator \cup Answers \cup {"none"}, raw : Nat,
               caller : {"none", "waits", "over"}, crossed : BOOLEAN]

RowOK ==
  /\ row \in Rows
  /\ row.at \in {"none", "removed"} => row.known = "none"
  /\ row.at = "none" => container.id = 0 /\ \A c \in Slots : call[c].kind = "none"

ContainerOK ==
  /\ container \in Containers /\ container.id <= made /\ container.image <= image
  /\ container.id = 0 <=> container.status = "none"
  /\ container.ready => container.status = "running"

CallOK(c) ==
  /\ call[c].raw <= made
  /\ call[c].kind = "none" => call[c].at = "none" /\ call[c].caller = "none"
  /\ call[c].kind = "undo" => c = Undo

(* A container that is about to be dropped has an old image. *)
OldIsDropped ==
  \A c \in Slots : call[c].at = "drop" /\ call[c].raw = container.id /\ container.id # 0 => container.image < image

CountsOK ==
  /\ volume \in 0..made + 1 /\ image \in 0..MaxBuilds
  /\ made \in 0..MaxContainers /\ faults \in 0..MaxFaults
  /\ past \subseteq {"crossed", "uncleaned", "deleted", "failed"}

WInv ==
  /\ RowOK /\ ContainerOK /\ CountsOK /\ OldIsDropped
  /\ call \in [Slots -> CallStates] /\ \A c \in Slots : CallOK(c)

LEMMA Initially == Init => WInv
BY WorkspacesAssumption
   DEF Init, WInv, RowOK, ContainerOK, CountsOK, OldIsDropped, CallOK, Rows, Containers, CallStates,
       NoContainer, Idle, Slots, InOrchestrator, Answers

LEMMA InvTypes == WInv => TypeOK
BY DEF WInv, RowOK, ContainerOK, CountsOK, CallOK, Rows, Containers, CallStates, TypeOK

-----------------------------------------------------------------------------
(* What the helpers give back. *)

(* Under(c) tells that the call is one. *)
LEMMA UnderIsKnown == ASSUME WInv, NEW c \in Slots, Under(c) PROVE call[c].kind # "none" /\ row.at # "none"
BY DEF WInv, RowOK, CallOK, Under, InOrchestrator

(* A call that goes on, or is answered, is still what it may be. *)
LEMMA AtKeeps ==
  ASSUME WInv, NEW c \in Slots, NEW a \in (InOrchestrator \cup Answers) \ {"drop"}, Under(c)
  PROVE  /\ At(c, a) \in [Slots -> CallStates]
         /\ \A d \in Slots : d # c => At(c, a)[d] = call[d]
         /\ At(c, a)[c].raw \in 0..made /\ At(c, a)[c].at # "drop"
         /\ At(c, a)[c].kind = "none" => At(c, a)[c].at = "none" /\ At(c, a)[c].caller = "none"
         /\ At(c, a)[c].kind = "undo" => call[c].kind = "undo"
<1>1. call[c].kind # "none" /\ call[c].raw \in 0..made
  BY UnderIsKnown DEF WInv, CallOK, CallStates, CountsOK
<1>2. CASE a \in Answers /\ call[c].caller = "over"
  <2>1. At(c, a) = [call EXCEPT ![c] = [kind |-> "none", at |-> "none", raw |-> 0, caller |-> "none", crossed |-> FALSE]]
    BY <1>2 DEF At, Idle
  <2> QED BY <2>1 DEF WInv, CallStates, CountsOK
<1>3. CASE ~(a \in Answers /\ call[c].caller = "over")
  <2>1. At(c, a) = [call EXCEPT ![c] = [call[c] EXCEPT !.at = a]]
    BY <1>3 DEF At
  <2> QED BY <1>1, <2>1 DEF WInv, CallStates
<1> QED BY <1>2, <1>3

(* A call's caller that stops waiting leaves every call what it may be. *)
LEMMA OverKeeps ==
  ASSUME WInv, NEW c \in Slots
  PROVE  /\ Over(c) \in [Slots -> CallStates]
         /\ \A d \in Slots : d # c => Over(c)[d] = call[d]
         /\ Over(c)[c].raw \in 0..made /\ (Over(c)[c].at = "drop" => call[c].at = "drop" /\ Over(c)[c].raw = call[c].raw)
         /\ Over(c)[c].kind = "none" => Over(c)[c].at = "none" /\ Over(c)[c].caller = "none"
         /\ Over(c)[c].kind = "undo" => call[c].kind = "undo"
<1>1. CASE Under(c)
  <2>1. Over(c) = [call EXCEPT ![c] = [call[c] EXCEPT !.caller = "over"]]
    BY <1>1 DEF Over
  <2>2. call[c].kind # "none" /\ call[c].raw \in 0..made
    BY <1>1 DEF WInv, CallOK, Under, InOrchestrator, CallStates, CountsOK
  <2> QED BY <2>1, <2>2 DEF WInv, CallStates
<1>2. CASE ~Under(c)
  <2>1. Over(c) = [call EXCEPT ![c] = [kind |-> "none", at |-> "none", raw |-> 0, caller |-> "none", crossed |-> FALSE]]
    BY <1>2 DEF Over, Idle
  <2> QED BY <2>1 DEF WInv, CallStates, CountsOK
<1> QED BY <1>1, <1>2

-----------------------------------------------------------------------------
(* The steps that touch neither container nor image keep the invariant, when the
   row and the calls stay what they may be. *)
LEMMA CallsAlone ==
  ASSUME WInv, UNCHANGED <<container, image, made>>, RowOK', CountsOK',
         call' \in [Slots -> CallStates],
         \A c \in Slots : CallOK(c)' /\ (call'[c].at = "drop" => call[c].at = "drop" /\ call'[c].raw = call[c].raw)
  PROVE  WInv'
BY DEF WInv, ContainerOK, OldIsDropped

(* A new call. *)
LEMMA CallingKeeps ==
  ASSUME WInv, UNCHANGED <<container, image, made>>, RowOK', CountsOK', NEW c \in Slots,
         NEW k \in {"create", "start", "wake", "stop", "delete"}, NEW a \in {"look", "stop", "remove"},
         Calling(c, k, a)
  PROVE  WInv'
<1> DEFINE new == [Idle EXCEPT !.kind = k, !.at = a, !.caller = "waits"]
<1>1. Idle \in CallStates /\ Idle.raw = 0
  BY DEF Idle, CallStates
<1>2. new \in CallStates /\ new.kind = k /\ new.at = a /\ new.raw = 0
  BY <1>1 DEF CallStates, InOrchestrator
<1>3. call' = [call EXCEPT ![c] = new]
  BY DEF Calling
<1> HIDE DEF new
<1>4. call' \in [Slots -> CallStates]
  BY <1>2, <1>3 DEF WInv
<1>5. \A d \in Slots : CallOK(d)' /\ (call'[d].at = "drop" => call'[d] = call[d])
  BY <1>2, <1>3 DEF WInv, CallOK, CountsOK
<1> QED BY <1>4, <1>5, CallsAlone

LEMMA ControlPlaneStep ==
  ASSUME WInv,
         \/ \E c \in Calls : CreateWorkspace(c) \/ UserCalls(c) \/ WorkerWakes(c) \/ Succeeds(c) \/ Fails(c) \/ GivesUp(c)
         \/ Undone
  PROVE  WInv'
<1> USE WorkspacesAssumption
<1>1. ASSUME NEW c \in Calls, CreateWorkspace(c)
      PROVE  WInv'
  <2>1. RowOK' /\ CountsOK'
    BY <1>1 DEF CreateWorkspace, WInv, RowOK, CountsOK, Rows
  <2> QED BY <1>1, <2>1, CallingKeeps DEF CreateWorkspace, Slots
<1>2. ASSUME NEW c \in Calls, UserCalls(c)
      PROVE  WInv'
  <2>1. RowOK' /\ CountsOK'
    BY <1>2 DEF UserCalls, WInv, RowOK, CountsOK
  <2> QED BY <1>2, <2>1, CallingKeeps DEF UserCalls, Slots
<1>3. ASSUME NEW c \in Calls, WorkerWakes(c)
      PROVE  WInv'
  <2>1. RowOK' /\ CountsOK'
    BY <1>3 DEF WorkerWakes, WInv, RowOK, CountsOK, ContainerOK
  <2> QED BY <1>3, <2>1, CallingKeeps DEF WorkerWakes, Slots
<1>4. ASSUME NEW c \in Calls, Succeeds(c)
      PROVE  WInv'
  <2>0. row \in Rows /\ row.at # "none" /\ call[c].kind \in {"create", "start", "stop", "delete", "wake"}
    BY <1>4 DEF Succeeds, Answered, Answers, WInv, RowOK, CallOK, CallStates, Slots, Undo
  <2>1. row' \in Rows /\ row'.at # "none" /\ (row'.at = "removed" => row' = row)
    <3>1. CASE row.at = "removed"
      BY <1>4, <2>0, <3>1 DEF Succeeds
    <3>2. CASE row.at # "removed"
      <4>1. row' = Recorded(call[c].kind)
        BY <1>4, <3>2 DEF Succeeds
      <4> QED BY <2>0, <3>2, <4>1 DEF Recorded, Rows
    <3> QED BY <3>1, <3>2
  <2>3. RowOK'
    BY <2>0, <2>1 DEF WInv, RowOK
  <2>4. /\ call' \in [Slots -> CallStates]
        /\ \A d \in Slots : CallOK(d)' /\ (call'[d].at = "drop" => call[d].at = "drop" /\ call'[d].raw = call[d].raw)
    BY <1>4, OverKeeps DEF Succeeds, WInv, CallOK, CountsOK, Slots
  <2> QED BY <1>4, <2>3, <2>4, CallsAlone DEF Succeeds, WInv, CountsOK
<1>5. ASSUME NEW c \in Calls, Failed(c), call[c].caller = "waits", CountsOK',
             UNCHANGED <<row, container, volume, image, past, made>>
      PROVE  WInv'
  <2> DEFINE undo == [kind |-> "undo", at |-> "remove", raw |-> 0, caller |-> "waits", crossed |-> FALSE]
  <2>1. call' = Over(c) \/ call' = [Over(c) EXCEPT ![Undo] = undo]
    BY <1>5 DEF Failed, Idle
  <2>2. undo \in CallStates /\ c # Undo /\ c \in Slots
    BY DEF CallStates, InOrchestrator, Undo, Slots
  <2>3. RowOK'
    BY <1>5 DEF WInv, RowOK, CallOK, Slots
  <2>4. /\ call' \in [Slots -> CallStates]
        /\ \A d \in Slots : call'[d] = Over(c)[d] \/ (d = Undo /\ call'[d] = undo)
    BY <2>1, <2>2, OverKeeps
  <2>5. \A d \in Slots : CallOK(d)' /\ (call'[d].at = "drop" => call[d].at = "drop" /\ call'[d].raw = call[d].raw)
    BY <1>5, <2>2, <2>4, OverKeeps DEF WInv, CallOK, CountsOK
  <2> HIDE DEF undo
  <2> QED BY <1>5, <2>3, <2>4, <2>5, CallsAlone
<1>6. ASSUME NEW c \in Calls, Fails(c)
      PROVE  WInv'
  BY <1>5, <1>6 DEF Fails, Answered, WInv, CountsOK
<1>7. ASSUME NEW c \in Calls, GivesUp(c)
      PROVE  WInv'
  BY <1>5, <1>7 DEF GivesUp, WInv, CountsOK
<1>8. CASE Undone
  <2>1. RowOK'
    BY <1>8 DEF Undone, RowOK, Rows
  <2>2. CountsOK'
    BY <1>8 DEF Undone, WInv, CountsOK
  <2>3. /\ call' \in [Slots -> CallStates]
        /\ \A d \in Slots : CallOK(d)' /\ (call'[d].at = "drop" => call[d].at = "drop" /\ call'[d].raw = call[d].raw)
    BY <1>8, OverKeeps DEF Undone, WInv, CallOK, CountsOK, Slots
  <2> QED BY <1>8, <2>1, <2>2, <2>3, CallsAlone DEF Undone
<1> QED BY <1>1, <1>2, <1>3, <1>4, <1>6, <1>7, <1>8

(* A step of a call in the orchestrator that leaves container and image. *)
LEMMA AtAlone ==
  ASSUME WInv, NEW c \in Slots, NEW a \in (InOrchestrator \cup Answers) \ {"drop"}, Under(c),
         call' = At(c, a), UNCHANGED <<row, container, image, made>>, CountsOK'
  PROVE  WInv'
<1>1. RowOK'
  BY UnderIsKnown DEF WInv, RowOK
<1>2. \A d \in Slots : CallOK(d)' /\ (call'[d].at = "drop" => call[d].at = "drop" /\ call'[d].raw = call[d].raw)
  BY AtKeeps DEF WInv, CallOK, CountsOK
<1> QED BY <1>1, <1>2, AtKeeps, CallsAlone

LEMMA OrchestratorStep ==
  ASSUME WInv,
         \/ \E c \in Slots :
              \/ Look(c) \/ MakeVolume(c) \/ Drop(c) \/ Make(c) \/ MakeFails(c) \/ Boot(c) \/ Waited(c)
              \/ Stop(c) \/ RemoveContainer(c) \/ RemoveVolume(c)
         \/ AgentUp \/ OrchestratorRestarts \/ ImageBuilt
  PROVE  WInv'
<1> USE WorkspacesAssumption
<1>1. ASSUME NEW c \in Slots, Look(c)
      PROVE  WInv'
  <2>1. Under(c) /\ CountsOK'
    BY <1>1 DEF Look, Under, InOrchestrator, WInv, CountsOK
  <2>2. CASE \E a \in {"volume", "error", "boot"} : call' = At(c, a)
    BY <1>1, <2>1, <2>2, AtAlone DEF Look, InOrchestrator, Answers
  <2>3. CASE container.id # 0 /\ Outdated /\ call' = [call EXCEPT ![c].at = "drop", ![c].raw = container.id]
    <3>1. /\ call' \in [Slots -> CallStates] /\ call'[c].raw = container.id
          /\ call'[c].kind = call[c].kind /\ \A d \in Slots : d # c => call'[d] = call[d]
      BY <2>3, ZenonT(60) DEF WInv, ContainerOK, Containers, CallStates, InOrchestrator
    <3>2. \A d \in Slots : CallOK(d)'
      BY <1>1, <2>1, <3>1, UnderIsKnown DEF WInv, CallOK, ContainerOK, Look
    <3>3. container.image < image
      BY <2>3 DEF Outdated, WInv, ContainerOK, Containers, CountsOK
    <3> QED BY <1>1, <2>1, <3>1, <3>2, <3>3, UnderIsKnown DEF Look, WInv, RowOK, ContainerOK, OldIsDropped
  <2> QED BY <1>1, <2>2, <2>3 DEF Look
<1>2. ASSUME NEW c \in Slots, MakeVolume(c)
      PROVE  WInv'
  <2>1. CountsOK' /\ Under(c)
    BY <1>2 DEF MakeVolume, Crossed, WInv, CountsOK, Under, InOrchestrator
  <2> QED BY <1>2, <2>1, AtAlone DEF MakeVolume, InOrchestrator, Answers
<1>3. ASSUME NEW c \in Slots, NEW a \in (InOrchestrator \cup Answers) \ {"drop"}, Under(c),
             call' = At(c, a), container' = NoContainer, CountsOK', UNCHANGED <<row, image, made>>
      PROVE  WInv'
  <2>1. RowOK'
    BY <1>3, UnderIsKnown DEF WInv, RowOK
  <2>2. \A d \in Slots : CallOK(d)'
    BY <1>3, AtKeeps DEF WInv, CallOK, CountsOK
  <2>3. ContainerOK' /\ OldIsDropped'
    BY <1>3 DEF NoContainer, ContainerOK, Containers, OldIsDropped, WInv, CountsOK
  <2> QED BY <1>3, <2>1, <2>2, <2>3, AtKeeps DEF WInv
<1>4. ASSUME NEW c \in Slots, Drop(c)
      PROVE  WInv'
  <2>1. CountsOK' /\ Under(c)
    BY <1>4 DEF Drop, WInv, CountsOK, Under, InOrchestrator
  <2> QED BY <1>3, <1>4, <2>1, AtAlone DEF Drop, InOrchestrator, Answers
<1>5. ASSUME NEW c \in Slots, Make(c)
      PROVE  WInv'
  <2>1. Under(c) /\ (made' = made \/ made' = made + 1)
    BY <1>5 DEF Make, Under, InOrchestrator
  <2>2. CountsOK'
    BY <1>5 DEF Make, Crossed, WInv, CountsOK
  <2>3. CASE container.id # 0
    BY <1>5, <2>1, <2>2, <2>3, AtAlone DEF Make, InOrchestrator, Answers
  <2>4. CASE container.id = 0
    <3>1. /\ call' \in [Slots -> CallStates] /\ call'[c].at = "boot" /\ call'[c].raw = made'
          /\ call'[c].kind = call[c].kind /\ \A d \in Slots : d # c => call'[d] = call[d]
      BY <1>5, <2>4 DEF Make, WInv, CountsOK, CallStates, InOrchestrator
    <3>2. \A d \in Slots : CallOK(d)'
      BY <1>5, <2>1, <2>4, <3>1, UnderIsKnown DEF WInv, CallOK, CountsOK, Make, CallStates
    <3>3. ContainerOK' /\ container'.id = made + 1 /\ made' = made + 1
      <4>1. /\ made' = made + 1 /\ image' = image /\ made \in Nat /\ image \in Nat
            /\ container' = [id |-> made + 1, status |-> "created", image |-> image, ready |-> FALSE]
        BY <1>5, <2>4 DEF Make, WInv, CountsOK
      <4> QED BY <4>1 DEF ContainerOK, Containers
    <3>4. OldIsDropped'
      <4> SUFFICES ASSUME NEW d \in Slots, call'[d].at = "drop", call'[d].raw = container'.id
                   PROVE  FALSE
        BY DEF OldIsDropped
      <4>1. d # c /\ call[d].raw <= made /\ call[d].raw = made + 1 /\ made \in Nat
        BY <3>1, <3>3 DEF WInv, CallOK, CountsOK
      <4> QED BY <4>1 DEF WInv, CallStates
    <3>5. RowOK'
      BY <1>5, <2>1, UnderIsKnown DEF Make, WInv, RowOK
    <3> QED BY <2>2, <3>1, <3>2, <3>3, <3>4, <3>5 DEF WInv
  <2> QED BY <2>3, <2>4
<1>6. ASSUME NEW c \in Slots, MakeFails(c)
      PROVE  WInv'
  <2>1. CountsOK' /\ Under(c)
    BY <1>6 DEF MakeFails, WInv, CountsOK, Under, InOrchestrator
  <2> QED BY <1>6, <2>1, AtAlone DEF MakeFails, InOrchestrator, Answers
<1>7. ASSUME NEW c \in Slots, NEW a \in (InOrchestrator \cup Answers) \ {"drop"}, Under(c),
             call' = At(c, a), container.id # 0, CountsOK', UNCHANGED <<row, image, made>>,
             NEW st \in {"running", "exited"}, container' = [container EXCEPT !.status = st, !.ready = FALSE]
      PROVE  WInv'
  <2>1. RowOK'
    BY <1>7, UnderIsKnown DEF WInv, RowOK
  <2>2. \A d \in Slots : CallOK(d)'
    BY <1>7, AtKeeps DEF WInv, CallOK, CountsOK
  <2>3. ContainerOK' /\ container'.id = container.id /\ container'.image = container.image
    BY <1>7 DEF ContainerOK, Containers, WInv
  <2>4. OldIsDropped'
    BY <1>7, <2>3, AtKeeps DEF OldIsDropped, WInv
  <2> QED BY <1>7, <2>1, <2>2, <2>3, <2>4, AtKeeps DEF WInv
<1>8. ASSUME NEW c \in Slots, Boot(c)
      PROVE  WInv'
  <2>1. CountsOK' /\ Under(c)
    BY <1>8 DEF Boot, WInv, CountsOK, Under, InOrchestrator
  <2>2. CASE container' = container
    BY <1>8, <2>1, <2>2, AtAlone DEF Boot, InOrchestrator, Answers
  <2>3. CASE container.id # 0 /\ container.status # "running" /\ container' = [container EXCEPT !.status = "running"]
    <3>1. container' = [container EXCEPT !.status = "running", !.ready = FALSE]
      BY <2>3 DEF WInv, ContainerOK, Containers
    <3>2. call' = At(c, "wait")
      BY <1>8, <2>3 DEF Boot, WInv, ContainerOK, Containers
    <3> QED BY <1>7, <1>8, <2>1, <2>3, <3>1, <3>2 DEF Boot, InOrchestrator, Answers
  <2> QED BY <1>8, <2>2, <2>3 DEF Boot
<1>9. CASE AgentUp
  <2>1. /\ ContainerOK' /\ container'.id = container.id /\ container'.image = container.image
    BY <1>9 DEF AgentUp, WInv, ContainerOK, Containers
  <2> QED BY <1>9, <2>1 DEF AgentUp, WInv, RowOK, CountsOK, OldIsDropped, CallOK
<1>10. ASSUME NEW c \in Slots, Waited(c)
       PROVE  WInv'
  <2>1. CountsOK' /\ Under(c)
    BY <1>10 DEF Waited, WInv, CountsOK, Under, InOrchestrator
  <2> QED BY <1>10, <2>1, AtAlone DEF Waited, InOrchestrator, Answers
<1>11. ASSUME NEW c \in Slots, Stop(c)
       PROVE  WInv'
  <2>1. CountsOK' /\ Under(c)
    BY <1>11 DEF Stop, WInv, CountsOK, Under, InOrchestrator
  <2>2. CASE container' = container
    BY <1>11, <2>1, <2>2, AtAlone DEF Stop, InOrchestrator, Answers
  <2>3. CASE container.id # 0 /\ container' = [container EXCEPT !.status = "exited", !.ready = FALSE]
    BY <1>7, <1>11, <2>1, <2>3 DEF Stop, InOrchestrator, Answers
  <2> QED BY <1>11, <2>2, <2>3 DEF Stop
<1>12. ASSUME NEW c \in Slots, RemoveContainer(c)
       PROVE  WInv'
  <2>1. /\ call' \in [Slots -> CallStates]
        /\ \A d \in Slots : /\ call'[d].kind = call[d].kind /\ call'[d].raw = call[d].raw
                            /\ call'[d].caller = call[d].caller
                            /\ call'[d].at \in {call[d].at, "unvolume"} /\ (call'[d].at # call[d].at => d = c)
    BY <1>12, ZenonT(60) DEF RemoveContainer, WInv, CallStates, InOrchestrator
  <2>2. Under(c) /\ CountsOK'
    BY <1>12 DEF RemoveContainer, WInv, CountsOK, Under, InOrchestrator
  <2>3. \A d \in Slots : CallOK(d)'
    BY <1>12, <2>1, <2>2, UnderIsKnown DEF RemoveContainer, WInv, CallOK
  <2>4. ContainerOK' /\ OldIsDropped'
    BY <1>12 DEF RemoveContainer, NoContainer, ContainerOK, Containers, OldIsDropped, WInv, CountsOK
  <2>5. RowOK'
    BY <1>12, <2>2, UnderIsKnown DEF RemoveContainer, WInv, RowOK
  <2> QED BY <2>1, <2>2, <2>3, <2>4, <2>5 DEF WInv
<1>13. ASSUME NEW c \in Slots, RemoveVolume(c)
       PROVE  WInv'
  <2>1. CountsOK' /\ Under(c)
    BY <1>13 DEF RemoveVolume, WInv, CountsOK, Under, InOrchestrator
  <2> QED BY <1>13, <2>1, AtAlone DEF RemoveVolume, InOrchestrator, Answers
<1>14. CASE OrchestratorRestarts
  <2>1. \A d \in Slots : Under(d) => call'[d] = At(d, "error")[d]
    BY <1>14 DEF OrchestratorRestarts
  <2>2. \A d \in Slots : call'[d] \in CallStates /\ CallOK(d)' /\ (call'[d].at = "drop" => call'[d] = call[d])
    <3> TAKE d \in Slots
    <3>1. CASE Under(d)
      BY <1>14, <2>1, <3>1, AtKeeps DEF OrchestratorRestarts, WInv, CallOK, CountsOK, InOrchestrator, Answers
    <3>2. CASE ~Under(d)
      BY <1>14, <3>2 DEF OrchestratorRestarts, WInv, CallOK
    <3> QED BY <3>1, <3>2
  <2>3. call' \in [Slots -> CallStates]
    BY <1>14, <2>2 DEF OrchestratorRestarts
  <2>4. RowOK' /\ CountsOK'
    BY <1>14, UnderIsKnown DEF OrchestratorRestarts, WInv, RowOK, CountsOK
  <2> QED BY <1>14, <2>2, <2>3, <2>4, CallsAlone DEF OrchestratorRestarts
<1>15. CASE ImageBuilt
  BY <1>15 DEF ImageBuilt, WInv, RowOK, ContainerOK, Containers, CountsOK, OldIsDropped, CallOK
<1> QED BY <1>1, <1>2, <1>4, <1>5, <1>6, <1>8, <1>9, <1>10, <1>11, <1>12, <1>13, <1>14, <1>15

-----------------------------------------------------------------------------
(* The theorems. *)

(* Every step keeps the invariant. *)
LEMMA WorkspacesStep == WInv /\ [Next]_vars => WInv'
<1> SUFFICES ASSUME WInv, [Next]_vars PROVE WInv'
  OBVIOUS
<1>1. CASE UNCHANGED vars
  BY <1>1 DEF vars, WInv, RowOK, ContainerOK, CountsOK, OldIsDropped, CallOK
<1> QED BY <1>1, ControlPlaneStep, OrchestratorStep DEF Next

(* The states of workspaces, containers and calls have their types. *)
THEOREM WorkspacesTyped == Spec => []TypeOK
BY Initially, WorkspacesStep, InvTypes, PTL DEF Spec

(* However many calls run at once, only a removal takes away a container of the
   current image: start() drops the container it has looked at, by its id. *)
THEOREM StartsDoNotTakeAway == Spec => CurrentIsKept
<1>1. ASSUME WInv, [Next]_vars, container.id # 0, container.image = image, container'.id # container.id
      PROVE  \E c \in Slots : call[c].at = "remove" /\ call'[c].at = "unvolume"
  <2>1. ASSUME NEW c \in Slots, RemoveContainer(c) PROVE call[c].at = "remove" /\ call'[c].at = "unvolume"
    BY <1>1, <2>1 DEF RemoveContainer, WInv, CallStates
  <2>2. ASSUME NEW c \in Slots, Drop(c) PROVE FALSE
    BY <1>1, <2>2 DEF Drop, WInv, OldIsDropped, ContainerOK, Containers
  <2>3. ASSUME NEW c \in Slots, Make(c) PROVE FALSE
    BY <1>1, <2>3 DEF Make
  <2>4. ASSUME NEW c \in Slots, Boot(c) \/ Stop(c) PROVE FALSE
    BY <1>1, <2>4 DEF Boot, Stop, WInv, ContainerOK, Containers
  <2>5. ~AgentUp
    BY <1>1 DEF AgentUp, WInv, ContainerOK, Containers
  <2> QED BY <1>1, <2>1, <2>2, <2>3, <2>4, <2>5
          DEF Next, vars, CreateWorkspace, UserCalls, WorkerWakes, Succeeds, Fails, GivesUp, Undone, Look, MakeVolume,
              MakeFails, Waited, RemoveVolume, OrchestratorRestarts, ImageBuilt
<1>2. WInv /\ [Next]_vars =>
        (container.id # 0 /\ container.image = image /\ container'.id # container.id
           => \E c \in Slots : call[c].at = "remove" /\ call'[c].at = "unvolume")
  BY <1>1
<1> QED BY <1>2, Initially, WorkspacesStep, PTL DEF Spec, CurrentIsKept

-----------------------------------------------------------------------------
(* What is left behind.  From the moment a removal has taken the container away,
   a call can only make one again if the removal crossed it; and what the record
   says is gone was taken away by a removal that went through. *)

Clean == past \subseteq {"deleted", "failed"}

Removes(c) == call[c].kind \in {"delete", "undo"}
Makes(c) == call[c].at = "make" \/ (call[c].kind = "create" /\ call[c].at \in {"look", "volume"})

(* Where a call of each kind may be. *)
PlaceOK(c) ==
  /\ Removes(c) => call[c].at \in {"remove", "unvolume", "ok", "error"}
  /\ call[c].kind = "stop" => call[c].at \in {"stop", "ok", "error"}
  /\ call[c].kind \in {"create", "start", "wake"} => call[c].at \notin {"stop", "remove", "unvolume"}
  /\ call[c].at = "volume" => call[c].kind = "create"
  /\ call[c].at = "drop" => call[c].raw # 0
  /\ c = Undo => call[c].kind \in {"none", "undo"}

Emptied == Gone \/ \E c \in Slots : Removes(c) /\ call[c].at = "ok"
Emptying == \E c \in Slots : call[c].at = "unvolume"

MakersAreCrossed == \A c \in Slots : Makes(c) => call[c].crossed

Leftovers ==
  Clean =>
    /\ Emptied \/ Emptying => container.id = 0 /\ MakersAreCrossed
    /\ Emptied => volume = 0

OInv == WInv /\ (\A c \in Slots : PlaceOK(c)) /\ Leftovers

(* What a call is after a step of the orchestrator, and after its caller. *)
LEMMA AtOf ==
  ASSUME WInv, NEW c \in Slots, NEW a \in InOrchestrator \cup Answers
  PROVE  /\ \A d \in Slots : d # c => At(c, a)[d] = call[d]
         /\ \/ At(c, a)[c].kind = "none" /\ At(c, a)[c].at = "none"
            \/ /\ At(c, a)[c].kind = call[c].kind /\ At(c, a)[c].at = a
               /\ At(c, a)[c].raw = call[c].raw /\ At(c, a)[c].crossed = call[c].crossed
<1>1. CASE a \in Answers /\ call[c].caller = "over"
  <2>1. At(c, a) = [call EXCEPT ![c] = [kind |-> "none", at |-> "none", raw |-> 0, caller |-> "none", crossed |-> FALSE]]
    BY <1>1 DEF At, Idle
  <2> QED BY <2>1 DEF WInv, CallStates
<1>2. CASE ~(a \in Answers /\ call[c].caller = "over")
  <2>1. At(c, a) = [call EXCEPT ![c] = [call[c] EXCEPT !.at = a]]
    BY <1>2 DEF At
  <2> QED BY <2>1 DEF WInv, CallStates
<1> QED BY <1>1, <1>2

LEMMA OverOf ==
  ASSUME WInv, NEW c \in Slots
  PROVE  /\ Over(c) \in [Slots -> CallStates]
         /\ \A d \in Slots : d # c => Over(c)[d] = call[d]
         /\ \/ Over(c)[c].kind = "none" /\ Over(c)[c].at = "none"
            \/ /\ Over(c)[c].kind = call[c].kind /\ Over(c)[c].at = call[c].at /\ Under(c)
               /\ Over(c)[c].raw = call[c].raw /\ Over(c)[c].crossed = call[c].crossed
<1>1. CASE Under(c)
  <2>1. Over(c) = [call EXCEPT ![c] = [call[c] EXCEPT !.caller = "over"]]
    BY <1>1 DEF Over
  <2> QED BY <1>1, <2>1 DEF WInv, CallStates
<1>2. CASE ~Under(c)
  <2>1. Over(c) = [call EXCEPT ![c] = [kind |-> "none", at |-> "none", raw |-> 0, caller |-> "none", crossed |-> FALSE]]
    BY <1>2 DEF Over, Idle
  <2> QED BY <2>1 DEF WInv, CallStates
<1> QED BY <1>1, <1>2

(* A call that is where it was, or is no more. *)
StaysOrEnds(d) ==
  \/ call'[d].kind = "none" /\ call'[d].at = "none"
  \/ /\ call'[d].kind = call[d].kind /\ call'[d].at = call[d].at
     /\ call'[d].raw = call[d].raw /\ call'[d].crossed = call[d].crossed

LEMMA StaysInPlace == ASSUME NEW d \in Slots, PlaceOK(d), StaysOrEnds(d) PROVE PlaceOK(d)'
BY DEF PlaceOK, StaysOrEnds, Removes

(* Steps that take nothing away. *)
LEMMA NothingEmptied ==
  ASSUME Leftovers, past \subseteq past', row'.at = row.at \/ row'.at \notin {"deleted", "removed"},
         \A d \in Slots :
           /\ call'[d].at = "unvolume" => call[d].at = "unvolume"
           /\ Removes(d)' /\ call'[d].at = "ok" => Removes(d) /\ call[d].at = "ok",
         Clean' /\ (Emptied \/ Emptying) /\ container.id = 0 /\ MakersAreCrossed =>
           container'.id = 0 /\ MakersAreCrossed' /\ (volume = 0 => volume' = 0)
  PROVE  Leftovers'
<1>1. Clean' => Clean
  BY DEF Clean
<1>2. Emptied' => Emptied
  BY DEF Emptied, Gone
<1>3. Emptying' => Emptying
  BY DEF Emptying
<1> QED BY <1>1, <1>2, <1>3 DEF Leftovers

LEMMA StaysCrossed ==
  ASSUME MakersAreCrossed, \A d \in Slots : StaysOrEnds(d) PROVE MakersAreCrossed'
BY DEF MakersAreCrossed, StaysOrEnds, Makes

LEMMA NothingMoves ==
  ASSUME OInv, past \subseteq past', row'.at = row.at \/ row'.at \notin {"deleted", "removed"},
         container'.id = container.id, volume' = volume, \A d \in Slots : StaysOrEnds(d)
  PROVE  Leftovers' /\ \A d \in Slots : PlaceOK(d)'
<1>1. \A d \in Slots : PlaceOK(d)'
  BY StaysInPlace DEF OInv
<1>2. \A d \in Slots :
        /\ call'[d].at = "unvolume" => call[d].at = "unvolume"
        /\ Removes(d)' /\ call'[d].at = "ok" => Removes(d) /\ call[d].at = "ok"
  BY DEF StaysOrEnds, Removes
<1> QED BY <1>1, <1>2, StaysCrossed, NothingEmptied DEF OInv

(* One call of the orchestrator goes on. *)
LEMMA GoesOn ==
  ASSUME OInv, NEW c \in Slots, NEW a \in (InOrchestrator \cup Answers) \ {"unvolume", "drop"}, call' = At(c, a),
         past \subseteq past', row' = row,
         a # "ok" \/ ~Removes(c),
         ~Removes(c) \/ a = "error", call[c].kind # "stop" \/ a \in {"ok", "error"}, a \notin {"stop", "remove"},
         a = "volume" => call[c].kind = "create",
         Clean' /\ (Emptied \/ Emptying) /\ container.id = 0 /\ MakersAreCrossed =>
           container'.id = 0 /\ (volume = 0 => volume' = 0) /\ (a \in {"volume", "make", "look"} => Makes(c))
  PROVE  Leftovers' /\ \A d \in Slots : PlaceOK(d)'
<1>1. /\ \A d \in Slots : d # c => call'[d] = call[d]
      /\ \/ call'[c].kind = "none" /\ call'[c].at = "none"
         \/ /\ call'[c].kind = call[c].kind /\ call'[c].at = a
            /\ call'[c].raw = call[c].raw /\ call'[c].crossed = call[c].crossed
  BY AtOf DEF OInv
<1>2. \A d \in Slots : PlaceOK(d)'
  BY <1>1 DEF OInv, PlaceOK, Removes
<1>3. \A d \in Slots :
        /\ call'[d].at = "unvolume" => call[d].at = "unvolume"
        /\ Removes(d)' /\ call'[d].at = "ok" => Removes(d) /\ call[d].at = "ok"
  BY <1>1 DEF Removes
<1>4. ASSUME MakersAreCrossed, a \in {"volume", "make", "look"} => Makes(c) PROVE MakersAreCrossed'
  BY <1>1, <1>4 DEF MakersAreCrossed, Makes
<1> QED BY <1>2, <1>3, <1>4, NothingEmptied DEF OInv

LEMMA ControlPlaneLeaves ==
  ASSUME OInv, WInv',
         \/ \E c \in Calls : CreateWorkspace(c) \/ UserCalls(c) \/ WorkerWakes(c) \/ Succeeds(c) \/ Fails(c) \/ GivesUp(c)
         \/ Undone
  PROVE  Leftovers' /\ \A d \in Slots : PlaceOK(d)'
<1>0. WInv /\ (\A d \in Slots : PlaceOK(d)) /\ Leftovers /\ call \in [Slots -> CallStates]
  BY DEF OInv, WInv
<1>1. ASSUME NEW c \in Calls, NEW k \in {"create", "start", "wake", "stop", "delete"}, NEW a \in {"look", "stop", "remove"},
             Calling(c, k, a), <<k, a>> \in {<<"create", "look">>, <<"start", "look">>, <<"wake", "look">>, <<"stop", "stop">>, <<"delete", "remove">>},
             k = "create" => row.at = "none", row'.at = row.at \/ row'.at = "creating",
             UNCHANGED <<container, volume, past>>
      PROVE  Leftovers' /\ \A d \in Slots : PlaceOK(d)'
  <2> DEFINE new == [Idle EXCEPT !.kind = k, !.at = a, !.caller = "waits"]
  <2>1. new.kind = k /\ new.at = a
    BY DEF Idle
  <2>2. call' = [call EXCEPT ![c] = new]
    BY <1>1 DEF Calling
  <2> HIDE DEF new
  <2>3. call'[c].kind = k /\ call'[c].at = a /\ \A d \in Slots : d # c => call'[d] = call[d]
    BY <1>0, <2>1, <2>2 DEF Slots
  <2>4. \A d \in Slots : PlaceOK(d)'
    BY <1>0, <1>1, <2>3, WorkspacesAssumption DEF PlaceOK, Removes, Undo
  <2>5. \A d \in Slots :
          /\ call'[d].at = "unvolume" => call[d].at = "unvolume"
          /\ Removes(d)' /\ call'[d].at = "ok" => Removes(d) /\ call[d].at = "ok"
    BY <1>1, <2>3 DEF Removes
  <2>6. Emptied \/ Emptying => k # "create"
    BY <1>0, <1>1 DEF Emptied, Emptying, Gone, WInv, RowOK, CallOK, Removes
  <2>7. k # "create" /\ MakersAreCrossed => MakersAreCrossed'
    BY <1>1, <2>3 DEF MakersAreCrossed, Makes
  <2> QED BY <1>0, <1>1, <2>4, <2>5, <2>6, <2>7, NothingEmptied
<1>2. CASE \E c \in Calls : CreateWorkspace(c) \/ UserCalls(c) \/ WorkerWakes(c)
  <2>1. PICK c \in Calls : CreateWorkspace(c) \/ UserCalls(c) \/ WorkerWakes(c)
    BY <1>2
  <2> QED BY <1>1, <2>1 DEF CreateWorkspace, UserCalls, WorkerWakes, Slots
<1>3. ASSUME NEW c \in Calls, Succeeds(c)
      PROVE  Leftovers' /\ \A d \in Slots : PlaceOK(d)'
  <2>1. \A d \in Slots : StaysOrEnds(d)
    BY <1>0, <1>3, OverOf DEF Succeeds, Slots, StaysOrEnds
  <2>2. CASE row'.at = row.at \/ row'.at \notin {"deleted", "removed"}
    BY <1>3, <2>1, <2>2, NothingMoves DEF Succeeds
  <2>3. CASE ~(row'.at = row.at \/ row'.at \notin {"deleted", "removed"})
    <3>1. Removes(c) /\ call[c].at = "ok"
      BY <1>0, <1>3, <2>3 DEF Succeeds, Recorded, Removes, WInv, RowOK, Rows, CallStates, CallOK, Slots
    <3>2. Emptied /\ UNCHANGED <<container, volume, past>>
      BY <1>3, <3>1 DEF Emptied, Succeeds, Slots
    <3>3. MakersAreCrossed => MakersAreCrossed'
      BY <2>1, StaysCrossed
    <3>4. \A d \in Slots : PlaceOK(d)'
      BY <1>0, <2>1, StaysInPlace
    <3> QED BY <1>0, <3>2, <3>3, <3>4 DEF Leftovers, Clean
  <2> QED BY <2>2, <2>3
<1>4. ASSUME NEW c \in Calls, Failed(c), UNCHANGED <<row, container, volume, past>>
      PROVE  Leftovers' /\ \A d \in Slots : PlaceOK(d)'
  <2> DEFINE undo == [kind |-> "undo", at |-> "remove", raw |-> 0, caller |-> "waits", crossed |-> FALSE]
  <2>1. call' = Over(c) \/ call' = [Over(c) EXCEPT ![Undo] = undo]
    BY <1>4 DEF Failed, Idle
  <2>2. \A d \in Slots : StaysOrEnds(d) \/ (call'[d].kind = "undo" /\ call'[d].at = "remove")
    <3>1. c \in Slots /\ undo.kind = "undo" /\ undo.at = "remove"
      BY DEF Slots
    <3>2. \A d \in Slots : call'[d] = Over(c)[d] \/ call'[d] = undo
      BY <1>0, <2>1, <3>1, OverOf
    <3> HIDE DEF undo
    <3> QED BY <1>0, <3>1, <3>2, OverOf DEF StaysOrEnds
  <2>3. \A d \in Slots : PlaceOK(d)'
    <3> SUFFICES ASSUME NEW d \in Slots PROVE PlaceOK(d)'
      OBVIOUS
    <3>1. CASE StaysOrEnds(d)
      BY <1>0, <3>1, StaysInPlace
    <3>2. CASE call'[d].kind = "undo" /\ call'[d].at = "remove"
      BY <3>2 DEF PlaceOK, Removes
    <3> QED BY <2>2, <3>1, <3>2
  <2>4. \A d \in Slots :
          /\ call'[d].at = "unvolume" => call[d].at = "unvolume"
          /\ Removes(d)' /\ call'[d].at = "ok" => Removes(d) /\ call[d].at = "ok"
    BY <2>2 DEF Removes, StaysOrEnds
  <2>5. MakersAreCrossed => MakersAreCrossed'
    BY <2>2 DEF MakersAreCrossed, Makes, StaysOrEnds
  <2> QED BY <1>0, <1>4, <2>3, <2>4, <2>5, NothingEmptied
<1>5. ASSUME NEW c \in Calls, Fails(c) \/ GivesUp(c)
      PROVE  Leftovers' /\ \A d \in Slots : PlaceOK(d)'
  BY <1>4, <1>5 DEF Fails, GivesUp
<1>6. CASE Undone
  <2>1. \A d \in Slots : StaysOrEnds(d)
    BY <1>0, <1>6, OverOf DEF Undone, Slots, StaysOrEnds
  <2>2. \A d \in Slots : PlaceOK(d)'
    BY <1>0, <2>1, StaysInPlace
  <2>3. CASE call[Undo].at = "ok"
    <3>1. Emptied
      BY <1>0, <2>3 DEF Emptied, Removes, PlaceOK, WInv, CallOK, Slots
    <3>2. UNCHANGED <<container, volume, past>>
      BY <1>6, <2>3 DEF Undone
    <3>3. MakersAreCrossed => MakersAreCrossed'
      BY <2>1, StaysCrossed
    <3> QED BY <1>0, <2>2, <3>1, <3>2, <3>3 DEF Leftovers, Clean
  <2>4. CASE call[Undo].at # "ok"
    BY <1>6, <2>2, <2>4 DEF Undone, Leftovers, Clean
  <2> QED BY <2>3, <2>4
<1> QED BY <1>2, <1>3, <1>5, <1>6

LEMMA OrchestratorLeaves ==
  ASSUME OInv, WInv',
         \/ \E c \in Slots :
              \/ Look(c) \/ MakeVolume(c) \/ Drop(c) \/ Make(c) \/ MakeFails(c) \/ Boot(c) \/ Waited(c)
              \/ Stop(c) \/ RemoveContainer(c) \/ RemoveVolume(c)
         \/ AgentUp \/ OrchestratorRestarts \/ ImageBuilt
  PROVE  Leftovers' /\ \A d \in Slots : PlaceOK(d)'
<1>0. WInv /\ (\A d \in Slots : PlaceOK(d)) /\ Leftovers /\ call \in [Slots -> CallStates]
  BY DEF OInv, WInv
<1>1. ASSUME NEW c \in Slots, Look(c)
      PROVE  Leftovers' /\ \A d \in Slots : PlaceOK(d)'
  <2>0. call[c].kind \in {"create", "start", "wake"}
    BY <1>0, <1>1 DEF Look, PlaceOK, Removes, WInv, CallOK, CallStates
  <2>1. CASE \E a \in {"volume", "error", "boot"} : call' = At(c, a) /\ (a = "volume" => call[c].kind = "create")
    <3>1. PICK a \in {"volume", "error", "boot"} : call' = At(c, a) /\ (a = "volume" => call[c].kind = "create")
      BY <2>1
    <3> QED BY <1>1, <2>0, <3>1, GoesOn DEF Look, Removes, Makes, InOrchestrator, Answers
  <2>2. CASE container.id # 0 /\ call' = [call EXCEPT ![c].at = "drop", ![c].raw = container.id]
    <3>1. /\ call'[c].at = "drop" /\ call'[c].raw = container.id /\ call'[c].kind = call[c].kind
          /\ \A d \in Slots : d # c => call'[d] = call[d]
      BY <1>0, <2>2 DEF CallStates
    <3>2. \A d \in Slots : PlaceOK(d)'
      BY <1>0, <2>0, <2>2, <3>1 DEF PlaceOK, Removes
    <3>3. \A d \in Slots :
            /\ call'[d].at = "unvolume" => call[d].at = "unvolume"
            /\ Removes(d)' /\ call'[d].at = "ok" => Removes(d) /\ call[d].at = "ok"
      BY <3>1 DEF Removes
    <3> QED BY <1>0, <1>1, <2>2, <3>2, <3>3, NothingEmptied DEF Look
  <2> QED BY <1>1, <2>1, <2>2 DEF Look
<1>2. ASSUME NEW c \in Slots, MakeVolume(c)
      PROVE  Leftovers' /\ \A d \in Slots : PlaceOK(d)'
  <2>1. Makes(c) /\ call[c].kind = "create"
    BY <1>0, <1>2 DEF MakeVolume, PlaceOK, Makes
  <2>2. MakersAreCrossed => ~Clean'
    BY <1>2, <2>1 DEF MakersAreCrossed, MakeVolume, Crossed, Clean
  <2>3. past \subseteq past'
    BY <1>2 DEF MakeVolume, Crossed
  <2> QED BY <1>2, <2>1, <2>2, <2>3, GoesOn DEF MakeVolume, Removes, InOrchestrator, Answers
<1>3. ASSUME NEW c \in Slots, Drop(c)
      PROVE  Leftovers' /\ \A d \in Slots : PlaceOK(d)'
  <2>0. call[c].kind \in {"create", "start", "wake"} /\ call[c].raw # 0
    BY <1>0, <1>3 DEF Drop, PlaceOK, Removes, WInv, CallOK, CallStates
  <2>1. PICK a \in {"make", "error"} : call' = At(c, a) /\ (container.id = 0 => a = "error" /\ container' = container)
    BY <1>3, <2>0 DEF Drop
  <2> QED BY <1>3, <2>0, <2>1, GoesOn DEF Drop, Removes, InOrchestrator, Answers
<1>4. ASSUME NEW c \in Slots, Make(c)
      PROVE  Leftovers' /\ \A d \in Slots : PlaceOK(d)'
  <2>0. call[c].kind \in {"create", "start", "wake"} /\ Makes(c)
    BY <1>0, <1>4 DEF Make, PlaceOK, Removes, WInv, CallOK, CallStates, Makes
  <2>1. CASE call' = At(c, "error") /\ UNCHANGED <<container, volume, past>>
    BY <1>4, <2>0, <2>1, GoesOn DEF Make, Removes, InOrchestrator, Answers
  <2>2. CASE container.id = 0
    <3>1. /\ call'[c].at = "boot" /\ call'[c].kind = call[c].kind /\ call'[c].crossed = call[c].crossed
          /\ \A d \in Slots : d # c => call'[d] = call[d]
      BY <1>0, <1>4, <2>2 DEF Make, CallStates
    <3>2. past' = Crossed(c) /\ row' = row
      BY <1>4, <2>2 DEF Make
    <3>3. MakersAreCrossed => ~Clean'
      BY <2>0, <3>2 DEF MakersAreCrossed, Crossed, Clean
    <3>4. \A d \in Slots : PlaceOK(d)'
      BY <1>0, <2>0, <3>1 DEF PlaceOK, Removes
    <3>5. \A d \in Slots :
            /\ call'[d].at = "unvolume" => call[d].at = "unvolume"
            /\ Removes(d)' /\ call'[d].at = "ok" => Removes(d) /\ call[d].at = "ok"
      BY <3>1 DEF Removes
    <3>6. past \subseteq past'
      BY <3>2 DEF Crossed
    <3> QED BY <1>0, <3>2, <3>3, <3>4, <3>5, <3>6, NothingEmptied
  <2> QED BY <1>4, <2>1, <2>2 DEF Make
<1>5. ASSUME NEW c \in Slots, MakeFails(c)
      PROVE  Leftovers' /\ \A d \in Slots : PlaceOK(d)'
  BY <1>5, GoesOn DEF MakeFails, InOrchestrator, Answers
<1>6. ASSUME NEW c \in Slots, Boot(c)
      PROVE  Leftovers' /\ \A d \in Slots : PlaceOK(d)'
  <2>0. call[c].kind \in {"create", "start", "wake"}
    BY <1>0, <1>6 DEF Boot, PlaceOK, Removes, WInv, CallOK, CallStates
  <2>1. PICK a \in {"wait", "error"} : call' = At(c, a) /\ (container.id = 0 => container' = container)
    BY <1>6 DEF Boot
  <2> QED BY <1>6, <2>0, <2>1, GoesOn DEF Boot, Removes, InOrchestrator, Answers
<1>7. ASSUME NEW c \in Slots, Waited(c)
      PROVE  Leftovers' /\ \A d \in Slots : PlaceOK(d)'
  <2>0. call[c].kind \in {"create", "start", "wake"}
    BY <1>0, <1>7 DEF Waited, PlaceOK, Removes, WInv, CallOK, CallStates
  <2>1. PICK a \in {"ok", "error"} : call' = At(c, a)
    BY <1>7 DEF Waited
  <2> QED BY <1>7, <2>0, <2>1, GoesOn DEF Waited, Removes, InOrchestrator, Answers
<1>8. ASSUME NEW c \in Slots, Stop(c)
      PROVE  Leftovers' /\ \A d \in Slots : PlaceOK(d)'
  <2>0. call[c].kind = "stop"
    BY <1>0, <1>8 DEF Stop, PlaceOK, Removes, WInv, CallOK, CallStates
  <2>1. PICK a \in {"ok", "error"} : call' = At(c, a) /\ (container.id = 0 => container' = container)
    BY <1>8 DEF Stop
  <2> QED BY <1>8, <2>0, <2>1, GoesOn DEF Stop, Removes, InOrchestrator, Answers
<1>9. ASSUME NEW c \in Slots, RemoveContainer(c)
      PROVE  Leftovers' /\ \A d \in Slots : PlaceOK(d)'
  <2>0. Removes(c)
    BY <1>0, <1>9 DEF RemoveContainer, PlaceOK, Removes, WInv, CallOK, CallStates
  <2>1. /\ call'[c].at = "unvolume" /\ call'[c].kind = call[c].kind
        /\ \A d \in Slots \ {c} : /\ call'[d].kind = call[d].kind /\ call'[d].at = call[d].at /\ call'[d].raw = call[d].raw
                                  /\ call'[d].crossed = call[d].crossed \/ call'[d].crossed
                                  /\ Under(d) /\ call[d].kind \in {"create", "start", "wake"} => call'[d].crossed
    BY <1>0, <1>9 DEF RemoveContainer, CallStates
  <2>2. \A d \in Slots : PlaceOK(d)'
    BY <1>0, <2>0, <2>1 DEF PlaceOK, Removes
  <2>3. MakersAreCrossed'
    <3> SUFFICES ASSUME NEW d \in Slots, Makes(d)' PROVE call'[d].crossed
      BY DEF MakersAreCrossed
    <3>1. d # c
      BY <2>0, <2>1 DEF Makes, Removes
    <3>2. Makes(d) /\ Under(d)
      BY <2>1, <3>1 DEF Makes, Under, InOrchestrator
    <3>3. call[d].kind \in {"create", "start", "wake"}
      BY <1>0, <3>2 DEF Makes, PlaceOK, Removes, WInv, CallOK, CallStates
    <3> QED BY <2>1, <3>1, <3>2, <3>3
  <2>4. container'.id = 0
    BY <1>9 DEF RemoveContainer, NoContainer
  <2>5. Emptied' => Emptied
    BY <1>9, <2>1 DEF Emptied, Gone, Removes, RemoveContainer
  <2>6. (Clean' => Clean) /\ volume' = volume
    BY <1>9 DEF RemoveContainer, Clean
  <2> QED BY <1>0, <2>2, <2>3, <2>4, <2>5, <2>6 DEF Leftovers
<1>10. ASSUME NEW c \in Slots, RemoveVolume(c)
       PROVE  Leftovers' /\ \A d \in Slots : PlaceOK(d)'
  <2>0. Removes(c) /\ Emptying
    BY <1>0, <1>10 DEF RemoveVolume, PlaceOK, Removes, WInv, CallOK, CallStates, Emptying
  <2>1. CASE call' = At(c, "error")
    BY <1>10, <2>0, <2>1, GoesOn DEF RemoveVolume, Removes, InOrchestrator, Answers
  <2>2. CASE call' = At(c, "ok") /\ volume' = 0
    <3>1. /\ \A d \in Slots : d # c => call'[d] = call[d]
          /\ \/ call'[c].kind = "none" /\ call'[c].at = "none"
             \/ call'[c].kind = call[c].kind /\ call'[c].at = "ok" /\ call'[c].raw = call[c].raw
      BY <1>0, <2>2, AtOf DEF Answers
    <3>2. \A d \in Slots : PlaceOK(d)'
      BY <1>0, <2>0, <3>1 DEF PlaceOK, Removes
    <3>3. MakersAreCrossed => MakersAreCrossed'
      BY <3>1 DEF MakersAreCrossed, Makes
    <3> QED BY <1>0, <1>10, <2>0, <2>2, <3>2, <3>3 DEF Leftovers, RemoveVolume, Clean
  <2> QED BY <1>10, <2>1, <2>2 DEF RemoveVolume
<1>11. CASE AgentUp \/ ImageBuilt
  BY <1>0, <1>11, NothingMoves DEF AgentUp, ImageBuilt, StaysOrEnds, WInv, ContainerOK, Containers
<1>12. CASE OrchestratorRestarts
  <2>1. \A d \in Slots :
          \/ call'[d] = call[d]
          \/ call'[d].kind = "none" /\ call'[d].at = "none"
          \/ call'[d].kind = call[d].kind /\ call'[d].at = "error" /\ call'[d].raw = call[d].raw
    <3> TAKE d \in Slots
    <3>1. call'[d] = IF Under(d) THEN At(d, "error")[d] ELSE call[d]
      BY <1>12 DEF OrchestratorRestarts
    <3> QED BY <1>0, <3>1, AtOf DEF Answers
  <2>2. \A d \in Slots : PlaceOK(d)'
    BY <1>0, <2>1 DEF PlaceOK, Removes
  <2>3. \A d \in Slots :
          /\ call'[d].at = "unvolume" => call[d].at = "unvolume"
          /\ Removes(d)' /\ call'[d].at = "ok" => Removes(d) /\ call[d].at = "ok"
    BY <2>1 DEF Removes
  <2>4. MakersAreCrossed => MakersAreCrossed'
    BY <2>1 DEF MakersAreCrossed, Makes
  <2> QED BY <1>0, <1>12, <2>2, <2>3, <2>4, NothingEmptied DEF OrchestratorRestarts
<1> QED BY <1>1, <1>2, <1>3, <1>4, <1>5, <1>6, <1>7, <1>8, <1>9, <1>10, <1>11, <1>12

LEMMA LeftoversInitially == Init => Leftovers /\ \A c \in Slots : PlaceOK(c)
BY WorkspacesAssumption
   DEF Init, Leftovers, PlaceOK, Removes, Emptied, Emptying, Gone, Idle, Slots

LEMMA LeftoversStep == OInv /\ [Next]_vars => OInv'
<1> SUFFICES ASSUME OInv, [Next]_vars PROVE OInv'
  OBVIOUS
<1>1. WInv'
  BY WorkspacesStep DEF OInv
<1>2. CASE UNCHANGED vars
  BY <1>1, <1>2, NothingMoves DEF vars, StaysOrEnds, OInv
<1>3. CASE Next
  BY <1>1, <1>3, ControlPlaneLeaves, OrchestratorLeaves DEF Next, OInv
<1> QED BY <1>2, <1>3

(* What is gone from the control plane's list has left neither container nor
   volume, for any number of calls: deleteWorkspace() and the undo of
   createWorkspace() take both away, unless somebody's call was crossed by the
   removal, or the orchestrator could not be told. *)
THEOREM NothingIsLeft == Spec => []NoOrphan
<1>1. OInv => NoOrphan
  BY DEF OInv, Leftovers, Clean, Emptied, NoOrphan
<1>2. Init => OInv
  BY Initially, LeftoversInitially DEF OInv
<1> QED BY <1>1, <1>2, LeftoversStep, PTL DEF Spec

-----------------------------------------------------------------------------
(* WorkspacePage: what is shown, what is offered on it, what is sent, and the
   inductive invariant. *)

ShownStatuses == TaskStatuses \cup {"unborn", "deleted"}
Roles == {"none", "viewer", "editor", "owner"}
Runtimes == {"running", "stopped", "unavailable"}

Pages == [at : {"open", "gone"}, tasks : [Tasks -> ShownStatuses], roles : [Members -> Roles], runtime : Runtimes]

Buttons ==
  [ act : TaskActs \cup {"none", "delete", "editor", "viewer", "remove", "stop", "start", "create", "erase"},
    on : Tasks \cup Members \cup {"workspace", "none"}, showed : ShownStatuses \cup Roles \cup Runtimes, as : Roles ]

Requests ==
  [ at : {"idle", "asked", "rendered", "pressed", "loaded", "moved"}, press : Buttons, next : Buttons,
    from : ShownStatuses \cup {"none"}, move : (ShownStatuses \cup {"none"}) \X (ShownStatuses \cup {"none"}),
    answer : {"none", "done", "refused", "raced", "failed"}, seen : Pages ]

PageTypes ==
  /\ status \in [Tasks -> ShownStatuses] /\ role \in [Members -> Roles]
  /\ containerStatus \in {"running", "stopped"} /\ deletedAt \in BOOLEAN
  /\ page \in [Members -> Pages] /\ request \in [Members -> Requests]
  /\ left \in [{"presses", "moves", "faults"} -> Nat]

(* What a button was offered on. *)
ButtonOK(b) ==
  /\ b.act # "none" => RoleAtLeast(b.as, MinimumRole(b.act))
  /\ b.act \in TaskActs => b.on \in Tasks /\ CanTransition(b.showed, Target[b.act])
  /\ b.act = "delete" => b.on \in Tasks /\ Exists(b.showed) /\ b.showed \notin {"running", "integrating"}
  /\ b.act \in {"editor", "viewer", "remove"} => b.on \in Members

(* A page that is open is a member's. *)
MembersPage(p, m) == p.at = "open" => p.roles[m] # "none"

RequestOK(q, m) ==
  /\ ButtonOK(q.press) /\ ButtonOK(q.next)
  /\ q.next.act = "none" <=> q.next = NoPress
  /\ q.at \in {"pressed", "loaded"} => q.press.act # "none"
  /\ MembersPage(q.seen, m)

(* What a request that is on its way has done. *)
MoveOK(q) ==
  /\ q.answer # "none" => q.at = "asked"
  /\ q.at \in {"idle", "pressed", "loaded"} => q.move = NoMove
  /\ q.at = "loaded" /\ q.press.act \in TaskActs => CanTransition(q.from, Target[q.press.act])
  /\ q.at = "moved" /\ q.press.act \in TaskActs => CanTransition(q.move[1], q.move[2])
  /\ q.answer = "done" /\ q.press.act \in TaskActs => CanTransition(q.move[1], q.move[2])
  /\ q.answer \in {"refused", "raced"} => q.move = NoMove

PageInv ==
  PageTypes /\ \A m \in Members : MembersPage(page[m], m) /\ RequestOK(request[m], m) /\ MoveOK(request[m])

LEMMA PageInvImplies == PageInv => PageTypeOK /\ PressesAreTrue
BY DEF PageInv, PageTypes, PageTypeOK, PressesAreTrue, MoveOK, ShownStatuses, Roles, Runtimes, Requests, Pages

-----------------------------------------------------------------------------

(* A request that has not been made, and what is not found. *)
LEMMA QuietTyped == NoRequest \in Requests /\ NotFound \in Pages /\ NoPress \in Buttons /\ NoPress.act = "none"
BY DEF NoRequest, Requests, NotFound, Pages, NoPress, Buttons, NoMove, ShownStatuses, Roles, Runtimes, TaskActs

LEMMA InitPage == PageInit => PageInv
<1> SUFFICES ASSUME PageInit PROVE PageInv
  OBVIOUS
<1>1. status \in [Tasks -> ShownStatuses] /\ role \in [Members -> Roles] /\ \A m \in Members : role[m] # "none"
  BY DEF PageInit, ShownStatuses, TaskStatuses, Roles
<1> DEFINE P == [at |-> "open", tasks |-> status, roles |-> role, runtime |-> "running"]
<1>2. P \in Pages
  BY <1>1 DEF Pages, Runtimes
<1>3. \A m \in Members : page[m] = P /\ request[m] = NoRequest
  BY DEF PageInit
<1>4. PageTypes
  <2>1. page \in [Members -> Pages] /\ request \in [Members -> Requests]
    BY <1>2, QuietTyped DEF PageInit
  <2>2. left \in [{"presses", "moves", "faults"} -> Nat]
    BY PageAssumption DEF PageInit
  <2> QED
    BY <1>1, <2>1, <2>2 DEF PageInit, PageTypes
<1>5. (\A m \in Members : RequestOK(NoRequest, m)) /\ MoveOK(NoRequest)
  BY DEF NoRequest, RequestOK, MoveOK, ButtonOK, NoPress, NoMove, TaskActs, MembersPage, NotFound
<1> QED
  BY <1>1, <1>3, <1>4, <1>5 DEF PageInv, MembersPage

(* Whatever a page offers is a button, and one the server would allow if all
   was still as it is shown. *)
LEMMA OfferedOK ==
  ASSUME NEW m \in Members, page[m] \in Pages, page[m].at = "open", MembersPage(page[m], m), NEW b \in Offered(m)
  PROVE  b \in Buttons /\ ButtonOK(b) /\ b.act # "none"
<1> DEFINE p == page[m]
           r == p.roles[m]
<1>1. r \in {"editor", "owner"} /\ p.runtime \in Runtimes /\ \A n \in Members : p.roles[n] \in Roles
  BY DEF Offered, Pages, MembersPage, Roles
<1>2. CASE b \in TaskButtons(p, r)
  <2>1. PICK t \in Tasks, act \in TaskActs \cup {"delete"} :
          /\ b = Button(act, t, p.tasks[t], r)
          /\ \/ act = "approve" /\ CanApprove(p.tasks[t])
             \/ act = "requeue" /\ CanRequeue(p.tasks[t])
             \/ act = "cancel" /\ CanCancel(p.tasks[t])
             \/ act = "delete" /\ CanDelete(p.tasks[t], r)
    BY <1>2 DEF TaskButtons
  <2>2. p.tasks[t] \in ShownStatuses
    BY DEF Pages
  <2>3. act \in TaskActs => CanTransition(p.tasks[t], Target[act])
    BY <2>1, <2>2
       DEF TaskActs, CanApprove, CanRequeue, CanCancel, CanTransition, Target, Transitions, TaskStatuses
  <2>4. act = "delete" => Exists(p.tasks[t]) /\ p.tasks[t] \notin {"running", "integrating"} /\ r = "owner"
    BY <2>1 DEF CanDelete, TaskActs
  <2> QED
    BY <1>1, <2>1, <2>2, <2>3, <2>4
       DEF Button, Buttons, ButtonOK, RoleAtLeast, Rank, MinimumRole, TaskActs, Roles
<1>3. CASE b \in PeopleButtons(p, r)
  BY <1>1, <1>3, PageAssumption
     DEF PeopleButtons, Button, Buttons, ButtonOK, RoleAtLeast, Rank, MinimumRole, TaskActs, Roles
<1>4. CASE b = ContainerButton(p, r) \/ b = CreateButton(r) \/ b \in DeleteButton(r)
  BY <1>1, <1>4
     DEF ContainerButton, CreateButton, DeleteButton, Button, Buttons, ButtonOK, RoleAtLeast, Rank, MinimumRole,
         TaskActs, Roles, Runtimes
<1> QED
  BY <1>2, <1>3, <1>4 DEF Offered

-----------------------------------------------------------------------------
(* The steps. *)

(* A step that changes one member's request, and keeps the pages. *)
LEMMA OneRequest ==
  ASSUME PageInv, PageTypes', NEW m \in Members, NEW q, request' = [request EXCEPT ![m] = q],
         RequestOK(q, m), MoveOK(q), UNCHANGED page
  PROVE  PageInv'
BY DEF PageInv, PageTypes

LEMMA PressStep == ASSUME PageInv, NEW m \in Members, Press(m) PROVE PageInv'
<1>1. PICK b \in Offered(m) :
       \/ /\ request[m].at = "idle"
          /\ request' = [request EXCEPT ![m] = [NoRequest EXCEPT !.at = "pressed", !.press = b]]
       \/ /\ request[m].at # "idle"
          /\ request' = [request EXCEPT ![m].next = b]
  BY DEF Press
<1>2. b \in Buttons /\ ButtonOK(b) /\ b.act # "none"
  BY OfferedOK DEF Press, PageInv, PageTypes
<1>3. left' \in [{"presses", "moves", "faults"} -> Nat]
  BY DEF Press, Spent, PageInv, PageTypes
<1> DEFINE q1 == [NoRequest EXCEPT !.at = "pressed", !.press = b]
           q2 == [request[m] EXCEPT !.next = b]
<1>4. CASE request' = [request EXCEPT ![m] = q1]
  <2>1. q1 \in Requests /\ RequestOK(q1, m) /\ MoveOK(q1)
    BY <1>2, QuietTyped DEF NoRequest, RequestOK, MoveOK, ButtonOK, NoPress, NoMove, TaskActs,
       MembersPage, NotFound, Requests
  <2>2. PageTypes'
    BY <1>3, <1>4, <2>1 DEF Press, PageInv, PageTypes
  <2> QED
    BY <1>4, <2>1, <2>2, OneRequest DEF Press
<1>5. CASE request' = [request EXCEPT ![m] = q2]
  <2>1. request[m] \in Requests /\ RequestOK(request[m], m) /\ MoveOK(request[m])
    BY DEF PageInv, PageTypes
  <2>2. b # NoPress /\ q2 \in Requests
    BY <1>2, <2>1 DEF NoPress, Requests
  <2>3. RequestOK(q2, m) /\ MoveOK(q2)
    BY <1>2, <2>1, <2>2 DEF Requests, RequestOK, MoveOK
  <2>4. PageTypes'
    BY <1>3, <1>5, <2>2 DEF Press, PageInv, PageTypes
  <2> QED
    BY <1>5, <2>2, <2>3, <2>4, OneRequest DEF Press
<1> QED
  BY <1>1, <1>4, <1>5

(* An answer. *)
LEMMA AnswerStep ==
  ASSUME PageInv, PageTypes', NEW m \in Members, NEW how \in {"done", "refused", "raced", "failed"}, Answer(m, how),
         how = "done" => request[m].at = "moved",
         how \in {"refused", "raced"} => request[m].move = NoMove, UNCHANGED page
  PROVE  PageInv'
<1> DEFINE q == [request[m] EXCEPT !.at = "asked", !.answer = how]
<1>1. request' = [request EXCEPT ![m] = q]
  BY DEF Answer
<1>2. RequestOK(q, m) /\ MoveOK(q)
  BY DEF PageInv, PageTypes, RequestOK, MoveOK, Requests
<1> QED
  BY <1>1, <1>2, OneRequest

LEMMA AnswerTyped ==
  ASSUME PageInv, NEW m \in Members, NEW how \in {"done", "refused", "raced", "failed"}, Answer(m, how)
  PROVE  request' \in [Members -> Requests]
<1>1. request[m] \in Requests
  BY DEF PageInv, PageTypes
<1>2. [request[m] EXCEPT !.at = "asked", !.answer = how] \in Requests
  BY <1>1 DEF Requests
<1> QED
  BY <1>2 DEF Answer, PageInv, PageTypes

LEMMA LoadStep == ASSUME PageInv, NEW m \in Members, Load(m) PROVE PageInv'
<1> DEFINE b == request[m].press
           s == IF b.on \in Tasks THEN status[b.on] ELSE "none"
           q == [request[m] EXCEPT !.at = "loaded", !.from = s]
<1>1. request[m] \in Requests /\ RequestOK(request[m], m) /\ MoveOK(request[m]) /\ request[m].at = "pressed"
      /\ s \in ShownStatuses \cup {"none"}
  BY DEF Load, PageInv, PageTypes
<1>2. CASE Allowed(b, role[m], s) /\ request' = [request EXCEPT ![m] = q]
  <2>1. q \in Requests /\ RequestOK(q, m) /\ MoveOK(q)
    BY <1>1, <1>2 DEF Requests, RequestOK, MoveOK, Allowed
  <2>2. PageTypes'
    BY <1>2, <2>1 DEF Load, PageInv, PageTypes
  <2> QED
    BY <1>2, <2>1, <2>2, OneRequest DEF Load
<1>3. CASE Answer(m, "refused")
  <2>1. PageTypes'
    BY <1>3, AnswerTyped DEF Load, PageInv, PageTypes
  <2> QED
    BY <1>1, <1>3, <2>1, AnswerStep DEF Load, MoveOK
<1> QED
  BY <1>2, <1>3 DEF Load

LEMMA UpdateTaskStep ==
  ASSUME PageInv, NEW m \in Members, request[m].at = "loaded", UpdateTask(m), UNCHANGED <<page, left>>
  PROVE  PageInv'
<1> DEFINE b == request[m].press
<1>1. request[m] \in Requests /\ RequestOK(request[m], m) /\ MoveOK(request[m])
  BY DEF PageInv, PageTypes
<1>2. ASSUME NEW t \in Tasks, NEW to \in ShownStatuses, Moved(m, t, to), b.act \in TaskActs => CanTransition(status[t], to)
      PROVE  PageInv'
  <2> DEFINE q == [request[m] EXCEPT !.at = "moved", !.move = <<status[t], to>>]
  <2>1. q \in Requests /\ RequestOK(q, m) /\ MoveOK(q)
    BY <1>1, <1>2 DEF Requests, RequestOK, MoveOK, PageInv, PageTypes
  <2>2. PageTypes' /\ request' = [request EXCEPT ![m] = q]
    BY <1>2, <2>1 DEF Moved, PageInv, PageTypes
  <2> QED
    BY <2>1, <2>2, OneRequest
<1>3. CASE b.act \in TaskActs /\ Unchanged(status[b.on], request[m].from) /\ Moved(m, b.on, Target[b.act])
  <2>1. b.on \in Tasks /\ Target[b.act] \in ShownStatuses /\ CanTransition(status[b.on], Target[b.act])
    BY <1>1, <1>3 DEF RequestOK, ButtonOK, MoveOK, Unchanged, TaskActs, Target, ShownStatuses, TaskStatuses
  <2> QED
    BY <1>2, <1>3, <2>1
<1>4. CASE b.act \in TaskActs /\ Answer(m, "raced") /\ UNCHANGED <<status, role, containerStatus, deletedAt>>
  <2>1. PageTypes'
    BY <1>4, AnswerTyped DEF PageInv, PageTypes
  <2> QED
    BY <1>1, <1>4, <2>1, AnswerStep DEF MoveOK
<1>5. CASE b.act = "delete" /\ Moved(m, b.on, "deleted")
  BY <1>1, <1>2, <1>5 DEF RequestOK, ButtonOK, ShownStatuses, TaskActs
<1> QED
  BY <1>3, <1>4, <1>5 DEF UpdateTask

LEMMA UpdateStep == ASSUME PageInv, NEW m \in Members, Update(m) PROVE PageInv'
<1> DEFINE b == request[m].press
<1>1. request[m] \in Requests /\ RequestOK(request[m], m) /\ MoveOK(request[m]) /\ request[m].at = "loaded"
      /\ UNCHANGED <<page, left>>
  BY DEF Update, PageInv, PageTypes
<1>2. CASE UpdateTask(m)
  BY <1>1, <1>2, UpdateTaskStep
<1>3. CASE CreateTask(m)
  <2>1. ASSUME NEW t \in Tasks, Moved(m, t, "queued") PROVE PageInv'
    <3> DEFINE q == [request[m] EXCEPT !.at = "moved", !.move = <<status[t], "queued">>]
    <3>1. q \in Requests /\ RequestOK(q, m) /\ MoveOK(q)
      BY <1>1, <1>3 DEF CreateTask, Requests, RequestOK, MoveOK, PageInv, PageTypes, ShownStatuses,
         TaskStatuses, TaskActs
    <3>2. PageTypes' /\ request' = [request EXCEPT ![m] = q]
      BY <1>1, <2>1, <3>1 DEF Moved, PageInv, PageTypes, ShownStatuses, TaskStatuses
    <3> QED
      BY <1>1, <3>1, <3>2, OneRequest
  <2>2. CASE Answer(m, "failed") /\ UNCHANGED <<status, role, containerStatus, deletedAt>>
    <3>1. PageTypes'
      BY <1>1, <2>2, AnswerTyped DEF PageInv, PageTypes
    <3> QED
      BY <1>1, <2>2, <3>1, AnswerStep
  <2> QED
    BY <1>3, <2>1, <2>2 DEF CreateTask
<1>4. CASE UpdateMember(m) \/ UpdateContainer(m) \/ DeleteWorkspace(m)
  <2> DEFINE q == [request[m] EXCEPT !.at = "moved"]
  <2>1. q \in Requests /\ RequestOK(q, m) /\ MoveOK(q) /\ request' = [request EXCEPT ![m] = q]
    BY <1>1, <1>4
       DEF UpdateMember, UpdateContainer, DeleteWorkspace, Requests, RequestOK, MoveOK, TaskActs
  <2>2. role' \in [Members -> Roles]
    BY <1>1, <1>4 DEF UpdateMember, UpdateContainer, DeleteWorkspace, RequestOK, ButtonOK, PageInv,
       PageTypes, Roles
  <2>3. PageTypes'
    BY <1>1, <1>4, <2>1, <2>2
       DEF UpdateMember, UpdateContainer, DeleteWorkspace, PageInv, PageTypes
  <2> QED
    BY <1>1, <2>1, <2>3, OneRequest
<1> QED
  BY <1>2, <1>3, <1>4 DEF Update

LEMMA EndStep == ASSUME PageInv, NEW m \in Members, Record(m) \/ ActionFails(m) PROVE PageInv'
<1>1. left' \in [{"presses", "moves", "faults"} -> Nat]
  BY DEF Record, ActionFails, Spent, PageInv, PageTypes
<1>2. PICK how \in {"done", "failed"} : Answer(m, how) /\ (how = "done" => Record(m))
  BY DEF Record, ActionFails
<1>3. how = "done" => request[m].at = "moved"
  BY <1>2 DEF Record
<1>4. PageTypes'
  BY <1>1, <1>2, AnswerTyped DEF Record, ActionFails, PageInv, PageTypes
<1> QED
  BY <1>2, <1>3, <1>4, AnswerStep DEF Record, ActionFails

LEMMA RefreshStep == ASSUME PageInv, NEW m \in Members, Refresh(m) PROVE PageInv'
<1> DEFINE q == [request[m] EXCEPT !.at = "asked"]
<1>1. request[m] \in Requests /\ RequestOK(request[m], m) /\ MoveOK(request[m]) /\ request[m].at = "idle"
  BY DEF Refresh, PageInv, PageTypes
<1>2. q \in Requests /\ RequestOK(q, m) /\ MoveOK(q) /\ request' = [request EXCEPT ![m] = q]
  BY <1>1 DEF Refresh, Requests, RequestOK, MoveOK
<1>3. PageTypes'
  BY <1>2 DEF Refresh, PageInv, PageTypes
<1> QED
  BY <1>2, <1>3, OneRequest DEF Refresh

LEMMA RenderStep == ASSUME PageInv, NEW m \in Members, Render(m) PROVE PageInv'
<1>1. PICK runtime \in {containerStatus, "unavailable"} :
        /\ request' = [request EXCEPT ![m] =
             [NoRequest EXCEPT !.at = "rendered", !.press = request[m].press, !.next = request[m].next,
                           !.seen = Rendered(m, runtime)]]
        /\ IF runtime = "unavailable" THEN Spent("faults") ELSE UNCHANGED left
  BY DEF Render
<1>2. Rendered(m, runtime) \in Pages /\ MembersPage(Rendered(m, runtime), m)
  BY QuietTyped DEF Rendered, Pages, MembersPage, NotFound, PageInv, PageTypes, Runtimes
<1> DEFINE q == [NoRequest EXCEPT !.at = "rendered", !.press = request[m].press, !.next = request[m].next,
                              !.seen = Rendered(m, runtime)]
<1>3. request[m] \in Requests /\ RequestOK(request[m], m)
  BY DEF PageInv, PageTypes
<1>4. q \in Requests /\ RequestOK(q, m) /\ MoveOK(q)
  BY <1>2, <1>3, QuietTyped DEF NoRequest, Requests, RequestOK, MoveOK, NoMove
<1>5. PageTypes'
  BY <1>1, <1>4 DEF Render, Spent, PageInv, PageTypes
<1> QED
  BY <1>1, <1>4, <1>5, OneRequest DEF Render

LEMMA ShowStep == ASSUME PageInv, NEW m \in Members, Show(m) PROVE PageInv'
<1> DEFINE q == IF request[m].next = NoPress THEN NoRequest ELSE [NoRequest EXCEPT !.at = "pressed", !.press = request[m].next]
<1>1. request[m] \in Requests /\ RequestOK(request[m], m)
  BY DEF PageInv, PageTypes
<1>2. q \in Requests /\ RequestOK(q, m) /\ MoveOK(q)
  BY <1>1, QuietTyped, ZenonT(60) DEF NoRequest, Requests, RequestOK, MoveOK, NoMove, MembersPage, NotFound,
     ButtonOK, NoPress, TaskActs
<1>3. request' = [request EXCEPT ![m] = q] /\ page' = [page EXCEPT ![m] = request[m].seen]
  BY DEF Show
<1>4. PageTypes'
  BY <1>1, <1>2, <1>3 DEF Show, PageInv, PageTypes, Requests
<1> QED
  BY <1>1, <1>2, <1>3, <1>4 DEF PageInv, PageTypes, RequestOK

LEMMA WorkStep == ASSUME PageInv, NEW t \in Tasks, Work(t) PROVE PageInv'
<1>1. WorkerMoves[status[t]] \subseteq ShownStatuses
  BY DEF Work, Exists, WorkerMoves, ShownStatuses, TaskStatuses
<1>2. PageTypes'
  BY <1>1 DEF Work, Spent, PageInv, PageTypes
<1> QED
  BY <1>2 DEF Work, PageInv

(* Every step keeps the invariant. *)
LEMMA StepPage == PageInv /\ [PageNext]_pageVars => PageInv'
<1> SUFFICES ASSUME PageInv, [PageNext]_pageVars PROVE PageInv'
  OBVIOUS
<1>1. CASE UNCHANGED pageVars
  BY <1>1 DEF pageVars, PageInv, PageTypes
<1>2. ASSUME NEW m \in Members, Press(m) \/ Acts(m) \/ Looks(m) PROVE PageInv'
  BY <1>2, PressStep, LoadStep, UpdateStep, EndStep, RefreshStep, RenderStep, ShowStep DEF Acts, Looks
<1> QED
  BY <1>1, <1>2, WorkStep DEF PageNext

(* What the pages show, what is offered and what is sent have their types. *)
THEOREM PageTyped == PageSpec => []PageTypeOK
<1>1. PageSpec => []PageInv
  BY InitPage, StepPage, PTL DEF PageSpec
<1> QED
  BY <1>1, PageInvImplies, PTL

(* A press that is answered as done made one move of TASK_TRANSITIONS, from the
   status that was loaded; one that was refused or overtaken made none: of two
   who move a task at once one is told that it moved (transition() in
   lib/tasks.ts). *)
THEOREM PressesTrue == PageSpec => []PressesAreTrue
<1>1. PageSpec => []PageInv
  BY InitPage, StepPage, PTL DEF PageSpec
<1> QED
  BY <1>1, PageInvImplies, PTL

-----------------------------------------------------------------------------

(* What RefusedIsStale says of one member. *)
Stale(m) ==
  LET b == request[m].press IN
    request[m].answer = "none" /\ request'[m].answer = "refused" =>
      \/ b.as # role[m]
      \/ deletedAt
      \/ b.on \in Tasks /\ b.showed # status[b.on]

LEMMA LoadStale == ASSUME PageInv, NEW m \in Members, Load(m) PROVE Stale(m)
<1> DEFINE b == request[m].press
           s == IF b.on \in Tasks THEN status[b.on] ELSE "none"
<1>1. request[m] \in Requests /\ RequestOK(request[m], m) /\ request[m].at = "pressed"
  BY DEF Load, PageInv, PageTypes
<1> SUFFICES ASSUME b.as = role[m], ~deletedAt, b.on \in Tasks => b.showed = status[b.on] PROVE Allowed(b, role[m], s)
  <2>1. CASE Allowed(b, role[m], s) /\ request' = [request EXCEPT ![m].at = "loaded", ![m].from = s]
    BY <1>1, <2>1 DEF Stale, PageInv, PageTypes, Requests
  <2>2. CASE ~Allowed(b, role[m], s)
    BY <2>2 DEF Stale
  <2> QED
    BY <2>1, <2>2 DEF Load
<1> QED
  BY <1>1 DEF Allowed, RequestOK, ButtonOK

LEMMA OthersStale ==
  ASSUME PageInv, NEW m \in Members, NEW n \in Members, Press(n) \/ Acts(n) \/ Looks(n), n # m \/ ~Load(n)
  PROVE  Stale(m)
<1>1. CASE n # m
  <2>1. request'[m] = request[m]
    BY <1>1 DEF Press, Acts, Load, Update, UpdateTask, CreateTask, UpdateMember, UpdateContainer,
       DeleteWorkspace,
            Moved, Answer, Record, ActionFails, Looks, Refresh, Render, Show, PageInv, PageTypes
  <2> QED
    BY <2>1 DEF Stale
<1>2. CASE n = m /\ ~Load(n)
  <2>1. /\ request[m] \in Requests
        /\ Answer(m, "raced") \/ Answer(m, "failed") \/ Answer(m, "done") => request'[m].answer # "refused"
    BY DEF Answer, PageInv, PageTypes, Requests
  <2>2. CASE Press(n) \/ Looks(n)
    <3>1. CASE Press(m)
      <4>1. PICK b \in Offered(m) :
              \/ request' = [request EXCEPT ![m] = [NoRequest EXCEPT !.at = "pressed", !.press = b]]
              \/ request' = [request EXCEPT ![m].next = b]
        BY <3>1 DEF Press
      <4>2. request'[m].answer \in {"none", request[m].answer}
        BY <2>1, <4>1, ZenonT(60) DEF NoRequest, Requests, PageInv, PageTypes
      <4> QED
        BY <4>2 DEF Stale
    <3>2. CASE Refresh(m)
      BY <2>1, <3>2 DEF Refresh, Stale, PageInv, PageTypes, Requests
    <3>3. CASE Render(m)
      BY <3>3 DEF Render, Stale, PageInv, PageTypes, NoRequest
    <3>4. CASE Show(m)
      BY <3>4 DEF Show, Stale, PageInv, PageTypes, NoRequest
    <3> QED
      BY <1>2, <2>2, <3>1, <3>2, <3>3, <3>4 DEF Looks
  <2>3. CASE Update(n) \/ Record(n) \/ ActionFails(n)
    BY <1>2, <2>1, <2>3 DEF Update, UpdateTask, CreateTask, UpdateMember, UpdateContainer, DeleteWorkspace,
            Moved, Record, ActionFails, Stale, PageInv, PageTypes, Requests
  <2> QED
    BY <1>2, <2>2, <2>3 DEF Acts
<1> QED
  BY <1>1, <1>2

(* A press is refused only if the task, the member's role or the workspace is
   no longer what the page showed when the button was pressed: what the panels
   offer and what the server actions check agree. *)
THEOREM RefusalsStale == PageSpec => RefusedIsStale
<1>1. ASSUME PageInv, [PageNext]_pageVars, NEW m \in Members PROVE Stale(m)
  <2>1. ASSUME NEW n \in Members, Press(n) \/ Acts(n) \/ Looks(n) PROVE Stale(m)
    BY <1>1, <2>1, LoadStale, OthersStale
  <2>2. CASE UNCHANGED request
    BY <2>2 DEF Stale
  <2> QED
    BY <1>1, <2>1, <2>2 DEF PageNext, Work, pageVars
<1>2. PageInv /\ [PageNext]_pageVars => [\A m \in Members : Stale(m)]_pageVars
  BY <1>1
<1>3. PageSpec => []PageInv
  BY InitPage, StepPage, PTL DEF PageSpec
<1> QED
  BY <1>2, <1>3, PTL DEF PageSpec, RefusedIsStale, Stale

-----------------------------------------------------------------------------
(* TerminalPane: what a pane will show, message by message. *)

SeenIn(text, m) ==
  CASE m.type = "hello"  -> m.text
    [] m.type = "output" -> Append(text, m.n)
    [] m.type = "clear"  -> <<>>
    [] OTHER -> text

(* The folds of what is to be parsed, drawn, seen, known, sent and handled. *)
Prs == INSTANCE Folding WITH Op <- Parsed
Drw == INSTANCE Folding WITH Op <- Drawn
Sn  == INSTANCE Folding WITH Op <- SeenIn
Knw == INSTANCE Folding WITH Op <- Known
Cli == INSTANCE Folding WITH Op <- ToClient
Hnd == INSTANCE Folding WITH Op <- Handled

(* What xterm will show when it has parsed all that was written to it. *)
Ahead(x) == Prs!Fold(x.text, x.queue)

(* The types; at most the current socket is in use; a socket that was never
   opened is untouched; a client waits for a socket only while it has none. *)
Texts == Seq(Nat)
Messages == {Close, Clear} \cup [type : {"hello"}, text : Texts, status : Statuses]
            \cup [type : {"state"}, status : Statuses] \cup [type : {"output"}, n : Nat]
Asked == {Close, Ask("start"), Ask("stop")}
Items == {Reset} \cup [kind : {"print"}, text : Texts] \cup [kind : {"screen"}, text : Texts, status : Statuses]
Panes == [own : BOOLEAN, mounted : BOOLEAN, step : {"resolving", "waiting", "none"}, sock : 0..MaxSockets,
          opened : 0..MaxSockets, status : Statuses \cup {"none"}]
XTerms == [text : Texts, queue : Seq(Items)]
Ends == [client : {"none", "connecting", "open", "closed"}, route : {"none", "verifying", "attaching", "live", "over"},
         gone : BOOLEAN, inbox : Seq(Asked), pending : Seq(Asked), out : Seq(Messages)]
Terminals == [status : Statuses, text : Texts, listeners : SUBSET Sockets, asked : Nat]

PaneTypes ==
  /\ pane \in Panes /\ xterm \in XTerms /\ conn \in [Sockets -> Ends] /\ term \in Terminals
  /\ count \in [prints : Nat, presses : Nat, faults : Nat, refused : BOOLEAN]

InUse(k) == k.client \in {"connecting", "open"}

PaneOK(p) ==
  /\ p.sock <= p.opened
  /\ p.step # "none" => p.mounted /\ p.sock = NoSocket
  /\ p.sock # NoSocket => p.mounted

SocketOK(k, c, p, t) ==
  /\ InUse(k) => c = p.sock
  /\ c > p.opened => k = Fresh
  /\ Len(k.pending) <= MaxPending
  /\ c \in t.listeners => k.route = "live" /\ ~k.gone

(* Behind what is on its way, a pane shows what its terminal has; before it is
   attached nothing is on its way to it.  Of a connection that a close is on its
   way to, nothing is said: the frames before it may be lost. *)
Follows(k, c, p, x, t) ==
  InUse(k) /\ ~Contains(k.out, Close) =>
    /\ c \in t.listeners => Sn!Fold(Ahead(x), k.out) = t.text /\ Knw!Fold(p.status, k.out) = t.status
    /\ k.route \in {"verifying", "attaching"} => k.out = <<>>

PaneInv ==
  /\ PaneTypes /\ PaneOK(pane)
  /\ \A c \in Sockets : SocketOK(conn[c], c, pane, term) /\ Follows(conn[c], c, pane, xterm, term)

-----------------------------------------------------------------------------
(* Messages, and what they write and draw. *)

LEMMA MessageIs ==
  ASSUME NEW m \in Messages
  PROVE  \/ m.type = "close" /\ m = Close
         \/ m.type = "clear"
         \/ m.type = "hello" /\ m.text \in Texts /\ m.status \in Statuses
         \/ m.type = "state" /\ m.status \in Statuses
         \/ m.type = "output" /\ m.n \in Nat
<1>1. CASE m \in {Close, Clear}
  BY <1>1 DEF Close, Clear
<1>2. CASE m \in [type : {"hello"}, text : Texts, status : Statuses]
  BY <1>2
<1>3. CASE m \in [type : {"state"}, status : Statuses]
  BY <1>3
<1>4. CASE m \in [type : {"output"}, n : Nat]
  BY <1>4
<1> QED BY <1>1, <1>2, <1>3, <1>4 DEF Messages

LEMMA ItemIs ==
  ASSUME NEW i \in Items
  PROVE  i.kind = "reset" \/ (i.kind # "reset" /\ i.text \in Texts)
<1>1. CASE i = Reset
  BY <1>1 DEF Reset
<1>2. CASE i \in [kind : {"print"}, text : Texts]
  BY <1>2
<1>3. CASE i \in [kind : {"screen"}, text : Texts, status : Statuses]
  BY <1>3
<1> QED BY <1>1, <1>2, <1>3 DEF Items

LEMMA ParsedTyped == Prs!Closed(Texts, Items)
<1> SUFFICES ASSUME NEW text \in Texts, NEW i \in Items PROVE Parsed(text, i) \in Texts
  BY DEF Prs!Closed
<1>1. CASE i.kind = "reset"
  <2>1. Parsed(text, i) = <<>>
    BY <1>1 DEF Parsed
  <2> QED BY <2>1 DEF Texts
<1>2. CASE i.kind # "reset" /\ i.text \in Texts
  <2>1. Parsed(text, i) = text \o i.text
    BY <1>2 DEF Parsed
  <2> QED BY <1>2, <2>1 DEF Texts
<1> QED BY <1>1, <1>2, ItemIs

LEMMA SeenTyped == Sn!Closed(Texts, Messages)
<1> SUFFICES ASSUME NEW text \in Texts, NEW m \in Messages PROVE SeenIn(text, m) \in Texts
  BY DEF Sn!Closed
<1>1. CASE m.type = "hello" /\ m.text \in Texts
  BY <1>1 DEF SeenIn
<1>2. CASE m.type = "output" /\ m.n \in Nat
  <2>1. SeenIn(text, m) = Append(text, m.n)
    BY <1>2 DEF SeenIn
  <2> QED BY <1>2, <2>1 DEF Texts
<1>3. CASE m.type = "clear"
  <2>1. SeenIn(text, m) = <<>>
    BY <1>3 DEF SeenIn
  <2> QED BY <2>1 DEF Texts
<1>4. CASE m.type \in {"close", "state"}
  BY <1>4 DEF SeenIn
<1> QED BY <1>1, <1>2, <1>3, <1>4, MessageIs

LEMMA AheadTyped ==
  ASSUME NEW x \in XTerms
  PROVE  Ahead(x) \in Texts
<1>1. x.text \in Texts /\ x.queue \in Seq(Items)
  BY DEF XTerms
<1> QED BY <1>1, ParsedTyped, Prs!FoldStays DEF Ahead

(* What is written to xterm is what is seen, once it is parsed. *)
LEMMA AheadDrawn ==
  ASSUME NEW x \in XTerms, NEW m \in Messages
  PROVE  Drawn(x, m) \in XTerms /\ Ahead(Drawn(x, m)) = SeenIn(Ahead(x), m)
<1>1. x.text \in Texts /\ x.queue \in Seq(Items) /\ Ahead(x) \in Texts
      /\ x = [text |-> x.text, queue |-> x.queue]
  BY AheadTyped DEF XTerms
<1>2. CASE m.type = "hello" /\ m.text \in Texts /\ m.status \in Statuses
  <2> DEFINE q == x.queue
             r == Append(q, Reset)
             y == [text |-> x.text, queue |-> Append(r, Screen(m))]
  <2>1. Reset \in Items /\ Screen(m) \in Items
    BY <1>2 DEF Items, Screen
  <2>2. r \in Seq(Items) /\ Append(r, Screen(m)) \in Seq(Items)
    BY <1>1, <2>1
  <2>3. q \o <<Reset, Screen(m)>> = Append(r, Screen(m))
    BY <1>1, <2>1
  <2>4. Drawn(x, m) = y
    <3>1. Drawn(x, m) = [x EXCEPT !.queue = q \o <<Reset, Screen(m)>>]
      BY <1>2 DEF Drawn
    <3> HIDE DEF q, r
    <3> QED BY <1>1, <2>3, <3>1
  <2>5. Prs!Fold(x.text, Append(r, Screen(m))) = Parsed(Prs!Fold(x.text, r), Screen(m))
    BY <2>1, <2>2, Prs!AfterAppend
  <2>6. Prs!Fold(x.text, r) = Parsed(Prs!Fold(x.text, q), Reset)
    BY <1>1, <2>1, Prs!AfterAppend
  <2>7. \A text : Parsed(text, Reset) = <<>>
    BY DEF Parsed, Reset
  <2>8. Parsed(<<>>, Screen(m)) = m.text
    <3>1. Parsed(<<>>, Screen(m)) = <<>> \o m.text
      BY DEF Parsed, Screen
    <3> QED BY <1>2, <3>1 DEF Texts
  <2>9. Ahead(y) = m.text
    BY <2>5, <2>6, <2>7, <2>8 DEF Ahead
  <2>10. SeenIn(Ahead(x), m) = m.text
    BY <1>2 DEF SeenIn
  <2>11. y \in XTerms
    BY <1>1, <2>2 DEF XTerms
  <2> QED BY <2>4, <2>9, <2>10, <2>11
<1>3. CASE m.type = "output" /\ m.n \in Nat
  <2> DEFINE i == Written(<<m.n>>)
             y == [text |-> x.text, queue |-> Append(x.queue, i)]
  <2>1. i \in Items /\ i.kind # "reset" /\ i.text = <<m.n>>
    BY <1>3 DEF Items, Written, Texts
  <2>2. Drawn(x, m) = y
    <3>1. Drawn(x, m) = [x EXCEPT !.queue = Append(@, i)]
      BY <1>3 DEF Drawn
    <3> HIDE DEF i
    <3> QED BY <1>1, <3>1
  <2>3. Append(x.queue, i) \in Seq(Items)
    BY <1>1, <2>1
  <2>4. Ahead(y) = Parsed(Ahead(x), i)
    BY <1>1, <2>1, Prs!AfterAppend DEF Ahead
  <2>5. Parsed(Ahead(x), i) = Ahead(x) \o <<m.n>>
    BY <2>1 DEF Parsed
  <2>6. Ahead(x) \o <<m.n>> = Append(Ahead(x), m.n)
    BY <1>1, <1>3 DEF Texts
  <2>7. SeenIn(Ahead(x), m) = Append(Ahead(x), m.n)
    BY <1>3 DEF SeenIn
  <2>8. y \in XTerms
    BY <1>1, <2>3 DEF XTerms
  <2> QED BY <2>2, <2>4, <2>5, <2>6, <2>7, <2>8
<1>4. CASE m.type = "clear"
  <2> DEFINE y == [text |-> x.text, queue |-> Append(x.queue, Reset)]
  <2>1. Reset \in Items
    BY DEF Items
  <2>2. Drawn(x, m) = y
    <3>1. Drawn(x, m) = [x EXCEPT !.queue = Append(@, Reset)]
      BY <1>4 DEF Drawn
    <3> QED BY <1>1, <3>1
  <2>3. Append(x.queue, Reset) \in Seq(Items)
    BY <1>1, <2>1
  <2>4. Ahead(y) = Parsed(Ahead(x), Reset)
    BY <1>1, <2>1, Prs!AfterAppend DEF Ahead
  <2>5. Parsed(Ahead(x), Reset) = <<>> /\ SeenIn(Ahead(x), m) = <<>>
    BY <1>4 DEF Parsed, Reset, SeenIn
  <2>6. y \in XTerms
    BY <1>1, <2>3 DEF XTerms
  <2> QED BY <2>2, <2>4, <2>5, <2>6
<1>5. CASE m.type \in {"close", "state"}
  BY <1>5 DEF Drawn, SeenIn
<1> QED BY <1>2, <1>3, <1>4, <1>5, MessageIs

(* So it is for all messages on their way. *)
LEMMA DrawnIsSeen ==
  ASSUME NEW x \in XTerms, NEW q \in Seq(Messages)
  PROVE  Drw!Fold(x, q) \in XTerms /\ Ahead(Drw!Fold(x, q)) = Sn!Fold(Ahead(x), q)
<1> DEFINE d(i) == Drw!After(x, q, i)
           s(i) == Sn!After(Ahead(x), q, i)
           S == {i \in Nat : i <= Len(q) => d(i) \in XTerms /\ Ahead(d(i)) = s(i)}
<1>1. /\ d(0) = x /\ \A i \in 1..Len(q) : d(i) = Drawn(d(i - 1), q[i])
      /\ Drw!Fold(x, q) = d(Len(q))
  <2>1. /\ Drw!After(x, q, 0) = x
        /\ \A i \in 1..Len(q) : Drw!After(x, q, i) = Drawn(Drw!After(x, q, i - 1), q[i])
        /\ Drw!Fold(x, q) = Drw!After(x, q, Len(q))
    BY Drw!AfterRuns
  <2> QED BY <2>1
<1>2. /\ s(0) = Ahead(x) /\ \A i \in 1..Len(q) : s(i) = SeenIn(s(i - 1), q[i])
      /\ Sn!Fold(Ahead(x), q) = s(Len(q))
  <2>1. /\ Sn!After(Ahead(x), q, 0) = Ahead(x)
        /\ \A i \in 1..Len(q) : Sn!After(Ahead(x), q, i) = SeenIn(Sn!After(Ahead(x), q, i - 1), q[i])
        /\ Sn!Fold(Ahead(x), q) = Sn!After(Ahead(x), q, Len(q))
    BY Sn!AfterRuns
  <2> QED BY <2>1
<1> HIDE DEF d, s
<1>3. 0 \in S
  BY <1>1, <1>2
<1>4. \A y \in XTerms, m \in Messages : Drawn(y, m) \in XTerms /\ Ahead(Drawn(y, m)) = SeenIn(Ahead(y), m)
  BY AheadDrawn
<1>5. ASSUME NEW i \in Nat, i \in S
      PROVE  i + 1 \in S
  <2> SUFFICES ASSUME i + 1 <= Len(q) PROVE d(i + 1) \in XTerms /\ Ahead(d(i + 1)) = s(i + 1)
    OBVIOUS
  <2>1. Len(q) \in Nat /\ i + 1 \in 1..Len(q) /\ (i + 1) - 1 = i /\ q[i + 1] \in Messages
    OBVIOUS
  <2>2. d(i) \in XTerms /\ Ahead(d(i)) = s(i)
    BY <1>5, <2>1
  <2>3. d(i + 1) = Drawn(d(i), q[i + 1]) /\ s(i + 1) = SeenIn(s(i), q[i + 1])
    BY <1>1, <1>2, <2>1, Zenon
  <2> QED BY <1>4, <2>1, <2>2, <2>3, Zenon
<1> HIDE DEF S
<1>6. Len(q) \in S
  BY <1>3, <1>5, Sn!SetInduction
<1> QED BY <1>1, <1>2, <1>6 DEF S

-----------------------------------------------------------------------------
(* The folds of the module are these. *)

LEMMA FoldsAre ==
  ASSUME NEW p, NEW q
  PROVE  /\ FoldLeft(Parsed, p, q) = Prs!Fold(p, q)
         /\ FoldLeft(Drawn, p, q) = Drw!Fold(p, q)
         /\ FoldLeft(Known, p, q) = Knw!Fold(p, q)
         /\ FoldLeft(ToClient, p, q) = Cli!Fold(p, q)
         /\ FoldLeft(Handled, p, q) = Hnd!Fold(p, q)
<1>1. FoldLeft(Parsed, p, q) = Prs!Fold(p, q)
  BY DEF Prs!Fold, FoldLeft, MapThenFoldSet, Max, Prs!FoldLeft, Prs!MapThenFoldSet, Prs!Max
<1>2. FoldLeft(Drawn, p, q) = Drw!Fold(p, q)
  BY DEF Drw!Fold, FoldLeft, MapThenFoldSet, Max, Drw!FoldLeft, Drw!MapThenFoldSet, Drw!Max
<1>3. FoldLeft(Known, p, q) = Knw!Fold(p, q)
  BY DEF Knw!Fold, FoldLeft, MapThenFoldSet, Max, Knw!FoldLeft, Knw!MapThenFoldSet, Knw!Max
<1>4. FoldLeft(ToClient, p, q) = Cli!Fold(p, q)
  BY DEF Cli!Fold, FoldLeft, MapThenFoldSet, Max, Cli!FoldLeft, Cli!MapThenFoldSet, Cli!Max
<1>5. FoldLeft(Handled, p, q) = Hnd!Fold(p, q)
  BY DEF Hnd!Fold, FoldLeft, MapThenFoldSet, Max, Hnd!FoldLeft, Hnd!MapThenFoldSet, Hnd!Max
<1> QED BY <1>1, <1>2, <1>3, <1>4, <1>5

(* What is sent to a client comes last, unless it has closed or a close is on
   its way to it. *)
LEMMA ToClientIs ==
  ASSUME NEW k \in Ends, NEW m \in Messages
  PROVE  /\ ToClient(k, m) \in Ends
         /\ ToClient(k, m) = [k EXCEPT !.out = ToClient(k, m).out]
         /\ InUse(k) /\ ~Contains(ToClient(k, m).out, Close)
            => ~Contains(k.out, Close) /\ ToClient(k, m).out = Append(k.out, m) /\ m # Close
         /\ InUse(k) => Contains(ToClient(k, Close).out, Close)
<1>1. k = [client |-> k.client, route |-> k.route, gone |-> k.gone, inbox |-> k.inbox,
           pending |-> k.pending, out |-> k.out] /\ k.out \in Seq(Messages)
  BY DEF Ends
<1>2. \A n \in Messages : Append(k.out, n) \in Seq(Messages) /\ [k EXCEPT !.out = Append(@, n)] \in Ends
  <2>1. \A n \in Messages : Append(k.out, n) \in Seq(Messages)
    BY <1>1
  <2>2. \A r \in Seq(Messages) : [k EXCEPT !.out = r] \in Ends
    BY DEF Ends
  <2> QED BY <2>1, <2>2
<1>3. Closing(k) => Contains(k.out, Close)
  <2> SUFFICES ASSUME k.out # <<>>, k.out[Len(k.out)] = Close
               PROVE  \E i \in 1..Len(k.out) : k.out[i] = Close
    BY DEF Closing, Contains, Last
  <2>1. Len(k.out) \in 1..Len(k.out)
    BY <1>1
  <2> QED BY <2>1
<1>4. ASSUME NEW n \in Messages, ~Contains(Append(k.out, n), Close)
      PROVE  ~Contains(k.out, Close) /\ n # Close
  <2> DEFINE r == Append(k.out, n)
  <2>1. Len(r) = Len(k.out) + 1 /\ Len(k.out) \in Nat /\ r[Len(k.out) + 1] = n
        /\ \A i \in 1..Len(k.out) : r[i] = k.out[i]
    BY <1>1
  <2> HIDE DEF r
  <2>2. \A i \in 1..Len(r) : r[i] # Close
    BY <1>4 DEF Contains, r
  <2>3. (Len(k.out) + 1) \in 1..Len(r) /\ \A i \in 1..Len(k.out) : i \in 1..Len(r)
    BY <2>1
  <2> QED BY <2>1, <2>2, <2>3 DEF Contains
<1>5. Close \in Messages
  BY DEF Messages
<1>6. CASE k.client = "closed" \/ Closing(k)
  <2>1. \A n : ToClient(k, n) = k
    BY <1>6 DEF ToClient
  <2>2. k = [k EXCEPT !.out = k.out]
    BY <1>1
  <2>3. InUse(k) => Contains(k.out, Close)
    BY <1>3, <1>6 DEF InUse
  <2> QED BY <2>1, <2>2, <2>3
<1>7. CASE k.client # "closed" /\ ~Closing(k)
  <2>1. \A n : ToClient(k, n) = [k EXCEPT !.out = Append(@, n)]
    BY <1>7 DEF ToClient
  <2>2. \A n : [k EXCEPT !.out = Append(@, n)].out = Append(k.out, n)
    BY <1>1
  <2>3. ToClient(k, m) = [k EXCEPT !.out = Append(k.out, m)]
    BY <1>1, <2>1
  <2>4. ToClient(k, m).out = Append(k.out, m) /\ ToClient(k, Close).out = Append(k.out, Close)
    BY <2>1, <2>2
  <2>5. ToClient(k, m) \in Ends
    BY <1>2, <2>1
  <2>6. Contains(Append(k.out, Close), Close)
    BY <1>4, <1>5
  <2> QED BY <1>4, <2>3, <2>4, <2>5, <2>6
<1> QED BY <1>6, <1>7

(* Whoever listens is told, in this order. *)
LEMMA ToldOne ==
  ASSUME NEW k, NEW m, NEW c \in Sockets
  PROVE  Told(k, <<m>>)[c] = IF c \in term.listeners THEN ToClient(k[c], m) ELSE k[c]
<1>1. <<>> \in Seq({m}) /\ m \in {m} /\ <<m>> = Append(<<>>, m)
  OBVIOUS
<1>2. ASSUME NEW j
      PROVE  FoldLeft(ToClient, j, <<m>>) = ToClient(j, m)
  <2>1. FoldLeft(ToClient, j, <<m>>) = Cli!Fold(j, <<m>>)
    BY FoldsAre
  <2>2. Cli!Fold(j, Append(<<>>, m)) = ToClient(Cli!Fold(j, <<>>), m)
    BY <1>1, Cli!AfterAppend, ZenonT(60)
  <2>3. Cli!Fold(j, <<>>) = j
    BY Cli!FoldNone
  <2> QED BY <1>1, <2>1, <2>2, <2>3
<1> QED BY <1>2 DEF Told

LEMMA ToldTwo ==
  ASSUME NEW k, NEW m, NEW n, NEW c \in Sockets
  PROVE  Told(k, <<m, n>>)[c] = IF c \in term.listeners THEN ToClient(ToClient(k[c], m), n) ELSE k[c]
<1> DEFINE q == Append(<<>>, m)
<1>1. /\ <<>> \in Seq({m, n}) /\ m \in {m, n} /\ n \in {m, n}
      /\ q \in Seq({m, n}) /\ <<m, n>> = Append(q, n)
  OBVIOUS
<1>2. ASSUME NEW j
      PROVE  FoldLeft(ToClient, j, <<m, n>>) = ToClient(ToClient(j, m), n)
  <2>1. FoldLeft(ToClient, j, <<m, n>>) = Cli!Fold(j, <<m, n>>)
    BY FoldsAre
  <2>2. Cli!Fold(j, q) = ToClient(Cli!Fold(j, <<>>), m)
    BY <1>1, Cli!AfterAppend, ZenonT(60)
  <2> HIDE DEF q
  <2>3. Cli!Fold(j, Append(q, n)) = ToClient(Cli!Fold(j, q), n)
    BY <1>1, Cli!AfterAppend
  <2>4. Cli!Fold(j, <<>>) = j
    BY Cli!FoldNone
  <2>5. Cli!Fold(j, q) = ToClient(j, m)
    BY <2>2, <2>4
  <2>6. Cli!Fold(j, <<m, n>>) = ToClient(ToClient(j, m), n)
    BY <1>1, <2>3, <2>5
  <2> QED BY <2>1, <2>6
<1> QED BY <1>2 DEF Told

(* What a viewer asks for is counted, and changes nothing else. *)
LEMMA HandledIs ==
  ASSUME NEW t \in Terminals, NEW m \in Asked
  PROVE  /\ Handled(t, m) \in Terminals
         /\ Handled(t, m).status = t.status /\ Handled(t, m).text = t.text /\ Handled(t, m).listeners = t.listeners
BY DEF Handled, Terminals

LEMMA HandledAll ==
  ASSUME NEW t \in Terminals, NEW q \in Seq(Asked), NEW u, u = FoldLeft(Handled, t, q)
  PROVE  u \in Terminals /\ u.status = t.status /\ u.text = t.text /\ u.listeners = t.listeners
<1> DEFINE T == {v \in Terminals : v.status = t.status /\ v.text = t.text /\ v.listeners = t.listeners}
<1>1. Hnd!Closed(T, Asked)
  BY HandledIs DEF Hnd!Closed
<1>2. t \in T
  OBVIOUS
<1> HIDE DEF T
<1>3. Hnd!Fold(t, q) \in T
  BY <1>1, <1>2, Hnd!FoldStays
<1> QED BY <1>3, FoldsAre DEF T

-----------------------------------------------------------------------------
(* What follows from the invariant; where it begins. *)

LEMMA InvShows == PaneInv => PaneShows
<1> SUFFICES ASSUME PaneInv, NEW c \in term.listeners,
                    c = pane.sock, conn[c].client = "open", ~Contains(conn[c].out, Close)
             PROVE  LET drawn == FoldLeft(Drawn, xterm, conn[c].out)
                    IN /\ FoldLeft(Parsed, drawn.text, drawn.queue) = term.text
                       /\ FoldLeft(Known, pane.status, conn[c].out) = term.status
  BY DEF PaneShows
<1>1. /\ xterm \in XTerms /\ c \in Sockets /\ conn[c].out \in Seq(Messages)
  BY DEF PaneInv, PaneTypes, Terminals, Ends
<1>2. Follows(conn[c], c, pane, xterm, term)
  BY <1>1 DEF PaneInv
<1>3. Sn!Fold(Ahead(xterm), conn[c].out) = term.text /\ Knw!Fold(pane.status, conn[c].out) = term.status
  BY <1>2 DEF Follows, InUse
<1>4. Ahead(Drw!Fold(xterm, conn[c].out)) = Sn!Fold(Ahead(xterm), conn[c].out)
  BY <1>1, DrawnIsSeen
<1> DEFINE drawn == FoldLeft(Drawn, xterm, conn[c].out)
<1>5. drawn = Drw!Fold(xterm, conn[c].out)
  BY FoldsAre
<1>6. Ahead(drawn) = FoldLeft(Parsed, drawn.text, drawn.queue)
  BY FoldsAre DEF Ahead
<1>7. FoldLeft(Known, pane.status, conn[c].out) = Knw!Fold(pane.status, conn[c].out)
  BY FoldsAre
<1> HIDE DEF drawn
<1>8. FoldLeft(Parsed, drawn.text, drawn.queue) = term.text
  BY <1>3, <1>4, <1>5, <1>6
<1> QED BY <1>3, <1>7, <1>8 DEF drawn

LEMMA InvPaneTyped == PaneInv => PaneTypeOK
<1> SUFFICES ASSUME PaneInv PROVE PaneTypeOK
  OBVIOUS
<1>1. pane \in Panes /\ term \in Terminals /\ conn \in [Sockets -> Ends] /\ PaneOK(pane)
      /\ \A c \in Sockets : SocketOK(conn[c], c, pane, term)
  BY DEF PaneInv, PaneTypes
<1>2. /\ pane.sock \in 0..pane.opened /\ pane.opened \in 0..MaxSockets
      /\ pane.step \in {"resolving", "waiting", "none"} /\ (pane.step # "none" => pane.mounted /\ pane.sock = NoSocket)
      /\ pane.status \in Statuses \cup {"none"}
  BY <1>1, TerminalPaneAssumption DEF Panes, PaneOK
<1>3. term.status \in Statuses /\ term.listeners \subseteq Sockets /\ term.asked \in Nat
  BY <1>1 DEF Terminals
<1>4. \A c \in Sockets :
       /\ conn[c].client \in {"none", "connecting", "open", "closed"}
       /\ conn[c].route \in {"none", "verifying", "attaching", "live", "over"}
       /\ Len(conn[c].pending) <= MaxPending
       /\ c \in term.listeners => conn[c].route = "live" /\ ~conn[c].gone
  BY <1>1 DEF Ends, SocketOK
<1> QED BY <1>2, <1>3, <1>4 DEF PaneTypeOK

LEMMA PaneInitially == PaneInit => PaneInv
<1> SUFFICES ASSUME PaneInit PROVE PaneInv
  OBVIOUS
<1>0. /\ pane = [own |-> pane.own, mounted |-> TRUE, step |-> "resolving", sock |-> 0, opened |-> 0, status |-> "none"]
      /\ pane.own \in BOOLEAN
  BY DEF PaneInit, NoSocket
<1>1. Fresh \in Ends
  BY DEF Fresh, Ends
<1>2. PaneTypes
  <2>1. pane \in Panes
    <3>1. 0 \in 0..MaxSockets
      BY TerminalPaneAssumption
    <3> DEFINE o == pane.own
    <3>2. [own |-> o, mounted |-> TRUE, step |-> "resolving", sock |-> 0, opened |-> 0, status |-> "none"] \in Panes
      <4>1. o \in BOOLEAN
        BY <1>0
      <4> HIDE DEF o
      <4> QED BY <3>1, <4>1 DEF Panes
    <3> QED BY <1>0, <3>2
  <2>2. xterm \in XTerms
    BY DEF PaneInit, XTerms, Texts
  <2>3. term \in Terminals
    BY DEF PaneInit, NoTerminal, Terminals, Texts, Statuses
  <2>4. conn \in [Sockets -> Ends]
    BY <1>1 DEF PaneInit
  <2>5. count \in [prints : Nat, presses : Nat, faults : Nat, refused : BOOLEAN]
    BY DEF PaneInit
  <2> QED BY <2>1, <2>2, <2>3, <2>4, <2>5 DEF PaneTypes
<1>3. PaneOK(pane)
  <2>1. pane.sock = 0 /\ pane.opened = 0 /\ pane.mounted
    BY <1>0
  <2> QED BY <2>1 DEF PaneOK, NoSocket
<1>4. ASSUME NEW c \in Sockets
      PROVE  SocketOK(conn[c], c, pane, term) /\ Follows(conn[c], c, pane, xterm, term)
  <2>1. conn[c] = Fresh /\ term.listeners = {}
    BY DEF PaneInit, NoTerminal
  <2>2. ~InUse(conn[c]) /\ Len(conn[c].pending) <= MaxPending
    BY <2>1, TerminalPaneAssumption DEF InUse, Fresh
  <2> QED BY <2>1, <2>2 DEF SocketOK, Follows
<1> QED BY <1>2, <1>3, <1>4 DEF PaneInv

-----------------------------------------------------------------------------
(* What a step has to show of each socket. *)

SocketNext(d) ==
  /\ conn'[d] = conn[d] \/ conn[d] # Fresh \/ d = pane.sock
  /\ Len(conn'[d].pending) <= MaxPending
  /\ d \in term'.listeners => conn'[d].route = "live" /\ ~conn'[d].gone
  /\ InUse(conn'[d]) => InUse(conn[d]) /\ pane'.sock = pane.sock
  /\ Follows(conn'[d], d, pane', xterm', term')

LEMMA PaneInvNext ==
  ASSUME PaneInv, PaneTypes', PaneOK(pane'), pane'.opened = pane.opened, \A d \in Sockets : SocketNext(d)
  PROVE  PaneInv'
<1>1. ASSUME NEW d \in Sockets
      PROVE  SocketOK(conn'[d], d, pane', term') /\ Follows(conn'[d], d, pane', xterm', term')
  <2>1. SocketNext(d) /\ SocketOK(conn[d], d, pane, term)
    BY DEF PaneInv
  <2>2. d = pane.sock => ~(d > pane.opened)
    BY DEF PaneInv, PaneTypes, PaneOK, Panes
  <2> QED BY <2>1, <2>2 DEF SocketNext, SocketOK
<1> QED BY <1>1 DEF PaneInv

(* A socket that keeps what is on its way to the client, or loses its client. *)
LEMMA Touched ==
  ASSUME PaneInv, NEW d \in Sockets,
         conn'[d] = conn[d] \/ conn[d] # Fresh \/ d = pane.sock,
         Len(conn'[d].pending) <= MaxPending,
         InUse(conn'[d]) =>
           /\ InUse(conn[d]) /\ pane'.sock = pane.sock /\ pane'.status = pane.status
           /\ conn'[d].out = conn[d].out \/ Contains(conn'[d].out, Close)
           /\ conn'[d].route \in {"verifying", "attaching"} => conn[d].route \in {"verifying", "attaching"},
         Ahead(xterm') = Ahead(xterm),
         d \in term'.listeners =>
           /\ d \in term.listeners /\ term'.text = term.text /\ term'.status = term.status
           /\ conn'[d].route = "live" /\ ~conn'[d].gone
  PROVE  SocketNext(d)
<1>1. Follows(conn[d], d, pane, xterm, term)
  BY DEF PaneInv
<1>2. Follows(conn'[d], d, pane', xterm', term')
  <2> SUFFICES ASSUME InUse(conn'[d]), ~Contains(conn'[d].out, Close)
               PROVE  /\ d \in term'.listeners => /\ Sn!Fold(Ahead(xterm'), conn'[d].out) = term'.text
                                                  /\ Knw!Fold(pane'.status, conn'[d].out) = term'.status
                      /\ conn'[d].route \in {"verifying", "attaching"} => conn'[d].out = <<>>
    BY DEF Follows
  <2>1. InUse(conn[d]) /\ conn'[d].out = conn[d].out /\ pane'.status = pane.status
    OBVIOUS
  <2>2. ~Contains(conn[d].out, Close)
    BY <2>1
  <2>3. /\ d \in term.listeners => /\ Sn!Fold(Ahead(xterm), conn[d].out) = term.text
                                   /\ Knw!Fold(pane.status, conn[d].out) = term.status
        /\ conn[d].route \in {"verifying", "attaching"} => conn[d].out = <<>>
    BY <1>1, <2>1, <2>2 DEF Follows
  <2> QED BY <2>1, <2>3
<1> QED BY <1>2 DEF SocketNext

LEMMA Untouched ==
  ASSUME PaneInv, NEW d \in Sockets, conn'[d] = conn[d],
         InUse(conn[d]) => pane'.sock = pane.sock /\ pane'.status = pane.status,
         Ahead(xterm') = Ahead(xterm),
         d \in term'.listeners => d \in term.listeners /\ term'.text = term.text /\ term'.status = term.status
  PROVE  SocketNext(d)
<1>1. SocketOK(conn[d], d, pane, term)
  BY DEF PaneInv
<1>2. Len(conn[d].pending) <= MaxPending /\ (d \in term.listeners => conn[d].route = "live" /\ ~conn[d].gone)
  BY <1>1 DEF SocketOK
<1> QED BY <1>2, Touched

(* The parts of the invariant, to be cited. *)
LEMMA PaneParts ==
  ASSUME PaneInv
  PROVE  /\ pane \in Panes /\ xterm \in XTerms /\ conn \in [Sockets -> Ends] /\ term \in Terminals
         /\ count \in [prints : Nat, presses : Nat, faults : Nat, refused : BOOLEAN]
         /\ pane.sock <= pane.opened /\ (pane.step # "none" => pane.mounted /\ pane.sock = NoSocket)
         /\ pane.sock # NoSocket => pane.mounted
         /\ \A d \in Sockets :
              /\ InUse(conn[d]) => d = pane.sock
              /\ d > pane.opened => conn[d] = Fresh
              /\ Len(conn[d].pending) <= MaxPending
              /\ d \in term.listeners => conn[d].route = "live" /\ ~conn[d].gone
BY DEF PaneInv, PaneTypes, PaneOK, SocketOK

LEMMA CountsStay ==
  ASSUME count \in [prints : Nat, presses : Nat, faults : Nat, refused : BOOLEAN], Fault \/ Pressed
  PROVE  count' \in [prints : Nat, presses : Nat, faults : Nat, refused : BOOLEAN]
BY DEF Fault, Pressed

LEMMA NotFresh ==
  ASSUME NEW k, k.client # "none" \/ k.route # "none" \/ k.inbox # <<>> \/ k.out # <<>>
  PROVE  k # Fresh
BY DEF Fresh

-----------------------------------------------------------------------------
(* The client's steps. *)

LEMMA StepUrlFails == PaneInv /\ (UrlFails \/ ReconnectTimer) => PaneInv'
<1> SUFFICES ASSUME PaneInv, UrlFails \/ ReconnectTimer PROVE PaneInv'
  OBVIOUS
<1>1. /\ xterm' = xterm /\ conn' = conn /\ term' = term
      /\ pane.mounted /\ pane.sock = NoSocket
      /\ \E s \in {"waiting", "resolving"} : pane' = [pane EXCEPT !.step = s]
  BY PaneParts DEF UrlFails, ReconnectTimer, Panes
<1>2. count' \in [prints : Nat, presses : Nat, faults : Nat, refused : BOOLEAN]
  BY PaneParts, CountsStay DEF UrlFails, ReconnectTimer
<1>3. pane' \in Panes /\ pane'.sock = pane.sock /\ pane'.opened = pane.opened /\ pane'.status = pane.status
      /\ pane'.mounted = pane.mounted
  BY <1>1, PaneParts DEF Panes
<1>4. PaneTypes' /\ PaneOK(pane')
  BY <1>1, <1>2, <1>3, PaneParts DEF PaneTypes, PaneOK
<1>5. \A d \in Sockets : SocketNext(d)
  BY <1>1, <1>3, Untouched
<1> QED BY <1>3, <1>4, <1>5, PaneInvNext

LEMMA StepUrlResolved == PaneInv /\ UrlResolved => PaneInv'
<1> SUFFICES ASSUME PaneInv, UrlResolved PROVE PaneInv'
  OBVIOUS
<1> DEFINE c == pane.opened + 1
           k == [conn[c] EXCEPT !.client = "connecting", !.route = "verifying"]
<1>1. /\ pane.step = "resolving" /\ pane.opened < MaxSockets
      /\ pane' = [pane EXCEPT !.step = "none", !.sock = c, !.opened = c]
      /\ conn' = [conn EXCEPT ![c] = k]
      /\ xterm' = xterm /\ term' = term /\ count' = count
  BY DEF UrlResolved
<1>2. pane.opened \in Nat /\ pane.opened \in 0..MaxSockets /\ MaxSockets \in Nat /\ pane.sock = 0
  BY <1>1, PaneParts, TerminalPaneAssumption DEF Panes, NoSocket
<1>3. c \in Sockets /\ c \in 0..MaxSockets /\ c > pane.opened /\ c # 0 /\ c <= c
  BY <1>1, <1>2 DEF Sockets
<1>4. conn[c] = Fresh /\ conn[c] \in Ends /\ Fresh.out = <<>> /\ Fresh.route = "none" /\ Fresh.pending = <<>>
  BY <1>3, PaneParts DEF Fresh
<1>5. k \in Ends /\ k.out = <<>> /\ k.route = "verifying" /\ k.pending = conn[c].pending
  BY <1>4 DEF Ends
<1>6. pane' \in Panes /\ pane'.sock = c /\ pane'.opened = c /\ pane'.step = "none"
  <2> HIDE DEF c, k
  <2> QED BY <1>1, <1>3, PaneParts DEF Panes
<1>7. conn' \in [Sockets -> Ends] /\ conn'[c] = k /\ \A d \in Sockets : d # c => conn'[d] = conn[d]
  <2> HIDE DEF c, k
  <2> QED BY <1>1, <1>3, <1>5, PaneParts
<1> HIDE DEF k
<1>8. PaneTypes' /\ PaneOK(pane')
  BY <1>1, <1>3, <1>6, <1>7, PaneParts DEF PaneTypes, PaneOK
<1>9. ASSUME NEW d \in Sockets
      PROVE  SocketOK(conn'[d], d, pane', term') /\ Follows(conn'[d], d, pane', xterm', term')
  <2>1. CASE d = c
    <3>1. conn'[d] = k /\ d \notin term'.listeners
      BY <1>1, <1>3, <1>4, <1>7, <2>1, PaneParts
    <3>2. Len(k.pending) <= MaxPending
      BY <1>3, <1>5, PaneParts
    <3>3. ~(d > pane'.opened) /\ d = pane'.sock
      BY <1>2, <1>6, <2>1
    <3> QED BY <1>5, <3>1, <3>2, <3>3 DEF SocketOK, Follows
  <2>2. CASE d # c
    <3>1. conn'[d] = conn[d] /\ ~InUse(conn[d])
      BY <1>2, <1>7, <2>2, PaneParts DEF Sockets
    <3>2. d > pane'.opened => d > pane.opened
      <4>1. d \in Nat
        BY DEF Sockets
      <4> QED BY <1>2, <1>6, <4>1
    <3> QED BY <1>1, <3>1, <3>2, PaneParts DEF SocketOK, Follows
  <2> QED BY <2>1, <2>2
<1> QED BY <1>8, <1>9 DEF PaneInv

LEMMA StepSocketOpens == ASSUME PaneInv, NEW c \in Sockets, SocketOpens(c) PROVE PaneInv'
<1> DEFINE k == [conn[c] EXCEPT !.client = "open"]
<1>1. /\ conn[c].client = "connecting" /\ conn' = [conn EXCEPT ![c] = k]
      /\ pane' = pane /\ xterm' = xterm /\ term' = term /\ count' = count
  BY DEF SocketOpens
<1>2. k \in Ends /\ k.out = conn[c].out /\ k.route = conn[c].route /\ k.pending = conn[c].pending
      /\ k.gone = conn[c].gone
  <2>1. conn[c] \in Ends
    BY PaneParts
  <2> QED BY <2>1 DEF Ends
<1> HIDE DEF k
<1>3. conn' \in [Sockets -> Ends] /\ conn'[c] = k /\ \A d \in Sockets : d # c => conn'[d] = conn[d]
  BY <1>1, <1>2, PaneParts
<1>4. PaneTypes' /\ PaneOK(pane')
  BY <1>1, <1>3, PaneParts DEF PaneTypes, PaneOK
<1>5. conn[c] # Fresh /\ InUse(conn[c])
  BY <1>1, NotFresh DEF InUse
<1>6. SocketNext(c)
  BY <1>1, <1>2, <1>3, <1>5, PaneParts, Touched
<1>7. \A d \in Sockets : d # c => SocketNext(d)
  BY <1>1, <1>3, Untouched
<1> QED BY <1>1, <1>4, <1>6, <1>7, PaneInvNext

LEMMA ClosedByIs ==
  ASSUME NEW k \in Ends
  PROVE  /\ ClosedBy(k) \in Ends /\ ~InUse(ClosedBy(k))
         /\ ClosedBy(k).pending = k.pending /\ ClosedBy(k).route = k.route /\ ClosedBy(k).gone = k.gone
<1>1. Close \in Asked /\ k.inbox \in Seq(Asked)
  BY DEF Asked, Ends
<1> DEFINE i == IF k.gone \/ Contains(k.inbox, Close) THEN k.inbox ELSE Append(k.inbox, Close)
<1>2. i \in Seq(Asked)
  BY <1>1
<1>3. ClosedBy(k) = [k EXCEPT !.client = "closed", !.out = <<>>, !.inbox = i]
  BY DEF ClosedBy
<1> HIDE DEF i
<1>4. <<>> \in Seq(Messages)
  OBVIOUS
<1> QED BY <1>2, <1>3, <1>4 DEF Ends, InUse

LEMMA StepSocketCloses == ASSUME PaneInv, NEW c \in Sockets, SocketCloses(c) PROVE PaneInv'
<1> DEFINE k == ClosedBy(conn[c])
<1>1. /\ conn[c].client \in {"connecting", "open"} /\ conn' = [conn EXCEPT ![c] = k]
      /\ pane' = IF c = pane.sock THEN [pane EXCEPT !.sock = NoSocket, !.step = "waiting"] ELSE pane
      /\ xterm' = xterm /\ term' = term /\ count' = count
  BY DEF SocketCloses
<1>2. k \in Ends /\ ~InUse(k) /\ k.route = conn[c].route /\ k.pending = conn[c].pending /\ k.gone = conn[c].gone
  BY ClosedByIs, PaneParts
<1> HIDE DEF k
<1>3. conn' \in [Sockets -> Ends] /\ conn'[c] = k /\ \A d \in Sockets : d # c => conn'[d] = conn[d]
  BY <1>1, <1>2, PaneParts
<1>4. c = pane.sock /\ conn[c] # Fresh /\ \A d \in Sockets : d # c => ~InUse(conn[d])
  <2>1. InUse(conn[c])
    BY <1>1 DEF InUse
  <2> QED BY <1>1, <2>1, PaneParts, NotFresh
<1>5. pane' \in Panes /\ pane'.sock = NoSocket /\ pane'.opened = pane.opened /\ pane'.mounted = pane.mounted
  <2>1. NoSocket \in 0..MaxSockets
    BY TerminalPaneAssumption DEF NoSocket
  <2> QED BY <1>1, <1>4, <2>1, PaneParts DEF Panes
<1>6. pane.mounted
  <2>1. pane.sock # NoSocket
    BY <1>4 DEF Sockets, NoSocket
  <2> QED BY <2>1, PaneParts
<1>7. PaneTypes' /\ PaneOK(pane')
  BY <1>1, <1>3, <1>5, <1>6, PaneParts DEF PaneTypes, PaneOK, Panes, NoSocket
<1>8. SocketNext(c)
  BY <1>1, <1>2, <1>3, <1>4, PaneParts, Touched
<1>9. \A d \in Sockets : d # c => SocketNext(d)
  BY <1>1, <1>3, <1>4, Untouched
<1> QED BY <1>5, <1>7, <1>8, <1>9, PaneInvNext

(* The page is left: the socket closes on the client's side. *)
LEMMA StepUnmount == PaneInv /\ Unmount => PaneInv'
<1> SUFFICES ASSUME PaneInv, Unmount PROVE PaneInv'
  OBVIOUS
<1>1. /\ pane' = [pane EXCEPT !.mounted = FALSE, !.sock = NoSocket, !.step = "none"]
      /\ conn' = [d \in Sockets |-> IF d = pane.sock THEN ClosedBy(conn[d]) ELSE conn[d]]
      /\ xterm' = xterm /\ term' = term /\ count' = count
  BY DEF Unmount
<1>2. pane' \in Panes /\ pane'.sock = NoSocket /\ pane'.opened = pane.opened /\ pane'.step = "none"
  <2>1. NoSocket \in 0..MaxSockets
    BY TerminalPaneAssumption DEF NoSocket
  <2> QED BY <1>1, <2>1, PaneParts DEF Panes
<1>3. \A d \in Sockets : conn'[d] \in Ends /\ (d = pane.sock => conn'[d] = ClosedBy(conn[d])) /\ (d # pane.sock => conn'[d] = conn[d])
  BY <1>1, PaneParts, ClosedByIs
<1>4. conn' \in [Sockets -> Ends]
  BY <1>1, <1>3
<1>5. PaneTypes' /\ PaneOK(pane')
  <2>1. NoSocket <= pane.opened
    BY PaneParts DEF Panes, NoSocket
  <2> QED BY <1>1, <1>2, <1>4, <2>1, PaneParts DEF PaneTypes, PaneOK
<1>6. ASSUME NEW d \in Sockets
      PROVE  SocketNext(d)
  <2>1. CASE d = pane.sock
    <3>1. conn'[d] = ClosedBy(conn[d]) /\ conn[d] \in Ends
      BY <1>3, <2>1, PaneParts
    <3>2. ~InUse(conn'[d]) /\ conn'[d].pending = conn[d].pending /\ conn'[d].route = conn[d].route
          /\ conn'[d].gone = conn[d].gone
      BY <3>1, ClosedByIs
    <3> QED BY <1>1, <2>1, <3>2, Touched, PaneParts
  <2>2. CASE d # pane.sock
    <3>1. ~InUse(conn[d]) /\ conn'[d] = conn[d]
      BY <1>3, <2>2, PaneParts
    <3> QED BY <1>1, <3>1, Untouched
  <2> QED BY <2>1, <2>2
<1> QED BY <1>2, <1>5, <1>6, PaneInvNext

-----------------------------------------------------------------------------
(* The pane's steps. *)

(* A message that is read is drawn: what the pane will show stays the same. *)
LEMMA StepReceive == ASSUME PaneInv, NEW c \in Sockets, Receive(c) PROVE PaneInv'
<1> DEFINE m == Head(conn[c].out)
           k == [conn[c] EXCEPT !.out = Tail(@)]
<1>1. /\ conn[c].client = "open" /\ conn[c].out # <<>> /\ m # Close
      /\ xterm' = IF c = pane.sock THEN Drawn(xterm, m) ELSE xterm
      /\ pane' = IF c = pane.sock THEN [pane EXCEPT !.status = Known(@, m)] ELSE pane
      /\ conn' = [conn EXCEPT ![c] = k]
      /\ term' = term /\ count' = count
  BY DEF Receive
<1>2. c = pane.sock /\ conn[c] # Fresh /\ InUse(conn[c]) /\ \A d \in Sockets : d # c => ~InUse(conn[d])
  <2>1. InUse(conn[c])
    BY <1>1 DEF InUse
  <2> QED BY <1>1, <2>1, PaneParts, NotFresh
<1>3. conn[c] \in Ends /\ conn[c].out \in Seq(Messages) /\ m \in Messages /\ Tail(conn[c].out) \in Seq(Messages)
  <2>1. conn[c] \in Ends
    BY PaneParts
  <2>2. conn[c].out \in Seq(Messages)
    BY <2>1 DEF Ends
  <2> QED BY <1>1, <2>1, <2>2
<1>4. k \in Ends /\ k.out = Tail(conn[c].out) /\ k.pending = conn[c].pending /\ k.route = conn[c].route
      /\ k.gone = conn[c].gone
      /\ k.client = conn[c].client
  BY <1>3 DEF Ends
<1> HIDE DEF k
<1>5. conn' \in [Sockets -> Ends] /\ conn'[c] = k /\ \A d \in Sockets : d # c => conn'[d] = conn[d]
  BY <1>1, <1>4, PaneParts
<1>6. xterm' \in XTerms /\ Ahead(xterm') = SeenIn(Ahead(xterm), m)
  BY <1>1, <1>2, <1>3, AheadDrawn, PaneParts
<1>7. Known(pane.status, m) \in Statuses \cup {"none"}
  <2>1. pane.status \in Statuses \cup {"none"}
    BY PaneParts DEF Panes
  <2>2. m.type \in {"hello", "state"} => m.status \in Statuses
    BY <1>3, MessageIs
  <2> QED BY <2>1, <2>2 DEF Known
<1>8. /\ pane' \in Panes /\ pane'.sock = pane.sock /\ pane'.opened = pane.opened /\ pane'.mounted = pane.mounted
      /\ pane'.step = pane.step /\ pane'.status = Known(pane.status, m)
  <2> DEFINE s == Known(pane.status, m)
  <2>1. pane' = [pane EXCEPT !.status = s] /\ s \in Statuses \cup {"none"}
    BY <1>1, <1>2, <1>7
  <2> HIDE DEF s
  <2>2. /\ pane' \in Panes /\ pane'.sock = pane.sock /\ pane'.opened = pane.opened /\ pane'.mounted = pane.mounted
        /\ pane'.step = pane.step /\ pane'.status = s
    BY <2>1, PaneParts DEF Panes
  <2> QED BY <2>2 DEF s
<1>9. PaneTypes' /\ PaneOK(pane')
  BY <1>1, <1>5, <1>6, <1>8, PaneParts DEF PaneTypes, PaneOK
<1>10. Follows(conn'[c], c, pane', xterm', term')
  <2> SUFFICES ASSUME ~Contains(k.out, Close)
               PROVE  /\ c \in term.listeners => /\ Sn!Fold(Ahead(xterm'), k.out) = term.text
                                                 /\ Knw!Fold(pane'.status, k.out) = term.status
                      /\ k.route \in {"verifying", "attaching"} => k.out = <<>>
    BY <1>1, <1>5 DEF Follows
  <2> DEFINE q == conn[c].out
  <2>1. ~Contains(q, Close)
    <3>1. \A i \in 1..Len(Tail(q)) : Tail(q)[i] # Close
      BY <1>4 DEF Contains
    <3>2. ASSUME NEW i \in 1..Len(q), q[i] = Close
          PROVE  FALSE
      <4>1. i # 1
        BY <1>1, <3>2
      <4>2. i - 1 \in 1..Len(Tail(q)) /\ Tail(q)[i - 1] = q[i]
        BY <1>1, <1>3, <4>1
      <4> QED BY <3>1, <3>2, <4>2
    <3> QED BY <3>2 DEF Contains
  <2>2. /\ c \in term.listeners => /\ Sn!Fold(Ahead(xterm), q) = term.text /\ Knw!Fold(pane.status, q) = term.status
        /\ conn[c].route \in {"verifying", "attaching"} => q = <<>>
    BY <1>2, <2>1 DEF Follows, PaneInv
  <2>3. Sn!Fold(SeenIn(Ahead(xterm), m), Tail(q)) = Sn!Fold(Ahead(xterm), q)
    BY <1>1, <1>3, Sn!AfterTail
  <2>4. Knw!Fold(Known(pane.status, m), Tail(q)) = Knw!Fold(pane.status, q)
    BY <1>1, <1>3, Knw!AfterTail
  <2> QED BY <1>1, <1>4, <1>6, <1>8, <2>2, <2>3, <2>4
<1>11. SocketNext(c)
  BY <1>1, <1>2, <1>4, <1>5, <1>8, <1>10, PaneParts DEF SocketNext, InUse
<1>12. \A d \in Sockets : d # c => SocketNext(d)
  <2> SUFFICES ASSUME NEW d \in Sockets, d # c PROVE SocketNext(d)
    OBVIOUS
  <2>1. ~InUse(conn[d]) /\ conn'[d] = conn[d]
    BY <1>2, <1>5
  <2> QED BY <1>1, <2>1, PaneParts DEF SocketNext, Follows
<1> QED BY <1>8, <1>9, <1>11, <1>12, PaneInvNext

(* send(): only the current socket, and only what the client says. *)
LEMMA SentKeeps ==
  ASSUME PaneInv, NEW what \in {"start", "stop"}, conn' = conn \/ conn' = Sent(what),
         pane' = pane, term' = term, Ahead(xterm') = Ahead(xterm), xterm' \in XTerms,
         count' \in [prints : Nat, presses : Nat, faults : Nat, refused : BOOLEAN]
  PROVE  PaneInv'
<1>1. CASE conn' = conn
  <2>1. PaneTypes' /\ PaneOK(pane')
    BY <1>1, PaneParts DEF PaneTypes, PaneOK
  <2>2. \A d \in Sockets : SocketNext(d)
    BY <1>1, Untouched
  <2> QED BY <2>1, <2>2, PaneInvNext
<1>2. CASE conn' = Sent(what)
  <2>1. ASSUME NEW d \in Sockets
        PROVE  conn'[d] \in Ends /\ SocketNext(d)
    <3> DEFINE k == [conn[d] EXCEPT !.inbox = Append(@, Ask(what))]
    <3>1. CASE conn'[d] = conn[d]
      BY <3>1, PaneParts, Untouched
    <3>2. CASE conn'[d] # conn[d]
      <4>1. conn'[d] = k /\ conn[d].client = "open" /\ conn[d] \in Ends /\ Ask(what) \in Asked
        BY <1>2, <3>2, PaneParts DEF Sent, Asked
      <4>2. k \in Ends /\ k.out = conn[d].out /\ k.pending = conn[d].pending /\ k.route = conn[d].route
            /\ k.gone = conn[d].gone /\ k.client = conn[d].client
        <5>1. conn[d].inbox \in Seq(Asked)
          BY <4>1 DEF Ends
        <5>2. Append(conn[d].inbox, Ask(what)) \in Seq(Asked)
          BY <4>1, <5>1
        <5> QED BY <4>1, <5>2 DEF Ends
      <4> HIDE DEF k
      <4>3. conn[d] # Fresh /\ InUse(conn[d])
        BY <4>1, NotFresh DEF InUse
      <4>4. SocketNext(d)
        BY <4>1, <4>2, <4>3, PaneParts, Touched
      <4> QED BY <4>1, <4>2, <4>4
    <3> QED BY <3>1, <3>2
  <2>2. conn' \in [Sockets -> Ends]
    <3>1. conn' = [d \in Sockets |-> conn'[d]]
      BY <1>2 DEF Sent
    <3> QED BY <2>1, <3>1
  <2>3. PaneTypes' /\ PaneOK(pane')
    BY <2>2, PaneParts DEF PaneTypes, PaneOK
  <2> QED BY <2>1, <2>3, PaneInvNext
<1> QED BY <1>1, <1>2

LEMMA StepParses == PaneInv /\ Parses => PaneInv'
<1> SUFFICES ASSUME PaneInv, Parses PROVE PaneInv'
  OBVIOUS
<1> DEFINE i == Head(xterm.queue)
<1>1. /\ xterm.queue # <<>>
      /\ xterm' = [text |-> Parsed(xterm.text, i), queue |-> Tail(xterm.queue)]
      /\ conn' = conn \/ conn' = Sent("start")
      /\ pane' = pane /\ term' = term /\ count' = count
  BY DEF Parses
<1>2. xterm.text \in Texts /\ xterm.queue \in Seq(Items)
  BY PaneParts DEF XTerms
<1>3. i \in Items /\ Tail(xterm.queue) \in Seq(Items)
  BY <1>1, <1>2
<1>4. Parsed(xterm.text, i) \in Texts
  BY <1>2, <1>3, ParsedTyped DEF Prs!Closed
<1>5. xterm' \in XTerms
  BY <1>1, <1>3, <1>4 DEF XTerms
<1>6. Prs!Fold(Parsed(xterm.text, i), Tail(xterm.queue)) = Prs!Fold(xterm.text, xterm.queue)
  BY <1>1, <1>2, Prs!AfterTail
<1>7. Ahead(xterm') = Ahead(xterm)
  BY <1>1, <1>6 DEF Ahead
<1> QED BY <1>1, <1>5, <1>7, SentKeeps, PaneParts

LEMMA StepClick == PaneInv /\ Click => PaneInv'
<1> SUFFICES ASSUME PaneInv, Click PROVE PaneInv'
  OBVIOUS
<1>1. /\ conn' = Sent("start") \/ conn' = Sent("stop")
      /\ pane' = pane /\ term' = term /\ xterm' = xterm /\ Pressed
  BY DEF Click
<1>2. count' \in [prints : Nat, presses : Nat, faults : Nat, refused : BOOLEAN]
  BY <1>1, PaneParts, CountsStay
<1> QED BY <1>1, <1>2, SentKeeps, PaneParts

-----------------------------------------------------------------------------
(* The route's steps. *)

LEMMA CollectedIs ==
  ASSUME NEW t \in Terminals, NEW k
  PROVE  /\ Collected(t, k) \in Terminals /\ Collected(t, k).listeners = t.listeners
         /\ t.listeners # {} => Collected(t, k) = t
<1>1. CASE Collected(t, k) = t
  BY <1>1
<1>2. CASE Collected(t, k) # t
  <2>1. Collected(t, k) = [NoTerminal EXCEPT !.asked = t.asked] /\ t.listeners = {}
    BY <1>2 DEF Collected
  <2>2. [NoTerminal EXCEPT !.asked = t.asked] = [status |-> "idle", text |-> <<>>, listeners |-> {}, asked |-> t.asked]
    <3>1. \A s, e, l, n : [[status |-> s, text |-> e, listeners |-> l, asked |-> 0] EXCEPT !.asked = n]
                          = [status |-> s, text |-> e, listeners |-> l, asked |-> n]
      OBVIOUS
    <3> DEFINE e == <<>>
               l == {}
               n == t.asked
    <3>2. NoTerminal = [status |-> "idle", text |-> e, listeners |-> l, asked |-> 0]
      BY DEF NoTerminal
    <3>3. [NoTerminal EXCEPT !.asked = n] = [status |-> "idle", text |-> e, listeners |-> l, asked |-> n]
      <4> HIDE DEF e, l, n
      <4> QED BY <3>1, <3>2
    <3> QED BY <3>3
  <2>3. [status |-> "idle", text |-> <<>>, listeners |-> {}, asked |-> t.asked] \in Terminals
    BY DEF Terminals, Texts, Statuses
  <2> QED BY <2>1, <2>2, <2>3
<1> QED BY <1>1, <1>2

(* One socket and the terminal change, and what is on its way to the client does
   not, unless it is a close. *)
LEMMA RouteNext ==
  ASSUME PaneInv, NEW c \in Sockets, NEW k \in Ends, conn' = [conn EXCEPT ![c] = k], conn[c] # Fresh,
         k.out = conn[c].out \/ (InUse(k) => Contains(k.out, Close)),
         k.client = conn[c].client, Len(k.pending) <= MaxPending,
         k.route \in {"verifying", "attaching"} => conn[c].route \in {"verifying", "attaching"},
         pane' = pane, xterm' = xterm,
         count' \in [prints : Nat, presses : Nat, faults : Nat, refused : BOOLEAN],
         term' \in Terminals, term'.listeners \subseteq term.listeners,
         c \in term'.listeners => k.route = "live" /\ ~k.gone,
         term'.listeners # {} => term'.text = term.text /\ term'.status = term.status
  PROVE  PaneInv'
<1>1. conn' \in [Sockets -> Ends] /\ conn'[c] = k /\ \A d \in Sockets : d # c => conn'[d] = conn[d]
  BY PaneParts
<1>2. PaneTypes' /\ PaneOK(pane')
  BY <1>1, PaneParts DEF PaneTypes, PaneOK
<1>3. SocketNext(c)
  <2>1. InUse(k) => InUse(conn[c]) /\ (k.out = conn[c].out \/ Contains(k.out, Close))
    BY DEF InUse
  <2>2. c \in term'.listeners => c \in term.listeners /\ term'.text = term.text /\ term'.status = term.status
    OBVIOUS
  <2> QED BY <1>1, <2>1, <2>2, Touched
<1>4. ASSUME NEW d \in Sockets, d # c
      PROVE  SocketNext(d)
  <2>1. d \in term'.listeners => d \in term.listeners /\ term'.text = term.text /\ term'.status = term.status
    OBVIOUS
  <2> QED BY <1>1, <1>4, <2>1, Untouched
<1> QED BY <1>2, <1>3, <1>4, PaneInvNext

LEMMA StepFromClient == ASSUME PaneInv, NEW c \in Sockets, FromClient(c) PROVE PaneInv'
<1> DEFINE m == Head(conn[c].inbox)
           k == [conn[c] EXCEPT !.inbox = Tail(@)]
<1>1. conn[c].inbox # <<>> /\ conn[c] \in Ends /\ pane' = pane /\ xterm' = xterm
  BY PaneParts DEF FromClient
<1>2. conn[c].inbox \in Seq(Asked) /\ m \in Asked /\ Tail(conn[c].inbox) \in Seq(Asked)
  <2>1. conn[c].inbox \in Seq(Asked)
    BY <1>1 DEF Ends
  <2> QED BY <1>1, <2>1
<1>3. k \in Ends /\ k.out = conn[c].out /\ k.pending = conn[c].pending /\ k.route = conn[c].route
      /\ k.gone = conn[c].gone
      /\ k.client = conn[c].client
  BY <1>1, <1>2 DEF Ends
<1>4. conn[c] # Fresh
  BY <1>1, NotFresh
<1>5. /\ m = Close => /\ conn' = [conn EXCEPT ![c] = [k EXCEPT !.gone = TRUE]]
                      /\ term' = Collected([term EXCEPT !.listeners = @ \ {c}], conn')
                      /\ count' = count
      /\ m # Close /\ k.route = "live" =>
           conn' = [conn EXCEPT ![c] = k] /\ term' = Handled(term, m) /\ count' = count
      /\ m # Close /\ k.route \in {"verifying", "attaching"} =>
           /\ IF Len(k.pending) < MaxPending
              THEN conn' = [conn EXCEPT ![c] = [k EXCEPT !.pending = Append(@, m)]] /\ count' = count
              ELSE /\ conn' = [conn EXCEPT ![c] = [ToClient(k, Close) EXCEPT !.pending = <<>>]]
                   /\ count' = [count EXCEPT !.refused = TRUE]
           /\ term' = term
      /\ m # Close /\ k.route \notin {"live", "verifying", "attaching"} =>
           conn' = [conn EXCEPT ![c] = k] /\ term' = term /\ count' = count
  BY DEF FromClient
<1> HIDE DEF k, m
<1>6. CASE m = Close
  <2> DEFINE j == [k EXCEPT !.gone = TRUE]
             t == [term EXCEPT !.listeners = @ \ {c}]
  <2>1. j \in Ends /\ j.out = k.out /\ j.client = k.client /\ j.pending = k.pending /\ j.route = k.route
    BY <1>3 DEF Ends
  <2>2. t \in Terminals /\ t.listeners = term.listeners \ {c} /\ t.text = term.text /\ t.status = term.status
    BY PaneParts DEF Terminals
  <2> HIDE DEF j, t
  <2>3. conn' = [conn EXCEPT ![c] = j] /\ term' = Collected(t, conn') /\ count' = count
    BY <1>5, <1>6 DEF j, t
  <2>4. term' \in Terminals /\ term'.listeners = t.listeners /\ (t.listeners # {} => term' = t)
    BY <2>2, <2>3, CollectedIs
  <2>5. term'.listeners \subseteq term.listeners /\ c \notin term'.listeners
        /\ (term'.listeners # {} => term'.text = term.text /\ term'.status = term.status)
    BY <2>2, <2>4
  <2>6. Len(j.pending) <= MaxPending
    BY <1>3, <2>1, PaneParts
  <2> QED BY <1>1, <1>3, <1>4, <2>1, <2>3, <2>4, <2>5, <2>6, RouteNext, PaneParts
<1>7. CASE m # Close /\ k.route = "live"
  <2>1. /\ term' \in Terminals /\ term'.listeners = term.listeners /\ term'.text = term.text
        /\ term'.status = term.status
    BY <1>2, <1>5, <1>7, HandledIs, PaneParts
  <2>2. c \in term'.listeners => k.route = "live" /\ ~k.gone
    BY <1>3, <2>1, PaneParts
  <2> QED BY <1>1, <1>3, <1>4, <1>5, <1>7, <2>1, <2>2, RouteNext, PaneParts
<1>8. CASE m # Close /\ k.route \in {"verifying", "attaching"} /\ Len(k.pending) < MaxPending
  <2> DEFINE j == [k EXCEPT !.pending = Append(@, m)]
  <2>1. k.pending \in Seq(Asked)
    BY <1>3 DEF Ends
  <2>2. Append(k.pending, m) \in Seq(Asked) /\ Len(Append(k.pending, m)) = Len(k.pending) + 1
    BY <1>2, <2>1
  <2>3. j \in Ends /\ j.out = k.out /\ j.client = k.client /\ j.pending = Append(k.pending, m)
        /\ j.route = k.route
        /\ j.gone = k.gone
    BY <1>3, <2>2 DEF Ends
  <2>4. conn' = [conn EXCEPT ![c] = j] /\ term' = term /\ count' = count
    BY <1>5, <1>8
  <2>5. Len(j.pending) <= MaxPending
    BY <1>8, <2>1, <2>2, <2>3, TerminalPaneAssumption
  <2> HIDE DEF j
  <2> QED BY <1>1, <1>3, <1>4, <2>3, <2>4, <2>5, RouteNext, PaneParts
<1>9. CASE m # Close /\ k.route \in {"verifying", "attaching"} /\ ~(Len(k.pending) < MaxPending)
  <2> DEFINE i == ToClient(k, Close)
             j == [i EXCEPT !.pending = <<>>]
  <2>1. Close \in Messages
    BY DEF Messages
  <2>2. i \in Ends /\ i = [k EXCEPT !.out = i.out] /\ (InUse(k) => Contains(i.out, Close))
    BY <1>3, <2>1, ToClientIs
  <2>3. conn' = [conn EXCEPT ![c] = j] /\ term' = term /\ count' = [count EXCEPT !.refused = TRUE]
    BY <1>5, <1>9
  <2> HIDE DEF i
  <2>4. i.client = k.client /\ i.route = k.route /\ i.gone = k.gone
    BY <1>3, <2>2 DEF Ends
  <2>5. j \in Ends /\ j.out = i.out /\ j.client = i.client /\ j.pending = <<>> /\ j.route = i.route
        /\ j.gone = i.gone
    <3>1. <<>> \in Seq(Asked)
      OBVIOUS
    <3> QED BY <2>2, <3>1 DEF Ends
  <2> HIDE DEF j
  <2>6. Len(j.pending) <= MaxPending
    BY <2>5, TerminalPaneAssumption
  <2>7. count' \in [prints : Nat, presses : Nat, faults : Nat, refused : BOOLEAN]
    BY <2>3, PaneParts
  <2>8. InUse(j) => Contains(j.out, Close)
    BY <2>2, <2>4, <2>5 DEF InUse
  <2>9. c \notin term'.listeners /\ term' = term
    BY <1>3, <1>9, <2>3, PaneParts
  <2>10. j.client = conn[c].client /\ conn[c].route \in {"verifying", "attaching"}
    BY <1>3, <1>9, <2>4, <2>5
  <2> QED BY <1>1, <1>4, <2>3, <2>5, <2>6, <2>7, <2>8, <2>9, <2>10, RouteNext, PaneParts
<1>10. CASE m # Close /\ k.route \notin {"live", "verifying", "attaching"}
  BY <1>1, <1>3, <1>4, <1>5, <1>10, RouteNext, PaneParts
<1> QED BY <1>6, <1>7, <1>8, <1>9, <1>10

LEMMA StepVerified == ASSUME PaneInv, NEW c \in Sockets, Verified(c) PROVE PaneInv'
<1> DEFINE r == IF conn[c].gone THEN "over" ELSE "attaching"
           k == [conn[c] EXCEPT !.route = r]
<1>1. /\ conn[c].route = "verifying" /\ conn' = [conn EXCEPT ![c] = k]
      /\ pane' = pane /\ xterm' = xterm /\ term' = term /\ count' = count
  BY DEF Verified
<1>2. r \in {"over", "attaching"} /\ conn[c] \in Ends
  BY PaneParts
<1> HIDE DEF r
<1>3. k \in Ends /\ k.out = conn[c].out /\ k.pending = conn[c].pending /\ k.client = conn[c].client
  BY <1>2 DEF Ends
<1>4. conn[c] # Fresh /\ c \notin term'.listeners
  BY <1>1, NotFresh, PaneParts
<1> HIDE DEF k
<1> QED BY <1>1, <1>3, <1>4, RouteNext, PaneParts

LEMMA StepRejected == ASSUME PaneInv, NEW c \in Sockets, Rejected(c) PROVE PaneInv'
<1> DEFINE i == ToClient(conn[c], Close)
           k == [i EXCEPT !.route = "over"]
<1>1. /\ conn[c].route = "verifying" /\ conn' = [conn EXCEPT ![c] = k] /\ Fault
      /\ pane' = pane /\ xterm' = xterm /\ term' = term
  BY DEF Rejected
<1>2. Close \in Messages /\ conn[c] \in Ends
  BY PaneParts DEF Messages
<1>3. i \in Ends /\ i = [conn[c] EXCEPT !.out = i.out] /\ (InUse(conn[c]) => Contains(i.out, Close))
  BY <1>2, ToClientIs
<1> HIDE DEF i
<1>4. i.client = conn[c].client /\ i.pending = conn[c].pending
  BY <1>2, <1>3 DEF Ends
<1>5. k \in Ends /\ k.out = i.out /\ k.client = i.client /\ k.pending = i.pending /\ k.route = "over"
  BY <1>3 DEF Ends
<1> HIDE DEF k
<1>6. count' \in [prints : Nat, presses : Nat, faults : Nat, refused : BOOLEAN]
  BY <1>1, CountsStay, PaneParts
<1>7. conn[c] # Fresh /\ c \notin term'.listeners /\ (InUse(k) => Contains(k.out, Close)) /\ Len(k.pending) <= MaxPending
  BY <1>1, <1>3, <1>4, <1>5, NotFresh, PaneParts DEF InUse
<1>8. k.client = conn[c].client /\ k.route \notin {"verifying", "attaching"}
  BY <1>4, <1>5
<1> QED BY <1>1, <1>5, <1>6, <1>7, <1>8, RouteNext, PaneParts

LEMMA StepBreaks == ASSUME PaneInv, NEW c \in Sockets, Breaks(c) PROVE PaneInv'
<1>1. PICK i \in Truncated(conn[c].inbox), o \in Truncated(conn[c].out) : conn' = [conn EXCEPT ![c].inbox = i, ![c].out = o]
  BY DEF Breaks
<1>2. conn[c].client = "open" /\ Fault /\ pane' = pane /\ xterm' = xterm /\ term' = term /\ conn[c] \in Ends
  BY PaneParts DEF Breaks
<1>3. conn[c].inbox \in Seq(Asked) /\ conn[c].out \in Seq(Messages) /\ Close \in Asked /\ Close \in Messages
  BY <1>2 DEF Ends, Asked, Messages
<1>4. i \in Seq(Asked)
  <2>1. <<Close>> \in Seq(Asked) /\ conn[c].inbox \o <<Close>> \in Seq(Asked)
    BY <1>3
  <2> QED BY <1>1, <2>1 DEF Truncated
<1>5. o \in Seq(Messages) /\ Contains(o, Close)
  <2>1. CASE o = <<Close>>
    BY <1>3, <2>1 DEF Contains
  <2>2. CASE o = conn[c].out \o <<Close>>
    <3>1. o \in Seq(Messages) /\ Len(o) \in 1..Len(o) /\ o[Len(o)] = Close
      BY <1>3, <2>2
    <3> QED BY <3>1 DEF Contains
  <2> QED BY <1>1, <2>1, <2>2 DEF Truncated
<1> DEFINE k == [conn[c] EXCEPT !.inbox = i, !.out = o]
<1>6. k \in Ends /\ k.out = o /\ k.client = conn[c].client /\ k.route = conn[c].route /\ k.gone = conn[c].gone
      /\ k.pending = conn[c].pending
  BY <1>2, <1>4, <1>5 DEF Ends
<1>7. conn' = [conn EXCEPT ![c] = k]
  BY <1>1, PaneParts
<1> HIDE DEF k
<1>8. count' \in [prints : Nat, presses : Nat, faults : Nat, refused : BOOLEAN]
  BY <1>2, CountsStay, PaneParts
<1>9. conn[c] # Fresh
  BY <1>2, NotFresh
<1> QED BY <1>2, <1>5, <1>6, <1>7, <1>8, <1>9, RouteNext, PaneParts

(* The snapshot and what follows it: nothing was on its way to this client, and
   from now on it is told. *)
LEMMA StepAttached == ASSUME PaneInv, NEW c \in Sockets, Attached(c) PROVE PaneInv'
<1>1. conn[c].route = "attaching" /\ pane' = pane /\ xterm' = xterm /\ count' = count /\ conn[c] \in Ends
  BY PaneParts DEF Attached
<1>2. conn[c] # Fresh /\ c \notin term.listeners
  BY <1>1, NotFresh, PaneParts
<1>3. CASE conn[c].gone
  <2> DEFINE k == [conn[c] EXCEPT !.route = "over"]
  <2>1. conn' = [conn EXCEPT ![c] = k] /\ term' = Collected(term, conn')
    BY <1>3 DEF Attached
  <2>2. k \in Ends /\ k.out = conn[c].out /\ k.pending = conn[c].pending /\ k.client = conn[c].client
        /\ k.route = "over"
    BY <1>1 DEF Ends
  <2> HIDE DEF k
  <2>3. term' \in Terminals /\ term'.listeners = term.listeners /\ (term.listeners # {} => term' = term)
    BY <2>1, CollectedIs, PaneParts
  <2>4. Len(k.pending) <= MaxPending /\ c \notin term'.listeners
    BY <1>2, <2>2, <2>3, PaneParts
  <2> QED BY <1>1, <1>2, <2>1, <2>2, <2>3, <2>4, RouteNext, PaneParts
<1>4. CASE ~conn[c].gone
  <2> DEFINE m == Hello(term)
             i == ToClient(conn[c], m)
             k == [i EXCEPT !.route = "live", !.pending = <<>>]
             u == FoldLeft(Handled, term, conn[c].pending)
  <2>1. conn' = [conn EXCEPT ![c] = k] /\ term' = [u EXCEPT !.listeners = @ \cup {c}]
    BY <1>4 DEF Attached
  <2>2. term.text \in Texts /\ term.status \in Statuses /\ term \in Terminals
    BY PaneParts DEF Terminals
  <2>3. m \in Messages /\ m.type = "hello" /\ m.text = term.text /\ m.status = term.status
    BY <2>2 DEF Hello, Messages
  <2>4. u \in Terminals /\ u.status = term.status /\ u.text = term.text /\ u.listeners = term.listeners
    <3>1. conn[c].pending \in Seq(Asked)
      BY <1>1 DEF Ends
    <3> QED BY <2>2, <3>1, HandledAll
  <2> HIDE DEF u
  <2>5. term' \in Terminals /\ term'.listeners = term.listeners \cup {c} /\ term'.text = term.text
        /\ term'.status = term.status
    BY <2>1, <2>4 DEF Terminals
  <2> HIDE DEF m
  <2>6. /\ i \in Ends /\ i = [conn[c] EXCEPT !.out = i.out]
        /\ InUse(conn[c]) /\ ~Contains(i.out, Close) => ~Contains(conn[c].out, Close) /\ i.out = Append(conn[c].out, m)
    BY <1>1, <2>3, ToClientIs
  <2> HIDE DEF i
  <2>7. i.client = conn[c].client /\ i.gone = conn[c].gone
    BY <1>1, <2>6 DEF Ends
  <2>8. k \in Ends /\ k.out = i.out /\ k.client = i.client /\ k.pending = <<>> /\ k.route = "live"
        /\ k.gone = i.gone
    <3>1. <<>> \in Seq(Asked)
      OBVIOUS
    <3> QED BY <2>6, <3>1 DEF Ends
  <2> HIDE DEF k
  <2>9. conn' \in [Sockets -> Ends] /\ conn'[c] = k /\ \A d \in Sockets : d # c => conn'[d] = conn[d]
    BY <2>1, <2>8, PaneParts
  <2>10. PaneTypes' /\ PaneOK(pane')
    BY <1>1, <2>5, <2>9, PaneParts DEF PaneTypes, PaneOK
  <2>11. Follows(k, c, pane, xterm, term')
    <3> SUFFICES ASSUME InUse(k), ~Contains(k.out, Close)
                 PROVE  Sn!Fold(Ahead(xterm), k.out) = term.text /\ Knw!Fold(pane.status, k.out) = term.status
      BY <2>5, <2>8 DEF Follows
    <3>1. InUse(conn[c]) /\ ~Contains(conn[c].out, Close) /\ k.out = Append(conn[c].out, m)
      BY <2>6, <2>7, <2>8 DEF InUse
    <3>2. conn[c].out = <<>>
      BY <1>1, <3>1 DEF PaneInv, Follows
    <3>3. <<>> \in Seq(Messages)
      OBVIOUS
    <3>4. Sn!Fold(Ahead(xterm), Append(<<>>, m)) = SeenIn(Sn!Fold(Ahead(xterm), <<>>), m)
      BY <2>3, <3>3, Sn!AfterAppend
    <3>5. Knw!Fold(pane.status, Append(<<>>, m)) = Known(Knw!Fold(pane.status, <<>>), m)
      BY <2>3, <3>3, Knw!AfterAppend, ZenonT(60)
    <3>6. \A s : SeenIn(s, m) = term.text /\ Known(s, m) = term.status
      BY <2>3 DEF SeenIn, Known
    <3> QED BY <3>1, <3>2, <3>4, <3>5, <3>6
  <2>12. SocketNext(c)
    <3>1. Len(k.pending) <= MaxPending
      BY <2>8, TerminalPaneAssumption
    <3>2. InUse(k) => InUse(conn[c])
      BY <2>7, <2>8 DEF InUse
    <3> QED BY <1>1, <1>2, <1>4, <2>7, <2>8, <2>9, <2>11, <3>1, <3>2 DEF SocketNext
  <2>13. ASSUME NEW d \in Sockets, d # c
         PROVE  SocketNext(d)
    BY <1>1, <2>5, <2>9, <2>13, Untouched
  <2> QED BY <1>1, <2>10, <2>12, <2>13, PaneInvNext
<1> QED BY <1>3, <1>4

-----------------------------------------------------------------------------
(* The terminal's steps. *)

(* One message more, and the same change at the terminal. *)
LEMMA FollowsOne ==
  ASSUME NEW k \in Ends, NEW m \in Messages, NEW c, NEW p, NEW x, NEW t, NEW u, Follows(k, c, p, x, t),
         c \in t.listeners, k.route = "live", u.text = SeenIn(t.text, m), u.status = Known(t.status, m)
  PROVE  Follows(ToClient(k, m), c, p, x, u)
<1> DEFINE j == ToClient(k, m)
<1>1. /\ j \in Ends /\ j = [k EXCEPT !.out = j.out]
      /\ InUse(k) /\ ~Contains(j.out, Close) => ~Contains(k.out, Close) /\ j.out = Append(k.out, m)
  BY ToClientIs
<1> HIDE DEF j
<1>2. j.client = k.client /\ j.route = "live" /\ k.out \in Seq(Messages)
  BY <1>1 DEF Ends
<1>3. Follows(j, c, p, x, u)
  <2> SUFFICES ASSUME InUse(j), ~Contains(j.out, Close)
               PROVE  Sn!Fold(Ahead(x), j.out) = u.text /\ Knw!Fold(p.status, j.out) = u.status
    BY <1>2 DEF Follows
  <2>1. InUse(k) /\ ~Contains(k.out, Close) /\ j.out = Append(k.out, m)
    BY <1>1, <1>2 DEF InUse
  <2>2. Sn!Fold(Ahead(x), k.out) = t.text /\ Knw!Fold(p.status, k.out) = t.status
    BY <2>1 DEF Follows
  <2>3. Sn!Fold(Ahead(x), Append(k.out, m)) = SeenIn(Sn!Fold(Ahead(x), k.out), m)
    BY <1>2, Sn!AfterAppend
  <2>4. Knw!Fold(p.status, Append(k.out, m)) = Known(Knw!Fold(p.status, k.out), m)
    BY <1>2, Knw!AfterAppend
  <2> QED BY <2>1, <2>2, <2>3, <2>4
<1> QED BY <1>3 DEF j

(* Those who listen follow, and nobody else is told. *)
LEMMA ToldNext ==
  ASSUME PaneInv, pane' = pane, xterm' = xterm, term' \in Terminals, term'.listeners = term.listeners,
         count' \in [prints : Nat, presses : Nat, faults : Nat, refused : BOOLEAN],
         conn' = [d \in Sockets |-> conn'[d]],
         \A d \in Sockets :
           /\ d \notin term.listeners => conn'[d] = conn[d]
           /\ d \in term.listeners => /\ conn'[d] \in Ends /\ conn'[d] = [conn[d] EXCEPT !.out = conn'[d].out]
                                      /\ Follows(conn'[d], d, pane, xterm, term')
  PROVE  PaneInv'
<1>1. \A d \in Sockets : conn'[d] \in Ends
  BY PaneParts
<1>2. conn' \in [Sockets -> Ends]
  BY <1>1
<1>3. PaneTypes' /\ PaneOK(pane')
  BY <1>2, PaneParts DEF PaneTypes, PaneOK
<1>4. ASSUME NEW d \in Sockets
      PROVE  SocketNext(d)
  <2>1. CASE d \in term.listeners
    <3>1. conn[d] \in Ends /\ conn[d].route = "live" /\ ~conn[d].gone /\ Len(conn[d].pending) <= MaxPending
      BY <2>1, PaneParts
    <3>2. /\ conn'[d].client = conn[d].client /\ conn'[d].route = conn[d].route /\ conn'[d].gone = conn[d].gone
          /\ conn'[d].pending = conn[d].pending
      BY <2>1, <3>1, ZenonT(60) DEF Ends
    <3>3. conn[d] # Fresh
      BY <3>1, NotFresh
    <3> QED BY <2>1, <3>1, <3>2, <3>3 DEF SocketNext, InUse
  <2>2. CASE d \notin term.listeners
    BY <2>2, Untouched
  <2> QED BY <2>1, <2>2
<1> QED BY <1>3, <1>4, PaneInvNext

LEMMA ToldOneNext ==
  ASSUME PaneInv, NEW m \in Messages, conn' = Told(conn, <<m>>), pane' = pane, xterm' = xterm,
         term' \in Terminals, term'.listeners = term.listeners,
         term.listeners # {} => term'.text = SeenIn(term.text, m) /\ term'.status = Known(term.status, m),
         count' \in [prints : Nat, presses : Nat, faults : Nat, refused : BOOLEAN]
  PROVE  PaneInv'
<1>1. conn' = [d \in Sockets |-> conn'[d]]
  BY DEF Told
<1>2. ASSUME NEW d \in Sockets, d \in term.listeners
      PROVE  /\ conn'[d] \in Ends /\ conn'[d] = [conn[d] EXCEPT !.out = conn'[d].out]
             /\ Follows(conn'[d], d, pane, xterm, term')
  <2>1. conn'[d] = ToClient(conn[d], m) /\ conn[d] \in Ends /\ conn[d].route = "live"
    BY <1>2, ToldOne, PaneParts
  <2>2. Follows(conn[d], d, pane, xterm, term)
    BY DEF PaneInv
  <2>3. Follows(ToClient(conn[d], m), d, pane, xterm, term')
    BY <1>2, <2>1, <2>2, FollowsOne
  <2> QED BY <2>1, <2>3, ToClientIs
<1>3. ASSUME NEW d \in Sockets, d \notin term.listeners
      PROVE  conn'[d] = conn[d]
  BY <1>3, ToldOne
<1> QED BY <1>1, <1>2, <1>3, ToldNext

LEMMA StepStartArrives == PaneInv /\ StartArrives => PaneInv'
<1> SUFFICES ASSUME PaneInv, StartArrives PROVE PaneInv'
  OBVIOUS
<1>1. term.asked > 0 /\ pane' = pane /\ xterm' = xterm /\ count' = count
      /\ term \in Terminals /\ term.asked \in Nat
  BY PaneParts DEF StartArrives, Terminals
<1> DEFINE a == term.asked - 1
<1>2. a \in Nat
  BY <1>1
<1>3. CASE term.status \in {"starting", "running"}
  <2>1. conn' = conn /\ term' = [term EXCEPT !.asked = a]
    BY <1>3 DEF StartArrives
  <2> HIDE DEF a
  <2>2. term' \in Terminals /\ term'.listeners = term.listeners /\ term'.text = term.text
        /\ term'.status = term.status
    BY <1>1, <1>2, <2>1 DEF Terminals
  <2>3. PaneTypes' /\ PaneOK(pane')
    BY <1>1, <2>1, <2>2, PaneParts DEF PaneTypes, PaneOK
  <2>4. \A d \in Sockets : SocketNext(d)
    BY <1>1, <2>1, <2>2, Untouched
  <2> QED BY <1>1, <2>3, <2>4, PaneInvNext
<1>4. CASE term.status \notin {"starting", "running"}
  <2> DEFINE n == State("starting")
             t == [term EXCEPT !.asked = a, !.text = <<>>]
  <2>1. conn' = Told(conn, <<Clear, n>>) /\ term' = [term EXCEPT !.asked = a, !.status = "starting", !.text = <<>>]
    BY <1>4 DEF StartArrives
  <2> HIDE DEF a
  <2>2. <<>> \in Texts /\ "starting" \in Statuses
    BY DEF Texts, Statuses
  <2>3. term' \in Terminals /\ term'.listeners = term.listeners /\ term'.text = <<>>
        /\ term'.status = "starting"
    BY <1>1, <1>2, <2>1, <2>2 DEF Terminals
  <2>4. t.listeners = term.listeners /\ t.text = <<>> /\ t.status = term.status
    BY <1>1 DEF Terminals
  <2> HIDE DEF t
  <2>5. Clear \in Messages /\ Clear.type = "clear" /\ n \in Messages /\ n.type = "state"
        /\ n.status = "starting"
    BY <2>2 DEF Messages, Clear, State
  <2> HIDE DEF n
  <2>6. /\ \A s : SeenIn(s, Clear) = <<>> /\ Known(s, Clear) = s
        /\ \A s : SeenIn(s, n) = s /\ Known(s, n) = "starting"
    BY <2>5 DEF SeenIn, Known
  <2>7. ASSUME NEW d \in Sockets, d \in term.listeners
        PROVE  /\ conn'[d] \in Ends /\ conn'[d] = [conn[d] EXCEPT !.out = conn'[d].out]
               /\ Follows(conn'[d], d, pane, xterm, term')
    <3> DEFINE j == ToClient(conn[d], Clear)
               l == ToClient(j, n)
    <3>1. conn'[d] = l /\ conn[d] \in Ends /\ conn[d].route = "live"
      BY <2>1, <2>7, ToldTwo, PaneParts
    <3>2. j \in Ends /\ j = [conn[d] EXCEPT !.out = j.out]
      BY <2>5, <3>1, ToClientIs
    <3>3. Follows(conn[d], d, pane, xterm, term)
      BY DEF PaneInv
    <3>4. Follows(j, d, pane, xterm, t)
      BY <2>4, <2>5, <2>6, <2>7, <3>1, <3>3, FollowsOne
    <3> HIDE DEF j
    <3>5. j.route = "live"
      BY <3>1, <3>2 DEF Ends
    <3>6. l \in Ends /\ l = [j EXCEPT !.out = l.out]
      BY <2>5, <3>2, ToClientIs
    <3>7. Follows(l, d, pane, xterm, term')
      BY <2>3, <2>4, <2>5, <2>6, <2>7, <3>2, <3>4, <3>5, FollowsOne
    <3> HIDE DEF l
    <3>8. l = [conn[d] EXCEPT !.out = l.out]
      BY <3>1, <3>2, <3>6 DEF Ends
    <3> QED BY <3>1, <3>6, <3>7, <3>8
  <2>8. ASSUME NEW d \in Sockets, d \notin term.listeners
        PROVE  conn'[d] = conn[d]
    BY <2>1, <2>8, ToldTwo
  <2>9. conn' = [d \in Sockets |-> conn'[d]]
    BY <2>1 DEF Told
  <2> QED BY <1>1, <2>3, <2>7, <2>8, <2>9, ToldNext, PaneParts
<1> QED BY <1>3, <1>4

LEMMA StateIs ==
  ASSUME NEW s \in Statuses
  PROVE  State(s) \in Messages /\ \A text, old : SeenIn(text, State(s)) = text /\ Known(old, State(s)) = s
BY DEF State, Messages, SeenIn, Known

LEMMA StepStartEnds == PaneInv /\ (StartEnds \/ Exits) => PaneInv'
<1> SUFFICES ASSUME PaneInv, StartEnds \/ Exits PROVE PaneInv'
  OBVIOUS
<1>1. \E s \in {"running", "exited"} : term' = Collected([term EXCEPT !.status = s], conn) /\ conn' = Told(conn, <<State(s)>>)
  BY DEF StartEnds, Exits
<1>2. PICK s \in Statuses : term' = Collected([term EXCEPT !.status = s], conn) /\ conn' = Told(conn, <<State(s)>>)
  BY <1>1 DEF Statuses
<1>3. pane' = pane /\ xterm' = xterm /\ count' = count
  BY DEF StartEnds, Exits
<1> DEFINE t == [term EXCEPT !.status = s]
<1>4. t \in Terminals /\ t.listeners = term.listeners /\ t.text = term.text /\ t.status = s
  BY PaneParts DEF Terminals
<1>5. term' = Collected(t, conn)
  BY <1>2
<1> HIDE DEF t
<1>6. term' \in Terminals /\ term'.listeners = term.listeners /\ (term.listeners # {} => term' = t)
  BY <1>4, <1>5, CollectedIs
<1>7. State(s) \in Messages /\ SeenIn(term.text, State(s)) = term.text /\ Known(term.status, State(s)) = s
  BY StateIs
<1>8. term.listeners # {} => term'.text = SeenIn(term.text, State(s)) /\ term'.status = Known(term.status, State(s))
  BY <1>4, <1>6, <1>7
<1> QED BY <1>2, <1>3, <1>6, <1>7, <1>8, ToldOneNext, PaneParts

LEMMA StepPrints == PaneInv /\ Prints => PaneInv'
<1> SUFFICES ASSUME PaneInv, Prints PROVE PaneInv'
  OBVIOUS
<1> DEFINE n == count.prints + 1
           m == Output(n)
<1>1. /\ count' = [count EXCEPT !.prints = n]
      /\ term' = [term EXCEPT !.text = Append(@, n)]
      /\ conn' = Told(conn, <<m>>)
      /\ pane' = pane /\ xterm' = xterm
  BY DEF Prints
<1>2. n \in Nat /\ term.text \in Texts
  BY PaneParts DEF Terminals
<1> HIDE DEF n
<1>3. m \in Messages /\ m.type = "output" /\ m.n = n
  BY <1>2 DEF Messages, Output
<1>4. SeenIn(term.text, m) = Append(term.text, n) /\ Known(term.status, m) = term.status
  BY <1>3 DEF SeenIn, Known
<1> HIDE DEF m
<1>5. Append(term.text, n) \in Texts
  BY <1>2 DEF Texts
<1>6. /\ term' \in Terminals /\ term'.listeners = term.listeners /\ term'.status = term.status
      /\ term'.text = Append(term.text, n)
  BY <1>1, <1>5, PaneParts DEF Terminals
<1>7. count' \in [prints : Nat, presses : Nat, faults : Nat, refused : BOOLEAN]
  BY <1>1, <1>2, PaneParts
<1> QED BY <1>1, <1>3, <1>4, <1>6, <1>7, ToldOneNext

LEMMA StepAsked == PaneInv /\ (StartedElsewhere \/ StartRefused) => PaneInv'
<1> SUFFICES ASSUME PaneInv, StartedElsewhere \/ StartRefused PROVE PaneInv'
  OBVIOUS
<1>1. /\ conn' = conn /\ pane' = pane /\ xterm' = xterm
      /\ \E a \in Nat : term' = [term EXCEPT !.asked = a]
  BY PaneParts DEF StartedElsewhere, StartRefused, Terminals
<1>2. term' \in Terminals /\ term'.listeners = term.listeners /\ term'.text = term.text
      /\ term'.status = term.status
  BY <1>1, PaneParts DEF Terminals
<1>3. count' \in [prints : Nat, presses : Nat, faults : Nat, refused : BOOLEAN]
  <2>1. CASE StartedElsewhere
    <3>1. Pressed
      BY <2>1 DEF StartedElsewhere
    <3> QED BY <3>1, PaneParts, CountsStay
  <2>2. CASE StartRefused
    <3>1. count' = [count EXCEPT !.faults = @ + 1, !.refused = TRUE]
      BY <2>2 DEF StartRefused
    <3> DEFINE n == count.faults + 1
    <3>2. n \in Nat
      BY PaneParts
    <3>3. count' = [count EXCEPT !.faults = n, !.refused = TRUE]
      BY <3>1
    <3> HIDE DEF n
    <3> QED BY <3>2, <3>3, PaneParts
  <2> QED BY <2>1, <2>2
<1>4. PaneTypes' /\ PaneOK(pane')
  BY <1>1, <1>2, <1>3, PaneParts DEF PaneTypes, PaneOK
<1>5. \A d \in Sockets : SocketNext(d)
  BY <1>1, <1>2, Untouched
<1> QED BY <1>1, <1>4, <1>5, PaneInvNext

LEMMA StepServerRestarts == PaneInv /\ ServerRestarts => PaneInv'
<1> SUFFICES ASSUME PaneInv, ServerRestarts PROVE PaneInv'
  OBVIOUS
<1> DEFINE Handler(d) == conn[d].route \in {"verifying", "attaching", "live"}
           i(d) == ToClient(conn[d], Close)
           k(d) == [i(d) EXCEPT !.route = "over", !.pending = <<>>]
<1>1. /\ term' = NoTerminal /\ pane' = pane /\ xterm' = xterm /\ Fault
      /\ conn' = [d \in Sockets |-> IF Handler(d) THEN k(d) ELSE conn[d]]
  BY DEF ServerRestarts
<1>2. term' \in Terminals /\ term'.listeners = {}
  <2>1. NoTerminal \in Terminals /\ NoTerminal.listeners = {}
    BY DEF NoTerminal, Terminals, Texts, Statuses
  <2> QED BY <1>1, <2>1
<1>3. ASSUME NEW d \in Sockets, Handler(d)
      PROVE  /\ conn'[d] \in Ends /\ conn'[d].client = conn[d].client /\ conn'[d].route = "over"
             /\ conn'[d].pending = <<>> /\ (InUse(conn[d]) => Contains(conn'[d].out, Close)) /\ conn[d] # Fresh
  <2>1. Close \in Messages /\ conn[d] \in Ends /\ conn'[d] = k(d)
    BY <1>1, <1>3, PaneParts DEF Messages
  <2> DEFINE j == i(d)
  <2>2. j \in Ends /\ j = [conn[d] EXCEPT !.out = j.out] /\ (InUse(conn[d]) => Contains(j.out, Close))
    BY <2>1, ToClientIs
  <2>3. conn'[d] = [j EXCEPT !.route = "over", !.pending = <<>>]
    BY <2>1
  <2> HIDE DEF j, i, k
  <2>4. j.client = conn[d].client
    BY <2>1, <2>2 DEF Ends
  <2>5. <<>> \in Seq(Asked)
    OBVIOUS
  <2>6. conn'[d] \in Ends /\ conn'[d].client = j.client /\ conn'[d].route = "over" /\ conn'[d].pending = <<>>
        /\ conn'[d].out = j.out
    BY <2>2, <2>3, <2>5 DEF Ends
  <2>7. conn[d] # Fresh
    BY <1>3, NotFresh
  <2> QED BY <2>2, <2>4, <2>6, <2>7
<1>4. ASSUME NEW d \in Sockets, ~Handler(d)
      PROVE  conn'[d] = conn[d]
  BY <1>1, <1>4
<1>5. conn' \in [Sockets -> Ends]
  <2>1. conn' = [d \in Sockets |-> conn'[d]]
    BY <1>1
  <2>2. \A d \in Sockets : conn'[d] \in Ends
    BY <1>3, <1>4, PaneParts
  <2> QED BY <2>1, <2>2
<1>6. count' \in [prints : Nat, presses : Nat, faults : Nat, refused : BOOLEAN]
  BY <1>1, CountsStay, PaneParts
<1>7. PaneTypes' /\ PaneOK(pane')
  BY <1>1, <1>2, <1>5, <1>6, PaneParts DEF PaneTypes, PaneOK
<1>8. ASSUME NEW d \in Sockets
      PROVE  SocketNext(d)
  <2>1. CASE Handler(d)
    <3>1. InUse(conn'[d]) => InUse(conn[d])
      BY <1>3, <2>1 DEF InUse
    <3>2. Len(conn'[d].pending) <= MaxPending
      BY <1>3, <2>1, TerminalPaneAssumption
    <3> QED BY <1>1, <1>2, <1>3, <2>1, <3>1, <3>2, Touched
  <2>2. CASE ~Handler(d)
    BY <1>1, <1>2, <1>4, <2>2, Untouched
  <2> QED BY <2>1, <2>2
<1> QED BY <1>1, <1>7, <1>8, PaneInvNext

-----------------------------------------------------------------------------
(* The theorems about TerminalPane. *)

LEMMA PaneStep == PaneInv /\ [PaneNext]_paneVars => PaneInv'
<1> SUFFICES ASSUME PaneInv, [PaneNext]_paneVars PROVE PaneInv'
  OBVIOUS
<1>1. CASE UNCHANGED paneVars
  <2>1. pane' = pane /\ xterm' = xterm /\ conn' = conn /\ term' = term /\ count' = count
    BY <1>1 DEF paneVars
  <2>2. PaneTypes' /\ PaneOK(pane')
    BY <2>1, PaneParts DEF PaneTypes, PaneOK
  <2>3. \A d \in Sockets : SocketNext(d)
    BY <2>1, Untouched
  <2> QED BY <2>1, <2>2, <2>3, PaneInvNext
<1>2. CASE UrlResolved \/ UrlFails \/ ReconnectTimer \/ Unmount \/ Parses \/ Click
  BY <1>2, StepUrlResolved, StepUrlFails, StepUnmount, StepParses, StepClick
<1>3. ASSUME NEW c \in Sockets,
             \/ SocketOpens(c) \/ SocketCloses(c) \/ Receive(c) \/ Breaks(c)
             \/ FromClient(c) \/ Verified(c) \/ Rejected(c) \/ Attached(c)
      PROVE  PaneInv'
  BY <1>3, StepSocketOpens, StepSocketCloses, StepReceive, StepBreaks, StepFromClient, StepVerified,
     StepRejected, StepAttached
<1>4. CASE StartedElsewhere \/ StartArrives \/ StartRefused \/ StartEnds \/ Prints \/ Exits \/ ServerRestarts
  BY <1>4, StepAsked, StepStartArrives, StepStartEnds, StepPrints, StepServerRestarts
<1> QED BY <1>1, <1>2, <1>3, <1>4 DEF PaneNext

(* PaneTypeOK always holds: what is held back stays within its bound, the client
   waits for a new connection only while its pane is there, and a viewer that
   has left is never among those who are told. *)
THEOREM PaneTyped == PaneSpec => []PaneTypeOK
<1>1. PaneSpec => []PaneInv
  BY PaneInitially, PaneStep, PTL DEF PaneSpec
<1> QED BY <1>1, InvPaneTyped, PTL

(* PaneShows always holds: a pane that is connected draws, once it has caught up,
   what the terminal has put out since it was cleared last, and knows its state;
   whatever broke, was left half parsed or restarted before. *)
THEOREM PanesShow == PaneSpec => []PaneShows
<1>1. PaneSpec => []PaneInv
  BY PaneInitially, PaneStep, PTL DEF PaneSpec
<1> QED BY <1>1, InvShows, PTL

=============================================================================
