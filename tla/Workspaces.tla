----------------------------- MODULE Workspaces -----------------------------
(***************************************************************************)
(* A workspace from its creation to its removal: the control plane's record*)
(* (apps/web/lib/workspaces.ts), the calls it and the worker make of the   *)
(* orchestrator, and the container and the volume these change             *)
(* (apps/orchestrator/docker/workspace-runtime.ts).                        *)
(*                                                                         *)
(* A call runs on in the orchestrator when its caller has given up, or when*)
(* other calls change the container between its requests to Docker; only   *)
(* the restart of the orchestrator stops it where it is.                   *)
(***************************************************************************)
EXTENDS Integers, FiniteSets

CONSTANTS
  Calls,         \* calls of users and workers under way at a time
  MaxContainers, \* bound: containers made
  MaxBuilds,     \* bound: images built after the first
  MaxFaults      \* bound: restarts of the orchestrator, calls given up, images missing

ASSUME WorkspacesAssumption ==
  /\ "undo" \notin Calls
  /\ MaxContainers \in Nat \ {0} /\ MaxBuilds \in Nat /\ MaxFaults \in Nat

VARIABLES
  row,       \* the record: its state, and the status last recorded
  container, \* the container that has the workspace's name
  volume,    \* 0, or the number of times a volume was made
  image,     \* the image the tag points at
  call,      \* the calls in the orchestrator
  past,      \* history: what may leave a container behind, or take one away
  made, faults

vars == <<row, container, volume, image, call, past, made, faults>>

(* createWorkspace() undoes its own failure with a call of its own. *)
Undo == "undo"
Slots == Calls \cup {Undo}
NoContainer == [id |-> 0, status |-> "none", image |-> 0, ready |-> FALSE]
Idle == [kind |-> "none", at |-> "none", raw |-> 0, caller |-> "none", crossed |-> FALSE]

InOrchestrator == {"look", "volume", "drop", "make", "boot", "wait", "stop", "remove", "unvolume"}
Answers == {"ok", "error"}

TypeOK ==
  /\ row.at \in {"none", "creating", "live", "deleted", "removed"}
  /\ row.known \in {"none", "creating", "running", "stopped", "deleted"}
  /\ row.at \in {"none", "removed"} => row.known = "none"
  /\ container.id \in 0..made /\ container.image \in 0..image /\ container.ready \in BOOLEAN
  /\ container.status \in {"none", "created", "running", "exited"}
  /\ container.id = 0 <=> container.status = "none"
  /\ container.ready => container.status = "running"
  /\ volume \in 0..made + 1 /\ image \in 0..MaxBuilds
  /\ made \in 0..MaxContainers /\ faults \in 0..MaxFaults
  /\ past \subseteq {"crossed", "uncleaned", "deleted", "failed"}
  /\ \A c \in Slots :
       /\ call[c].kind \in {"none", "create", "start", "wake", "stop", "delete", "undo"}
       /\ call[c].at \in InOrchestrator \cup Answers \cup {"none"}
       /\ call[c].raw \in 0..made /\ call[c].crossed \in BOOLEAN
       /\ call[c].caller \in {"none", "waits", "over"}

Init ==
  /\ row = [at |-> "none", known |-> "none"]
  /\ container = NoContainer /\ volume = 0 /\ image = 0
  /\ call = [c \in Slots |-> Idle]
  /\ past = {} /\ made = 0 /\ faults = 0

Under(c) == call[c].at \in InOrchestrator
Calling(c, kind, at) ==
  call' = [call EXCEPT ![c] = [Idle EXCEPT !.kind = kind, !.at = at, !.caller = "waits"]]

(* The orchestrator goes on to `at`; a call that ends with nobody waiting for
   it leaves nothing. *)
At(c, at) == [call EXCEPT ![c] = IF at \in Answers /\ @.caller = "over" THEN Idle ELSE [@ EXCEPT !.at = at]]

-----------------------------------------------------------------------------
(* The control plane and the worker.                                         *)

CreateWorkspace(c) ==
  /\ row.at = "none" /\ call[c].kind = "none" /\ row' = [at |-> "creating", known |-> "creating"]
  /\ Calling(c, "create", "look")
  /\ UNCHANGED <<container, volume, image, past, made, faults>>

(* startWorkspace(), stopWorkspace(), deleteWorkspace(), while the record is
   there: it is there while its workspace is being created. *)
UserCalls(c) ==
  /\ call[c].kind = "none" /\ row.at \in {"creating", "live"}
  /\ \/ Calling(c, "start", "look")
     \/ Calling(c, "stop", "stop")
     \/ Calling(c, "delete", "remove")
  /\ UNCHANGED <<row, container, volume, image, past, made, faults>>

(* A worker that connects starts what it finds stopped. *)
WorkerWakes(c) ==
  /\ call[c].kind = "none" /\ container.status \in {"created", "exited"}
  /\ Calling(c, "wake", "look")
  /\ UNCHANGED <<row, container, volume, image, past, made, faults>>

Answered(c) == call[c].caller = "waits" /\ call[c].at \in Answers
Over(c) == [call EXCEPT ![c] = IF Under(c) THEN [@ EXCEPT !.caller = "over"] ELSE Idle]

(* Mutant: the record goes, and what was made stays. *)
FailedSimply(c) ==
  IF call[c].kind = "create"
  THEN call' = [Over(c) EXCEPT ![Undo] = [Idle EXCEPT !.kind = "undo", !.at = "ok", !.caller = "waits"]]
  ELSE call' = Over(c)

(* The caller has its answer, or has given up: createWorkspace() then undoes
   what it did, and everybody else shows the error. *)
Failed(c) ==
  IF call[c].kind = "create"
  THEN call' = [Over(c) EXCEPT ![Undo] = [Idle EXCEPT !.kind = "undo", !.at = "remove", !.caller = "waits"]]
  ELSE call' = Over(c)

Recorded(kind) ==
  CASE kind = "create" -> [at |-> IF row.at = "creating" THEN "live" ELSE row.at, known |-> "running"]
    [] kind = "start"  -> [row EXCEPT !.known = "running"]
    [] kind = "stop"   -> [row EXCEPT !.known = "stopped"]
    [] kind = "delete" -> [at |-> "deleted", known |-> "deleted"]
    [] kind = "wake"   -> row

(* Its effect on the record, unless that is gone. *)
Succeeds(c) ==
  /\ Answered(c) /\ call[c].at = "ok" /\ c # Undo
  /\ row' = IF row.at = "removed" THEN row ELSE Recorded(call[c].kind)
  /\ call' = Over(c)
  /\ UNCHANGED <<container, volume, image, past, made, faults>>

Fails(c) ==
  /\ Answered(c) /\ call[c].at = "error" /\ c # Undo
  /\ Failed(c)
  /\ UNCHANGED <<row, container, volume, image, past, made, faults>>

(* 90 seconds are over; the call goes on in the orchestrator. *)
GivesUp(c) ==
  /\ call[c].caller = "waits" /\ Under(c) /\ c # Undo /\ faults < MaxFaults
  /\ Failed(c) /\ faults' = faults + 1
  /\ UNCHANGED <<row, container, volume, image, past, made>>

(* Whatever becomes of the call that undoes the creation, the record goes. *)
Undone ==
  /\ call[Undo].caller = "waits" /\ row' = [at |-> "removed", known |-> "none"]
  /\ \/ Answered(Undo) /\ UNCHANGED faults
     \/ Under(Undo) /\ faults < MaxFaults /\ faults' = faults + 1
  /\ call' = Over(Undo)
  /\ past' = IF call[Undo].at = "ok" THEN past ELSE past \cup {"uncleaned"}
  /\ UNCHANGED <<container, volume, image, made>>

-----------------------------------------------------------------------------
(* The orchestrator: one step to each request to Docker that matters.        *)

Outdated == container.status # "running" /\ container.image # image

(* rawInspect(), and imageOutdated(): create() wants no container, start() one,
   and one whose image is not the current one is not started again. *)
Look(c) ==
  /\ call[c].at = "look"
  /\ IF call[c].kind = "create"
     THEN call' = At(c, IF container.id = 0 THEN "volume" ELSE "error")
     ELSE \/ container.id = 0 /\ call' = At(c, "error")
          \/ container.id # 0 /\ ~Outdated /\ call' = At(c, "boot")
          \/ container.id # 0 /\ Outdated /\ call' = [call EXCEPT ![c].at = "drop", ![c].raw = container.id]
  /\ UNCHANGED <<row, container, volume, image, past, made, faults>>

Crossed(c) == IF call[c].crossed THEN past \cup {"crossed"} ELSE past

MakeVolume(c) ==
  /\ call[c].at = "volume" /\ call' = At(c, "make")
  /\ volume' = IF volume = 0 THEN made + 1 ELSE volume
  /\ past' = Crossed(c)
  /\ UNCHANGED <<row, container, image, made, faults>>

(* Mutant: the old container is removed by its name. *)
DropByName(c) ==
  /\ call[c].at = "drop" /\ call' = At(c, "make")
  /\ container' = NoContainer
  /\ UNCHANGED <<row, volume, image, past, made, faults>>

(* The container that was looked at, and no other, is removed. *)
Drop(c) ==
  /\ call[c].at = "drop"
  /\ IF container.id = call[c].raw
     THEN container' = NoContainer /\ call' = At(c, "make")
     ELSE call' = At(c, "error") /\ UNCHANGED container
  /\ UNCHANGED <<row, volume, image, past, made, faults>>

(* createContainer(): the name must be free; a volume that is not there is made. *)
Make(c) ==
  /\ call[c].at = "make" /\ made < MaxContainers
  /\ IF container.id # 0
     THEN call' = At(c, "error") /\ UNCHANGED <<container, volume, past, made>>
     ELSE /\ made' = made + 1
          /\ container' = [id |-> made + 1, status |-> "created", image |-> image, ready |-> FALSE]
          /\ volume' = IF volume = 0 THEN made + 1 ELSE volume
          /\ past' = Crossed(c)
          /\ call' = [call EXCEPT ![c].at = "boot", ![c].raw = made + 1]
  /\ UNCHANGED <<row, image, faults>>

(* Its image is not there, or Docker fails. *)
MakeFails(c) ==
  /\ call[c].at = "make" /\ faults < MaxFaults
  /\ call' = At(c, "error") /\ faults' = faults + 1 /\ past' = past \cup {"failed"}
  /\ UNCHANGED <<row, container, volume, image, made>>

(* container.start(): create() starts the container it made, start() whatever
   has the name by now; one that runs is left as it is. *)
Boot(c) ==
  /\ call[c].at = "boot"
  /\ IF container.id = 0 \/ (call[c].kind = "create" /\ container.id # call[c].raw)
     THEN call' = At(c, "error") /\ UNCHANGED container
     ELSE /\ call' = At(c, "wait")
          /\ container' = IF container.status = "running" THEN container
                          ELSE [container EXCEPT !.status = "running"]
  /\ UNCHANGED <<row, volume, image, past, made, faults>>

AgentUp ==
  /\ container.status = "running" /\ ~container.ready
  /\ container' = [container EXCEPT !.ready = TRUE]
  /\ UNCHANGED <<row, volume, image, call, past, made, faults>>

(* waitForAgent(): it answers, or 60 seconds are over. *)
Waited(c) ==
  /\ call[c].at = "wait"
  /\ call' = At(c, IF container.ready THEN "ok" ELSE "error")
  /\ UNCHANGED <<row, container, volume, image, past, made, faults>>

Stop(c) ==
  /\ call[c].at = "stop"
  /\ IF container.id = 0
     THEN call' = At(c, "error") /\ UNCHANGED container
     ELSE /\ call' = At(c, "ok")
          /\ container' = IF container.status = "running" THEN [container EXCEPT !.status = "exited", !.ready = FALSE]
                          ELSE container
  /\ UNCHANGED <<row, volume, image, past, made, faults>>

(* remove(): the container, if there is one; whatever else is under way is
   crossed by it. *)
RemoveContainer(c) ==
  /\ call[c].at = "remove"
  /\ container' = NoContainer
  /\ call' = [d \in Slots |->
                CASE d = c -> [call[d] EXCEPT !.at = "unvolume"]
                  [] d # c /\ Under(d) /\ call[d].kind \in {"create", "start", "wake"} -> [call[d] EXCEPT !.crossed = TRUE]
                  [] OTHER -> call[d]]
  /\ past' = IF call[c].kind = "delete" THEN past \cup {"deleted"} ELSE past
  /\ UNCHANGED <<row, volume, image, made, faults>>

(* The volume, unless a container has it again. *)
RemoveVolume(c) ==
  /\ call[c].at = "unvolume"
  /\ IF container.id # 0
     THEN call' = At(c, "error") /\ UNCHANGED volume
     ELSE call' = At(c, "ok") /\ volume' = 0
  /\ UNCHANGED <<row, container, image, past, made, faults>>

(* Every call under way ends where it is, and its caller's connection breaks. *)
OrchestratorRestarts ==
  /\ faults < MaxFaults /\ faults' = faults + 1
  /\ \E c \in Slots : Under(c)
  /\ call' = [c \in Slots |-> IF Under(c) THEN At(c, "error")[c] ELSE call[c]]
  /\ UNCHANGED <<row, container, volume, image, past, made>>

ImageBuilt ==
  /\ image < MaxBuilds /\ image' = image + 1
  /\ UNCHANGED <<row, container, volume, call, past, made, faults>>

-----------------------------------------------------------------------------

Next ==
  \/ \E c \in Calls : CreateWorkspace(c) \/ UserCalls(c) \/ WorkerWakes(c) \/ Succeeds(c) \/ Fails(c) \/ GivesUp(c)
  \/ \E c \in Slots :
       \/ Look(c) \/ MakeVolume(c) \/ Drop(c) \/ Make(c) \/ MakeFails(c) \/ Boot(c) \/ Waited(c)
       \/ Stop(c) \/ RemoveContainer(c) \/ RemoveVolume(c)
  \/ Undone \/ AgentUp \/ OrchestratorRestarts \/ ImageBuilt

Spec == Init /\ [][Next]_vars

-----------------------------------------------------------------------------
(* Properties.                                                               *)

Quiet == \A c \in Slots : ~Under(c) /\ call[c].caller # "waits"
Gone == row.at \in {"deleted", "removed"}

(* What the control plane no longer lists leaves nothing behind, container or
   volume, once nothing is under way; save what a creation or a start made that
   a removal crossed, and what the orchestrator could not be told to undo. *)
NoOrphan == Quiet /\ Gone /\ past \subseteq {"deleted", "failed"} => container.id = 0 /\ volume = 0

(* However many calls start it at once: a container of the current image is
   only ever taken away by a removal.  The second of two starts that found the
   same old container fails; it does not take away what the first one made. *)
CurrentIsKept ==
  [][container.id # 0 /\ container.image = image /\ container'.id # container.id
       => \E c \in Slots : call[c].at = "remove" /\ call'[c].at = "unvolume"]_vars

(* workspaces.ts:150-153 says of the undo: "remove the row so the user can retry
   with the same slug, and whatever the orchestrator did create. It may have
   made the container and then timed out waiting for the agent, or answered
   after this client gave up".  A creation that the client gave up before the
   container was made makes it behind the removal. *)
UndoLeavesNothing == Quiet /\ row.at = "removed" => container.id = 0

(* workspace-runtime.ts:42-44: "nothing is cached here, so restarts of this
   service are harmless".  A restart between the removal of the old container
   and the making of the new one leaves none, and start() then finds none. *)
RestartsAreHarmless ==
  Quiet /\ row.at = "live" /\ past = {} => container.id # 0
=============================================================================
