----------------------------- MODULE ScopedRuns -----------------------------
(***************************************************************************)
(* TaskRuns and Scopes together: which tasks overlap is what claimNextTask *)
(* computes from the tasks' scopes, and what the `block` policy is for is  *)
(* said of paths.                                                          *)
(***************************************************************************)
EXTENDS TaskRuns, Scopes

CONSTANT Scope   \* the patterns of each task's scope

(* What claimNextTask finds, whichever of two tasks is the candidate. *)
ScopesCollide(t, u) == t # u /\ ScopesOverlap(EffectiveScope(Scope[t]), EffectiveScope(Scope[u]))

ASSUME ScopeAssumption ==
  /\ Scope \in [Tasks -> SUBSET SomePatterns]
  /\ Overlap = {o \in Tasks \X Tasks : ScopesCollide(o[1], o[2])}

(* Under the policy `block`, no path is named by the scopes of two tasks that
   one worker runs at once, whatever the order in which it claimed them
   (claimNextTask). *)
NoPathTwice ==
  \A t, u \in Tasks :
    t # u /\ task[t] = "running" /\ task[u] = "running" =>
      \A p \in SomePaths : ~(NamesIn(Scope[t], p) /\ NamesIn(Scope[u], p))
=============================================================================
