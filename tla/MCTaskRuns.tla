----------------------------- MODULE MCTaskRuns -----------------------------
(* Small instances of TaskRuns for TLC. *)
EXTENDS ScopedRuns, TLC

CONSTANTS w1, w2

OneTask == {1}
TwoTasks == {1, 2}
ThreeTasks == {1, 2, 3}
TwoWorkers == {w1, w2}
OneWorker == {w1}
None == {}

(* Task 1 may belong to a deleted workspace. *)
FirstTask == {1}

(* The tasks' scopes: task 2 was given none, the globs of tasks 1 and 3 have
   prefixes of which neither begins the other. *)
SomeScope == [ t \in Tasks |->
                 CASE t = 1 -> {<<"b", "/", "*">>}
                   [] t = 2 -> {}
                   [] t = 3 -> {<<"a", "/", "**">>, <<"a", "b">>} ]

(* The pairs that overlap. *)
ScopedOverlap == {o \in Tasks \X Tasks : ScopesCollide(o[1], o[2])}

(* Workers differ in nothing but their names. *)
WorkerSymmetry == Permutations(Workers)
=============================================================================
