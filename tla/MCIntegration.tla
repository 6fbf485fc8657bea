--------------------------- MODULE MCIntegration ---------------------------
(* Small instances of Integration for TLC. *)
EXTENDS Integration, TLC

CONSTANTS t1, t2, w1, w2

OneTask == {t1}
TwoTasks == {t1, t2}
TwoWorkers == {w1, w2}

(* Tasks, and workers, differ in nothing but their names. *)
NamesSymmetry == Permutations(Tasks) \cup Permutations(Workers)
=============================================================================
