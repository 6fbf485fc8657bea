-------------------------- MODULE MCWorkspacePage ---------------------------
(* A small instance of WorkspacePage for TLC: the owner, one member, one task. *)
EXTENDS WorkspacePage
CONSTANTS o, e, t1
TwoMembers == {o, e}
OneTask == {t1}
=============================================================================
