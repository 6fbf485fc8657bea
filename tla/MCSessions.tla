---------------------------- MODULE MCSessions ----------------------------
(* The instance of Sessions that TLC checks: the session ids are opened in any
   order, the sizes are two. *)
EXTENDS Sessions
CONSTANTS e1, v1, s1, s2
=============================================================================
