--------------------------- MODULE MCTerminalPane ---------------------------
(* The instance of TerminalPane that TLC checks. *)
EXTENDS TerminalPane
=============================================================================
