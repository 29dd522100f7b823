----------------------------- MODULE MCTerminalPty -----------------------------
(* An instance of TerminalPty for TLC. *)
EXTENDS TerminalPty

MCSizes == {1, 2}
=============================================================================
