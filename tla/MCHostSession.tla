---------------------------- MODULE MCHostSession ----------------------------
(* Instances of HostSession for TLC. *)
EXTENDS HostSession

CONSTANTS s1, t1

MCTab == {s1}
MCTunnel == {t1}
MCNoAutoStart == {}
=============================================================================
