------------------------------ MODULE MCHostTabs ------------------------------
(* A small instance of HostTabs for TLC. *)
EXTENDS HostTabs, TLC

MCPaths == {<<"a">>, <<"a", "c">>, <<"b">>, <<"b", "c">>}

\* An empty list, and a host in a folder of a folder.
MCInitLists == {Empty, [connections |-> "h1" :> <<"a", "c">>, folders |-> {<<"a">>, <<"a", "c">>}]}
=============================================================================
