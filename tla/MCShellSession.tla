---------------------------- MODULE MCShellSession ----------------------------
(* Instances of ShellSession for TLC: a first start, and a start with two tabs *)
(* of which one is split in two.                                               *)
EXTENDS ShellSession

MCStartFiles ==
    {Nothing,
     [tabs |-> <<1, 3, 2>>, hidden |-> {2}, active |-> 2, synced |-> 3,
      groups |-> [o \in {1} |-> SplitPane(SinglePane(1), 1, 2)]]}
=============================================================================
