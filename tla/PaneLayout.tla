------------------------------ MODULE PaneLayout ------------------------------
(***************************************************************************)
(* The split trees of a terminal tab (lib/paneLayout) as data.  A tree is  *)
(* given by its nodes: a node is the set of shells below it, and `first`   *)
(* maps it to the shell that firstLeaf finds by following first children.  *)
(* Two nodes are disjoint or one contains the other, the root contains     *)
(* them all and a leaf is the singleton of its shell.  What the layout     *)
(* calls a pane id is named here by the shell of the pane.  Directions and *)
(* sizes of a split are left out.                                          *)
(***************************************************************************)
EXTENDS Naturals, FiniteSets

NoShell == 0

Nodes(l)  == DOMAIN l.first
Leaves(l) == UNION DOMAIN l.first          \* visibleTermIds
IsSplit(l) == \E a, b \in Leaves(l) : a # b

FirstLeaf(l) == l.first[Leaves(l)]

\* A binary tree: it has a root, nodes are nested or apart, every node has a first
\* leaf, every shell a leaf, every node but the root a sibling, and the focus is on
\* a leaf.
Tree(l) ==
    /\ Leaves(l) \in Nodes(l)
    /\ \A M, N \in Nodes(l) : M \cap N = {} \/ M \subseteq N \/ N \subseteq M
    /\ \A N \in Nodes(l) : l.first[N] \in N
    /\ \A t \in Leaves(l) : {t} \in Nodes(l)
    /\ \A N \in Nodes(l) : N # Leaves(l) =>
          \E M \in Nodes(l) : N \cap M = {} /\ N \cup M \in Nodes(l)
    /\ l.focus \in Leaves(l)

SinglePane(t) == [first |-> [N \in {{t}} |-> t], focus |-> t]

\* splitPane, then focusPane of the new pane: the leaf of `at` becomes a split
\* whose children are `at` and the new shell.
SplitPane(l, at, new) ==
    [first |-> [N \in {{at}, {new}} \cup {IF at \in M THEN M \cup {new} ELSE M : M \in Nodes(l)}
                  |-> IF N = {new} THEN new ELSE l.first[N \ {new}]],
     focus |-> new]

\* focusPane
FocusOn(l, t) == [first |-> l.first, focus |-> t]

\* The other child of the split that holds the leaf of t.
Sibling(l, t) == CHOOSE S \in Nodes(l) : t \notin S /\ (S \cup {t}) \in Nodes(l)

\* dropTerm of a layout with several leaves: the sibling takes the place of the
\* split, and the focus if the leaf that left had it.
Drop(l, t) ==
    LET heir == l.first[Sibling(l, t)]
    IN  [first |-> [N \in {M \ {t} : M \in Nodes(l)} \ {{}}
                      |-> IF N \in Nodes(l) THEN l.first[N]
                          ELSE IF l.first[N \cup {t}] = t THEN heir
                          ELSE l.first[N \cup {t}]],
         focus |-> IF l.focus = t THEN heir ELSE l.focus]

-----------------------------------------------------------------------------
(* The groups of a host: owner tab -> tree. *)

NoGroups == [o \in {} |-> SinglePane(o)]

Without(groups, o) == [p \in DOMAIN groups \ {o} |-> groups[p]]
With(groups, o, l) == [p \in DOMAIN groups \cup {o} |-> IF p = o THEN l ELSE groups[p]]

InSplits(groups) == UNION {Leaves(groups[o]) : o \in DOMAIN groups}

\* Splits that parsePaneLayoutGroups accepts: trees that share no shell, each under
\* one of its own.
Sound(g) ==
    /\ \A o \in DOMAIN g : Tree(g[o]) /\ IsSplit(g[o]) /\ o \in Leaves(g[o])
    /\ \A o, p \in DOMAIN g : o # p => Leaves(g[o]) \cap Leaves(g[p]) = {}
    /\ NoShell \notin InSplits(g)

Holders(groups, t) == {o \in DOMAIN groups : t \in Leaves(groups[o])}

\* findLayoutOwner
OwnerOf(groups, t) ==
    IF t \in DOMAIN groups THEN t
    ELSE IF Holders(groups, t) = {} THEN NoShell
    ELSE CHOOSE o \in Holders(groups, t) : TRUE

\* What detachTermFromGroups leaves of the group of t: its tree, and the tab
\* that owns it or, when one shell is left, that shell.
Rest(groups, t) == Drop(groups[OwnerOf(groups, t)], t)
Heir(groups, t) == IF OwnerOf(groups, t) \in Leaves(Rest(groups, t))
                   THEN OwnerOf(groups, t)
                   ELSE FirstLeaf(Rest(groups, t))

\* A variant of Detach that does not rekey the group of an owner that left.
DetachKeyed(groups, t) ==
    LET others == Without(groups, OwnerOf(groups, t))
    IN  IF IsSplit(Rest(groups, t))
        THEN With(others, OwnerOf(groups, t), Rest(groups, t))
        ELSE others

\* detachTermFromGroups
Detach(groups, t) ==
    LET others == Without(groups, OwnerOf(groups, t))
    IN  IF IsSplit(Rest(groups, t))
        THEN With(others, Heir(groups, t), Rest(groups, t))
        ELSE others

=============================================================================
