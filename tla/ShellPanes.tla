------------------------------ MODULE ShellPanes ------------------------------
(***************************************************************************)
(* The shells of one host in the frontend: their tabs, the splits that     *)
(* show several of them in one tab, and the shell that has the focus.  A   *)
(* shell is a tab of the bar, or hidden from the bar because it is an      *)
(* extra pane in the split of another tab.  Shells exit by themselves, and *)
(* the answer to "navigate the synced terminal" sets the focus later,      *)
(* whether or not its shell is still there: `revived` remembers the shells *)
(* that were closed by then.  Such a shell has the focus without being a   *)
(* tab, and a split made then is its own.                                  *)
(***************************************************************************)
EXTENDS PaneLayout

CONSTANTS MaxPanes,     \* MAX_VISIBLE_PANES
          MaxShells     \* bound: shells ever created

ASSUME PanesAssumption == MaxPanes \in Nat /\ MaxPanes >= 2 /\ MaxShells \in Nat

VARIABLES seat,       \* terminals: a shell -> its place in the list of tabs
          hidden,     \* the shells whose tabVisible is false
          groups,     \* paneLayouts of the host
          active,     \* activeTerminalIds of the host, or NoShell
          synced,     \* the shell whose isSynced is set, or NoShell
          created,    \* the last id given: crypto.randomUUID never repeats
          navigating, \* the shell a terminal:navigate is under way for
          revived     \* history: shells an answer focused after they had closed,
                      \* and that were not closed again since

vars == <<seat, hidden, groups, active, synced, created, navigating, revived>>

Shell == 1..MaxShells
Tabs  == DOMAIN seat
Bar   == Tabs \ hidden
Trees == {groups[o] : o \in DOMAIN groups}

TypeOK ==
    /\ Tabs \subseteq Shell /\ \A t \in Tabs : seat[t] \in 1..created
    /\ hidden \subseteq Shell
    /\ DOMAIN groups \subseteq Shell
    /\ \A l \in Trees : /\ Nodes(l) \subseteq SUBSET Shell
                        /\ \A N \in Nodes(l) : l.first[N] \in Shell
                        /\ l.focus \in Shell
    /\ active \in Shell \cup {NoShell}
    /\ synced \in Shell \cup {NoShell}
    /\ created \in 0..MaxShells
    /\ navigating \in Shell \cup {NoShell}
    /\ revived \subseteq Shell

Init == /\ seat = [t \in {} |-> 0] /\ hidden = {} /\ groups = NoGroups
        /\ active = NoShell /\ synced = NoShell /\ created = 0 /\ navigating = NoShell
        /\ revived = {}

\* The shell of S with the lowest, the highest place in the list.
FirstOf(S) == CHOOSE t \in S : \A u \in S : seat[t] <= seat[u]
LastOf(S)  == CHOOSE t \in S : \A u \in S : seat[u] <= seat[t]

New == created + 1
Placed(t) == [u \in Tabs \cup {t} |-> IF u = t THEN t ELSE seat[u]]
Keep(S)   == [u \in Tabs \cap S |-> seat[u]]

CreateTerminal(isSynced) ==
    /\ created < MaxShells
    /\ created' = New
    /\ seat' = Placed(New)
    /\ active' = New
    /\ synced' = IF isSynced THEN New ELSE synced
    /\ UNCHANGED <<hidden, groups, navigating, revived>>

\* ensureTerminal where it changes something: connect calls it, and the panel
\* of a host when it opens.
EnsureTerminal ==
    \/ Bar = {} /\ CreateTerminal(FALSE)
    \/ /\ Bar # {} /\ active \notin Tabs
       /\ active' = FirstOf(Bar)
       /\ UNCHANGED <<seat, hidden, groups, synced, created, navigating, revived>>

\* closeTerminalGroup: a tab of the bar goes with every pane of its split.
Group(t) == LET o == OwnerOf(groups, t) IN IF o = NoShell THEN {t} ELSE Leaves(groups[o])

\* A variant of CloseTerminalGroup that looks after the focus of the tab alone.
CloseTerminalGroupTabOnly(t) ==
    LET gone  == Group(t)
        onBar == Bar \ gone
    IN  /\ seat' = Keep(Tabs \ gone)
        /\ hidden' = hidden \ gone
        /\ groups' = Without(groups, OwnerOf(groups, t))
        /\ active' = IF active # t THEN active ELSE IF onBar # {} THEN LastOf(onBar) ELSE NoShell
        /\ synced' = IF synced \in gone THEN NoShell ELSE synced
        /\ revived' = revived \ gone
        /\ UNCHANGED <<created, navigating>>

CloseTerminalGroup(t) ==
    LET gone  == Group(t)
        left  == Tabs \ gone
        onBar == left \ hidden
    IN  /\ seat' = Keep(left)
        /\ hidden' = hidden \ gone
        /\ groups' = Without(groups, OwnerOf(groups, t))
        /\ active' = IF active \notin gone THEN active
                     ELSE IF onBar # {} THEN LastOf(onBar)
                     ELSE IF left # {} THEN FirstOf(left)
                     ELSE NoShell
        /\ synced' = IF synced \in gone THEN NoShell ELSE synced
        /\ revived' = revived \ gone
        /\ UNCHANGED <<created, navigating>>

\* A variant of LeaveSplit that leaves the heir of the tab hidden.
LeaveSplitHidden(t) ==
    LET heir == Heir(groups, t)
        next == Detach(groups, t)
    IN  /\ seat' = Keep(Tabs \ {t})
        /\ hidden' = hidden \ {t}
        /\ groups' = next
        /\ active' = IF active # t THEN active
                     ELSE IF heir \in DOMAIN next THEN next[heir].focus
                     ELSE heir
        /\ synced' = IF synced = t THEN NoShell ELSE synced
        /\ UNCHANGED <<created, navigating, revived>>

\* closeTerminal of a shell in a split, which it leaves to the other panes.
LeaveSplit(t) ==
    LET heir == Heir(groups, t)
        next == Detach(groups, t)
    IN  /\ seat' = Keep(Tabs \ {t})
        /\ hidden' = hidden \ {t, heir}
        /\ groups' = next
        /\ active' = IF active # t THEN active
                     ELSE IF heir \in DOMAIN next THEN next[heir].focus
                     ELSE heir
        /\ synced' = IF synced = t THEN NoShell ELSE synced
        /\ UNCHANGED <<created, navigating, revived>>

\* closeTerminal, from the exit of a shell: resolveShellExitConnectionId drops
\* the exit of a shell that is no tab any more.
ShellExits(t) ==
    IF OwnerOf(groups, t) = NoShell THEN CloseTerminalGroup(t) ELSE LeaveSplit(t)

\* The shell that gets the focus when a tab is selected.
Focused(t) == IF t \in Bar /\ t \in DOMAIN groups THEN groups[t].focus ELSE t

SetActiveTerminal(t) ==
    /\ active' = Focused(t)
    /\ UNCHANGED <<seat, hidden, groups, synced, created, navigating, revived>>

SplitPanes ==
    LET at    == IF active # NoShell THEN active ELSE FirstOf(Bar)
        found == OwnerOf(groups, at)
        owner == IF found = NoShell THEN at ELSE found
        tree  == IF owner \in DOMAIN groups THEN groups[owner] ELSE SinglePane(owner)
    IN  /\ active # NoShell \/ Bar # {}
        /\ Cardinality(Leaves(tree)) < MaxPanes
        /\ created < MaxShells
        /\ created' = New
        /\ seat' = Placed(New)
        /\ hidden' = hidden \cup {New}
        /\ groups' = With(groups, owner, SplitPane(tree, tree.focus, New))
        /\ active' = New
        /\ UNCHANGED <<synced, navigating, revived>>

\* unsplitPanes: the focused shell leaves the split and is a tab of its own.
UnsplitPanes ==
    LET owner == OwnerOf(groups, active)
        shell == groups[owner].focus
    IN  /\ active # NoShell /\ owner # NoShell
        /\ groups' = Detach(groups, shell)
        /\ hidden' = hidden \ {shell, Heir(groups, shell)}
        /\ active' = shell
        /\ UNCHANGED <<seat, synced, created, navigating, revived>>

\* focusPane, from a click into a pane of the shown split or from the keys that
\* move to a neighbour.
FocusPane(t) ==
    LET owner == OwnerOf(groups, active)
    IN  /\ active # NoShell /\ owner # NoShell
        /\ t \in Leaves(groups[owner])
        /\ groups' = With(groups, owner, FocusOn(groups[owner], t))
        /\ active' = t
        /\ UNCHANGED <<seat, hidden, synced, created, navigating, revived>>

\* "Open Synced Terminal Here" in the file manager navigates the synced shell
\* and then selects it, whatever happened in between.
Navigate == /\ synced # NoShell /\ navigating = NoShell
            /\ navigating' = synced
            /\ UNCHANGED <<seat, hidden, groups, active, synced, created, revived>>
Navigated == /\ navigating # NoShell
             /\ active' = Focused(navigating)
             /\ revived' = revived \cup ({navigating} \ Tabs)
             /\ navigating' = NoShell
             /\ UNCHANGED <<seat, hidden, groups, synced, created>>
NavigateFailed == /\ navigating # NoShell
                  /\ navigating' = NoShell
                  /\ UNCHANGED <<seat, hidden, groups, active, synced, created, revived>>

\* clearTerminals, when the tab of the local host closes.
ClearTerminals == /\ seat' = [t \in {} |-> 0] /\ hidden' = {} /\ groups' = NoGroups
                  /\ active' = NoShell /\ synced' = NoShell /\ revived' = {}
                  /\ UNCHANGED <<created, navigating>>

\* The operations that schedule a save of the session, and those that save at once.
Arrange == \/ CreateTerminal(FALSE) \/ EnsureTerminal \/ SplitPanes \/ UnsplitPanes
           \/ \E t \in Tabs : SetActiveTerminal(t)
           \/ \E t \in Tabs \cup revived : FocusPane(t)
           \/ synced = NoShell /\ CreateTerminal(TRUE)
           \/ Navigated \/ ClearTerminals
\* The bar closes a tab and the keyboard what has the focus, a tab or not.
Close == \/ \E t \in Tabs : CloseTerminalGroup(t) \/ ShellExits(t)
         \/ active # NoShell /\ CloseTerminalGroup(active)
Ask   == Navigate \/ NavigateFailed

Next == Arrange \/ Close \/ Ask

Spec == Init /\ [][Next]_vars

-----------------------------------------------------------------------------
(* Properties *)

\* Whatever order splits, closes, exits, unsplits and late answers came in, no
\* shell is in two splits, and a split belongs to one of its own panes and shows
\* running tabs only: all but its owner, when the split was made on a shell that
\* a late answer had brought back.
SplitsAreSound ==
    /\ \A o \in DOMAIN groups : /\ o \in Leaves(groups[o]) /\ IsSplit(groups[o])
                                /\ o \in Tabs \cup revived
                                /\ Leaves(groups[o]) \subseteq Tabs \cup {o}
                                /\ groups[o].focus \in Leaves(groups[o])
    /\ \A o, p \in DOMAIN groups : o # p => Leaves(groups[o]) \cap Leaves(groups[p]) = {}

\* A shell that the bar does not show is an extra pane of a split, and the other
\* way round: none is hidden outside a split, and none reachable twice.
HiddenAreExtraPanes == hidden = InSplits(groups) \ DOMAIN groups

\* The shell with the focus is one of the tabs, as long as there is one; or it is
\* one that a late answer brought back, and that was not closed again.
ActiveIsATab == active \in Tabs \cup revived \/ (Tabs = {} /\ active = NoShell)

=============================================================================
