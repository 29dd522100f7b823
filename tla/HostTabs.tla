------------------------------- MODULE HostTabs -------------------------------
(***************************************************************************)
(* The tabs of the window over the list of hosts: a host has at most one,  *)
(* so that a tab is named by what it shows.  Hosts are added, deleted,     *)
(* loaded and restored under them, and session.json brings them back.      *)
(*                                                                         *)
(* The file of the session holds the tabs of some earlier moment: that the *)
(* saves of the session land in order is shown with ShellSession.          *)
(***************************************************************************)
EXTENDS HostList

CONSTANT Others  \* bound: which of the tabs without a host there are

\* What a tab shows besides a host: the local terminal, the global snippets, a
\* tool that is restored (port forwarding, vault, ...) and settings.json.
Local    == "local"
Global   == "global"
Tool     == "tool"
Settings == "settings"
None     == "none"

ASSUME OthersAssumption == /\ Others \subseteq {Local, Global, Tool, Settings}
                           /\ Host \cap {Local, Global, Tool, Settings} = {}

Tab == Host \cup Others

VARIABLES tabs, active, conn, welcome,  \* tabs, activeTabId, activeConnectionId, showWelcomeScreen
          session                       \* session.json: the tabs and what was shown

shown   == <<tabs, active, conn, welcome>>
tabVars == <<shown, session>>
vars    == <<listVars, tabVars>>

TabTypes == /\ tabs \in Seq(Tab) /\ IsInjective(tabs)
            /\ active \in Tab \cup {None} /\ conn \in Tab \cup {None} /\ welcome \in BOOLEAN
            /\ session.tabs \in Seq(Tab \ {Settings}) /\ session.active \in Tab \cup {None}
            /\ session.conn \in Tab \cup {None} /\ session.welcome \in BOOLEAN

TypeOK == ListTypes /\ TabTypes

NewSession == [tabs |-> <<>>, active |-> None, conn |-> None, welcome |-> FALSE]

\* The first launch, without a session file, or with one host in the only tab.
Init == /\ InitList
        /\ \E t \in Known(list) \cup {None} :
               /\ session = IF t = None THEN NewSession
                            ELSE [tabs |-> <<t>>, active |-> t, conn |-> t, welcome |-> FALSE]
               /\ tabs = session.tabs /\ active = t /\ conn = t /\ welcome = FALSE

\* The connectionId of a tab: tools and settings have none.
ConnOf(t) == IF t \in {None, Tool, Settings} THEN None ELSE t

IsTab(t) == t \in ToSet(tabs)

\* The elements of s that are in S, in their order: SelectSeq, not by recursion.
Only(s, S) ==
    LET places == {i \in DOMAIN s : s[i] \in S}
    IN  [n \in 1..Cardinality(places) |->
            s[CHOOSE i \in places : Cardinality({j \in places : j <= i}) = n]]

Show(t) == active' = t /\ conn' = ConnOf(t)

-----------------------------------------------------------------------------
\* openTab, createLocalTerminalTabState, ensureGlobalSnippetsTab and
\* ensureSingleTabByType: what is shown already is only brought to the front.
Opened(t) == /\ tabs' = IF IsTab(t) THEN tabs ELSE Append(tabs, t)
             /\ Show(t) /\ welcome' = FALSE /\ UNCHANGED session

\* A variant of OpenHost that trusts its caller.
OpenHostUnchecked(l, h) == Opened(h)

\* openTab looks the host up in the list it finds.
OpenHost(l, h) == IF h \in Known(l) THEN Opened(h) ELSE UNCHANGED tabVars

OpenTab(t) == /\ Step /\ UNCHANGED <<list, storage>>
              /\ IF t \in Host THEN OpenHost(list, t) ELSE Opened(t)

\* The welcome screen adds a host and opens its tab without waiting: only a
\* temporary host is in the list by then.
QuickConnect(h) == AddConnection([id |-> h, folder |-> Root]) /\ OpenHost(list', h)

\* What is left when the tabs in gone are closed: the tab that was shown, or
\* else the last one.
Left(gone)   == Only(tabs, Tab \ gone)
NextShown(gone)  == IF active \in ToSet(Left(gone)) THEN active
                ELSE IF Left(gone) = <<>> THEN None ELSE Last(Left(gone))

\* closeTab: from the home screen it leaves for the last tab.  What it does to
\* the host's session is in HostSession.
CloseTab(t) == /\ Step /\ IsTab(t) /\ UNCHANGED <<list, storage, session>>
               /\ tabs' = Left({t}) /\ Show(NextShown({t})) /\ welcome' = (NextShown({t}) = None)

\* deleteConnection: from the home screen it stays there.
DeleteConnection(h) ==
    /\ DeleteFromList(h) /\ UNCHANGED session
    /\ tabs' = Left({h})
    /\ Show(IF active = None THEN None ELSE NextShown({h}))
    /\ welcome' = (welcome \/ Left({h}) = <<>>)

ClearConnections == /\ ClearList /\ UNCHANGED session
                    /\ tabs' = <<>> /\ Show(None) /\ welcome' = TRUE

ActivateTab(t) == /\ Step /\ IsTab(t) /\ Show(t) /\ welcome' = FALSE
                  /\ UNCHANGED <<list, storage, tabs, session>>

GoHome == /\ Step /\ Show(None) /\ welcome' = TRUE
          /\ UNCHANGED <<list, storage, tabs, session>>

ReorderTabs(i, j) == /\ Step /\ i # j
                     /\ tabs' = InsertAt(RemoveAt(tabs, i), j, tabs[i])
                     /\ UNCHANGED <<list, storage, active, conn, welcome, session>>

-----------------------------------------------------------------------------
\* buildSessionData leaves out settings.json.
SessionData == [tabs    |-> Only(tabs, Tab \ {Settings}),
                active  |-> IF active = Settings THEN None ELSE active,
                conn    |-> conn, welcome |-> welcome]

\* saveSession, some time after it was asked for.
SaveSession == /\ session # SessionData /\ session' = SessionData
               /\ UNCHANGED <<listVars, shown>>

\* restoreTabState: the tabs whose host is in the list, and the one that was
\* shown or else the first.  A tab without a host of its own leaves the
\* connection that was saved, as far as it is known.
RestoreTabState(l) ==
    LET valid == Known(l) \cup {Local}
        kept  == Only(session.tabs, valid \cup {Tool})
        act   == IF session.active \in ToSet(kept) THEN session.active ELSE kept[1]
    IN  /\ UNCHANGED session
        /\ tabs' = kept
        /\ IF kept = <<>> \/ session.welcome
           THEN Show(None) /\ welcome' = TRUE
           ELSE /\ active' = act /\ welcome' = FALSE
                /\ conn' = IF ConnOf(act) # None THEN act
                           ELSE IF session.conn \in valid THEN session.conn ELSE None

\* The window starts again: the list first, then the tabs.  Without a session
\* file there is nothing to restore.
Restart(read) ==
    /\ RestartList(read)
    /\ IF session = NewSession
       THEN UNCHANGED session /\ tabs' = <<>> /\ Show(None) /\ welcome' = FALSE
       ELSE RestoreTabState(list')

-----------------------------------------------------------------------------
Next == \/ ListSteps /\ UNCHANGED tabVars
        \/ \E h \in Host : QuickConnect(h) \/ DeleteConnection(h)
        \/ ClearConnections \/ GoHome \/ SaveSession
        \/ \E t \in Tab : OpenTab(t) \/ CloseTab(t) \/ ActivateTab(t)
        \/ \E i, j \in DOMAIN tabs : ReorderTabs(i, j)
        \/ \E read \in BOOLEAN : Restart(read)

Spec == Init /\ [][Next]_vars

-----------------------------------------------------------------------------
\* What the window says it shows is what it shows: a tab it has, whose
\* connection is the active one, and not the welcome screen as well.  With
\* tabs there is always one of the two to look at.
FocusFollowsTheTab ==
    /\ active = None => conn = None /\ (welcome \/ tabs = <<>>)
    /\ active # None => IsTab(active) /\ conn = ConnOf(active) /\ ~welcome

Orphans == {h \in Host : IsTab(h) /\ h \notin Known(list)}

\* A tab loses its host only when a load replaces the list: adding, deleting
\* and clearing hosts, opening tabs and restoring them never leave one behind.
OnlyLoadsOrphanTabs == [][SetList \/ Orphans' \subseteq Orphans]_vars
=============================================================================
