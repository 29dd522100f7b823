----------------------------- MODULE ShellSession -----------------------------
(***************************************************************************)
(* The session file of the shells of one host: every operation of          *)
(* ShellPanes saves a snapshot, at once or a second after the last one,    *)
(* the writes go through a chain of promises and may fail, and a restart   *)
(* of the application, at any time, brings back what the file holds.       *)
(***************************************************************************)
EXTENDS ShellPanes, SequencesExt

CONSTANTS MaxSaved,   \* MAX_TABS_PER_SCOPE
          StartFiles, \* the session files the application may start from
          WritesFail, \* session_save may fail
          MaxSteps    \* bound: operations

VARIABLES timer,      \* _cwdDebounceTimer is set
          chain,      \* _pendingSave: the saves not settled yet, oldest first
          lastSaved,  \* _lastSavedSnapshot: <<>>, or the snapshot in a sequence
          file,       \* session.json
          steps       \* the operations so far

\* A session file as the program writes it and parses it, with shells 1..n: tabs
\* that are told apart, and splits of them that hide their extra panes.
Whole(d, n) ==
    /\ d.tabs \in Seq(1..n) /\ IsInjective(d.tabs) /\ Len(d.tabs) <= MaxSaved
    /\ Sound(d.groups) /\ InSplits(d.groups) \subseteq ToSet(d.tabs)
    /\ \A o \in DOMAIN d.groups : Cardinality(Leaves(d.groups[o])) <= MaxPanes
    /\ d.hidden = InSplits(d.groups) \ DOMAIN d.groups
    /\ d.active \in ToSet(d.tabs) \cup {NoShell} /\ d.synced \in ToSet(d.tabs) \cup {NoShell}

ASSUME SessionAssumption ==
    /\ MaxSaved \in Nat /\ MaxSteps \in Nat /\ WritesFail \in BOOLEAN
    /\ \A d \in StartFiles : Whole(d, Len(d.tabs)) /\ Len(d.tabs) <= MaxShells

saving == <<timer, chain, lastSaved, file>>

Nothing == [tabs |-> <<>>, hidden |-> {}, groups |-> NoGroups, active |-> NoShell, synced |-> NoShell]

\* The shells as the store holds them.
Shells == [seat |-> seat, hidden |-> hidden, groups |-> groups, active |-> active, synced |-> synced]

InOrder(s, S) == [i \in 1..Cardinality(S) |-> CHOOSE t \in S :
                     Cardinality({u \in S : s.seat[u] < s.seat[t]}) = i - 1]

Extras(s, t) == IF t \in DOMAIN s.groups THEN (Leaves(s.groups[t]) \ {t}) \cap s.hidden ELSE {}

\* A variant of Kept that fills the room that is left with some panes of a split.
KeptInPart(s) ==
    LET bar  == InOrder(s, DOMAIN s.seat \ s.hidden)
        tabs == SubSeq(bar, 1, Min({Len(bar), MaxSaved}))
        rest == InOrder(s, UNION {Extras(s, t) : t \in ToSet(tabs)})
    IN  tabs \o SubSeq(rest, 1, Min({Len(rest), MaxSaved - Len(tabs)}))

\* What a tab that needs n places with its extra panes leaves of the room there is.
RoomAfter(room, n) == IF n <= room THEN room - n ELSE IF room >= 1 THEN room - 1 ELSE room

\* What the first i tabs leave of the cap.
Room(needed) ==
    LET room[i \in 0..Len(needed)] ==
            IF i = 0 THEN MaxSaved ELSE RoomAfter(room[i - 1], needed[i])
    IN  room

\* keepTerminalsForSession: the tabs of the bar in order, each with the extra
\* panes of its split if all of them fit, else alone.
Kept(s) ==
    LET bar    == InOrder(s, DOMAIN s.seat \ s.hidden)
        needed == [i \in DOMAIN bar |-> 1 + Cardinality(Extras(s, bar[i]))]
        room   == Room(needed)
        kept   == {i \in DOMAIN bar : room[i - 1] >= 1}
        whole  == {i \in DOMAIN bar : needed[i] <= room[i - 1]}
    IN  SubSeq(bar, 1, Cardinality(kept))
        \o InOrder(s, UNION {Extras(s, bar[i]) : i \in whole})

\* buildSessionData with snapshotPaneLayoutGroups: a split survives when the
\* terminals that are saved leave it one; those of a split are kept all or,
\* but for its owner, not at all.
SnapshotOf(s) ==
    LET shells == Kept(s)
        known  == ToSet(shells)
        whole  == {o \in DOMAIN s.groups : Leaves(s.groups[o]) \subseteq known}
    IN  [tabs   |-> shells,
         hidden |-> s.hidden \cap known,
         groups |-> [o \in whole |-> s.groups[o]],
         active |-> IF s.active \in known THEN s.active ELSE NoShell,
         synced |-> IF s.synced \in known THEN s.synced ELSE NoShell]

\* A variant of Parsed with one pane less.
ParsedOneLess(data) ==
    LET known == ToSet(data.tabs)
    IN  [o \in {p \in DOMAIN data.groups \cap known :
                  /\ Leaves(data.groups[p]) \subseteq known
                  /\ p \in Leaves(data.groups[p]) /\ IsSplit(data.groups[p])
                  /\ Cardinality(Leaves(data.groups[p])) < MaxPanes}
           |-> data.groups[o]]

\* parsePaneLayoutGroups
Parsed(data) ==
    LET known == ToSet(data.tabs)
    IN  [o \in {p \in DOMAIN data.groups \cap known :
                  /\ Leaves(data.groups[p]) \subseteq known
                  /\ p \in Leaves(data.groups[p]) /\ IsSplit(data.groups[p])
                  /\ Cardinality(Leaves(data.groups[p])) <= MaxPanes}
           |-> data.groups[o]]

\* The shell with the focus in the split of t.
FocusOf(data, t) == Parsed(data)[OwnerOf(Parsed(data), t)].focus
InSplit(data, t) == t # NoShell /\ OwnerOf(Parsed(data), t) # NoShell

\* focusedTermIdForRestore: the focus of the split that the requested shell is
\* in, else that of the split the first tab is in, else the one requested.
RestoredFocus(data) ==
    LET first == IF data.tabs # <<>> THEN Head(data.tabs) ELSE NoShell
    IN  IF InSplit(data, data.active) THEN FocusOf(data, data.active)
        ELSE IF InSplit(data, first) THEN FocusOf(data, first)
        ELSE IF data.active # NoShell THEN data.active
        ELSE first

RestoredHidden(data) == UNION {Leaves(Parsed(data)[o]) \ {o} : o \in DOMAIN Parsed(data)}

-----------------------------------------------------------------------------
\* loadSession and restoreTerminalTabs: the shells a session file stands for.
Seats(data) == [t \in ToSet(data.tabs) |-> CHOOSE i \in DOMAIN data.tabs : data.tabs[i] = t]

InitSession == \E data \in StartFiles :
    /\ seat = Seats(data) /\ hidden = RestoredHidden(data)
    /\ groups = Parsed(data) /\ active = RestoredFocus(data)
    /\ synced = data.synced /\ navigating = NoShell /\ created = Len(data.tabs)
    /\ revived = {}
    /\ timer = FALSE /\ chain = <<>> /\ lastSaved = <<>>
    /\ file = [data |-> data, at |-> 0] /\ steps = 0

\* scheduleSaveSession: the timer starts over.
Schedule == timer' = TRUE /\ UNCHANGED <<chain, lastSaved, file>>

\* saveSession: nothing to do when the snapshot is the last one saved.
Save(data) ==
    /\ chain' = IF <<data>> = lastSaved THEN chain ELSE Append(chain, [data |-> data, at |-> steps'])
    /\ UNCHANGED <<lastSaved, file>>

Step == steps < MaxSteps /\ steps' = steps + 1

Operate == Step /\ Arrange /\ Schedule
Shut    == Step /\ Close /\ Save(SnapshotOf(Shells')) /\ UNCHANGED timer
Other   == Step /\ Ask /\ UNCHANGED saving

TimerFires == timer /\ timer' = FALSE /\ UNCHANGED <<vars, steps>> /\ Save(SnapshotOf(Shells))

\* A variant of Written without the chain: a later save may overtake.
WrittenUnchained ==
    \E i \in 1..Len(chain) :
      /\ chain' = RemoveAt(chain, i)
      /\ file' = chain[i] /\ lastSaved' = <<chain[i].data>>
      /\ UNCHANGED <<vars, timer, steps>>

\* The head of the chain is in flight: session_save answers.
Written == /\ chain # <<>> /\ chain' = Tail(chain)
           /\ IF <<Head(chain).data>> = lastSaved THEN UNCHANGED <<file, lastSaved>>
              ELSE file' = Head(chain) /\ lastSaved' = <<Head(chain).data>>
           /\ UNCHANGED <<vars, timer, steps>>

WriteFails == /\ WritesFail /\ chain # <<>> /\ chain' = Tail(chain)
              /\ <<Head(chain).data>> # lastSaved
              /\ UNCHANGED <<vars, timer, lastSaved, file, steps>>

\* The application ends, whatever is under way, and starts again.
Restart ==
    LET data == file.data
    IN  /\ seat' = Seats(data)
        /\ hidden' = RestoredHidden(data)
        /\ groups' = Parsed(data)
        /\ active' = RestoredFocus(data)
        /\ synced' = data.synced
        /\ navigating' = NoShell /\ revived' = {}
        /\ timer' = FALSE /\ chain' = <<>> /\ lastSaved' = <<>>
        /\ UNCHANGED <<created, file, steps>>

NextSession == Operate \/ Shut \/ Other \/ TimerFires \/ Written \/ WriteFails \/ Restart

SessionSpec == InitSession /\ [][NextSession]_<<vars, saving, steps>>

-----------------------------------------------------------------------------
(* Properties *)

\* The shells in splits of a shell that is no tab: the file cannot hold them.
Orphans == UNION {Leaves(groups[o]) : o \in DOMAIN groups \ Tabs}

\* As long as the shells fit the file, what is saved of them is what a restart
\* brings back: the same tabs, in the bar or hidden from it, and the same splits,
\* all but the splits of a shell that a late answer had brought back.
SavedIsRestored ==
    LET saved == SnapshotOf(Shells)
        owned == DOMAIN groups \cap Tabs
    IN  Cardinality(Tabs) <= MaxSaved =>
          /\ ToSet(saved.tabs) = Tabs \ Orphans
          /\ Parsed(saved) = [o \in owned |-> groups[o]]
          /\ RestoredHidden(saved) = hidden \ Orphans

\* Writes reach the file in the order the snapshots were taken in: a save that
\* is slow or fails never lets an older arrangement overwrite a newer one.
WritesLandInOrder == [][file'.at >= file.at]_<<vars, saving, steps>>

\* A full host is saved in part, but no split is: every shell the file hides is
\* an extra pane of a split in the file.
SavedSplitsAreWhole ==
    \A d \in {file.data} \cup {chain[i].data : i \in DOMAIN chain} :
        /\ d.hidden = RestoredHidden(d)
        /\ Len(d.tabs) <= MaxSaved

=============================================================================
