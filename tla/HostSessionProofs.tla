-------------------------- MODULE HostSessionProofs --------------------------
(***************************************************************************)
(* Proofs about HostSession for any set of tabs and tunnels and any        *)
(* number of requests.  The inductive invariant adds to the properties     *)
(* which operation is at the head of the queue for each place it can wait  *)
(* at, and what the marks and the status are there.                        *)
(***************************************************************************)
EXTENDS HostSession, SequenceTheorems, TLAPS

AtConnect == {"unlock", "pull", "keys", "saveKey", "dial", "unlockRetry", "cwd",
              "tunnels", "starting"}
AtLost    == {"lostList", "lostDrop", "lostReconcile"}
AtDisc    == {"discList", "discDrop"}

\* The running operation is the head of the queue.
HeadRuns == /\ pc # "idle" => queue # <<>>
            /\ pc \in AtConnect \cup {"cleanup"} => queue[1].kind = "connect"
            /\ pc \in AtLost => queue[1].kind = "lost"
            /\ pc \in AtDisc => queue[1].kind = "disconnect"

\* An attempt is registered while its connect runs, a cancel is of that attempt.
AttemptRuns == /\ active <=> pc \in AtConnect
               /\ cancelled => active
               /\ cancelled /\ ~late => status = "disconnected"

\* What the store shows at each place, if no edit has put an old status back.
StatusThere ==
    /\ pc \in {"saveKey", "cleanup", "lostReconcile"} /\ ~late
          => status \notin {"connecting", "connected"}
    /\ pc \in {"tunnels", "starting"} /\ ~late => status # "connecting"
    /\ status = "connected" /\ ~late => ~parked
    /\ status = "connected" /\ ~late /\ ~live => handled \/ pc \in AtDisc \cup AtLost
    /\ pc = "cwd" /\ ~live => handled \/ cancelled
    /\ status = "connected" /\ ~late /\ remembered # {}
          => pc \in {"tunnels", "discDrop", "lostDrop"}

\* What the mark and the backend say at each place.
LiveThere ==
    /\ pc \in AtLost \cup AtDisc \cup {"cleanup"} => ~live
    /\ pc = "dial" /\ dial = "up" => session # "none"
    /\ LiveHasSession

Control == HeadRuns /\ AttemptRuns /\ StatusThere /\ LiveThere

Inv == /\ TypeOK /\ Control /\ OneLossAtATime /\ ConnectingIsCancellable
       /\ SwallowsOnlyWhatWasAsked
-----------------------------------------------------------------------------
(* The queue *)

\* What is appended comes last and leaves the rest where it was.
LEMMA AppendFacts ==
    ASSUME NEW q \in Seq(Op), NEW o \in Op
    PROVE  /\ Append(q, o) \in Seq(Op) /\ Append(q, o) # <<>>
           /\ Len(q) \in Nat /\ Len(Append(q, o)) = Len(q) + 1
           /\ \A i \in 1..Len(q) : Append(q, o)[i] = q[i]
           /\ Append(q, o)[Len(q) + 1] = o
           /\ q # <<>> => 1 \in 1..Len(q)
  BY AppendProperties, LenProperties, EmptySeq

\* What leaves is the head, the rest moves one place up.
LEMMA TailFacts ==
    ASSUME NEW q \in Seq(Op), q # <<>>
    PROVE  /\ Tail(q) \in Seq(Op) /\ Head(q) = q[1] /\ Head(q) \in Op
           /\ Len(q) \in Nat \ {0} /\ Len(Tail(q)) = Len(q) - 1
           /\ \A i \in 1..(Len(q) - 1) : Tail(q)[i] = q[i + 1]
  <1>1. Len(q) \in Nat \ {0}
    BY LenProperties, EmptySeq
  <1>2. Head(q) = q[1]
    OBVIOUS
  <1>. QED
    BY <1>1, <1>2, HeadTailProperties

\* The operations the code queues are operations.
LEMMA Ops == /\ \A b \in BOOLEAN : Connect(b) \in Op /\ Connect(b).kind = "connect"
             /\ Disconnect \in Op /\ Disconnect.kind = "disconnect"
             /\ Lost \in Op /\ Lost.kind = "lost"
  BY DEF Connect, Disconnect, Lost, Op
-----------------------------------------------------------------------------
(* Types *)

Queued == queue \in Seq(Op)
Flags == /\ live \in BOOLEAN /\ active \in BOOLEAN /\ cancelled \in BOOLEAN
         /\ pending \in BOOLEAN /\ handled \in BOOLEAN /\ vaultAuth \in BOOLEAN
         /\ parked \in BOOLEAN /\ cancelIpc \in BOOLEAN
         /\ late \in BOOLEAN /\ misled \in BOOLEAN
Flat == /\ pc \in PC
        /\ status \in Status
        /\ shells \subseteq Tab
        /\ shown \subseteq Tunnel /\ remembered \subseteq Tunnel
        /\ toStart \subseteq Tunnel /\ listening \subseteq Tunnel
        /\ session \in {"none", "up", "dead"}
        /\ dial \in {"none", "running", "challenge", "approved", "up", "failed"}
        /\ reports \in Nat /\ asked \in Nat /\ deaths \in Nat
Saves == edits \in [Status -> Nat]
Busy == pc # "idle" => queue # <<>>

LEMMA DoomedFacts ==
    ASSUME Queued
    PROVE  /\ Doomed \in Seq(Op) /\ Len(Doomed) = Len(queue) /\ Len(queue) \in Nat
           /\ \A i \in 1..Len(queue) : Doomed[i].kind = queue[i].kind /\ Doomed[i].doomed
  <1>1. \A i \in 1..Len(queue) : queue[i] \in Op
    BY ElementOfSeq DEF Queued
  <1>2. \A i \in 1..Len(queue) : /\ [queue[i] EXCEPT !.doomed = TRUE] \in Op
                                /\ [queue[i] EXCEPT !.doomed = TRUE].kind = queue[i].kind
                                /\ [queue[i] EXCEPT !.doomed = TRUE].doomed = TRUE
    BY <1>1 DEF Op
  <1>3. Len(queue) \in Nat
    BY LenProperties DEF Queued
  <1>4. Doomed \in Seq(Op)
    BY <1>2, <1>3, IsASeq DEF Doomed
  <1>5. Len(Doomed) = Len(queue)
    BY <1>3, <1>4, LenProperties DEF Doomed
  <1>. QED
    BY <1>2, <1>3, <1>4, <1>5 DEF Doomed

LEMMA RetryFacts ==
    ASSUME Queued, queue # <<>>
    PROVE  /\ Retry \in Seq(Op) /\ Retry # <<>> /\ Len(Retry) = Len(queue)
           /\ Retry[Len(queue)] = Connect(TRUE)
           /\ \A i \in 1..(Len(queue) - 1) : Retry[i] = queue[i + 1]
  <1>1. Tail(queue) \in Seq(Op) /\ Connect(TRUE) \in Op
    BY TailFacts, Ops DEF Queued
  <1>2. Len(queue) \in Nat \ {0} /\ Len(Tail(queue)) = Len(queue) - 1
    BY TailFacts DEF Queued
  <1>3. \A i \in 1..(Len(queue) - 1) : Tail(queue)[i] = queue[i + 1]
    BY TailFacts DEF Queued
  <1>4. /\ Retry \in Seq(Op) /\ Retry # <<>> /\ Len(Retry) = Len(Tail(queue)) + 1
        /\ \A i \in 1..Len(Tail(queue)) : Retry[i] = Tail(queue)[i]
        /\ Retry[Len(Tail(queue)) + 1] = Connect(TRUE)
    BY <1>1, AppendFacts DEF Retry
  <1>5. /\ Len(Tail(queue)) + 1 = Len(queue)
        /\ 1..Len(Tail(queue)) = 1..(Len(queue) - 1)
    BY <1>2
  <1>6. \A i \in 1..(Len(queue) - 1) : Retry[i] = queue[i + 1]
    BY <1>3, <1>4, <1>5
  <1>. QED
    BY <1>4, <1>5, <1>6

\* What the first operation is after an ask, a cancel.
LEMMA FirstStays ==
    ASSUME Queued, queue # <<>>
    PROVE  /\ \A o \in Op : queue' = Append(queue, o) => queue' # <<>> /\ queue'[1] = queue[1]
           /\ queue' = Doomed => queue' # <<>> /\ queue'[1].kind = queue[1].kind
  <1>1. 1 \in 1..Len(queue)
    BY TailFacts DEF Queued
  <1>2. ASSUME NEW o \in Op, queue' = Append(queue, o)
        PROVE  queue' # <<>> /\ queue'[1] = queue[1]
    BY <1>1, <1>2, AppendFacts DEF Queued
  <1>3. ASSUME queue' = Doomed PROVE queue' # <<>> /\ queue'[1].kind = queue[1].kind
    <2>1. Len(queue') = Len(queue)
      BY <1>3, DoomedFacts DEF Queued, Doomed
    <2>2. queue'[1].kind = queue[1].kind
      BY <1>1, <1>3, DoomedFacts DEF Queued, Doomed
    <2>. QED
      BY <1>1, <2>1, <2>2, EmptySeq
  <1>. QED
    BY <1>2, <1>3


LEMMA QueueStep ==
    ASSUME Queued, Busy, Next
    PROVE  Queued'
<1>1. ASSUME AskConnect PROVE Queued'
  BY <1>1, Queued, Busy, AppendFacts, TailFacts, Ops
     DEF AskConnect, Free, Queued, Busy
<1>2. ASSUME AskDisconnect PROVE Queued'
  BY <1>2, Queued, Busy, AppendFacts, TailFacts, Ops
     DEF AskDisconnect, Free, Queued, Busy
<1>3. ASSUME CancelConnect PROVE Queued'
  BY <1>3, Queued, DoomedFacts
     DEF CancelConnect, Free, RecordCancel, Queued, Busy
<1>4. ASSUME NEW t \in Tab, SpawnShell(t) PROVE Queued'
  BY <1>4, Queued, Busy, AppendFacts, TailFacts, Ops
     DEF SpawnShell, Free, Queued, Busy
<1>5. ASSUME NEW t \in Tunnel, ToggleTunnel(t) PROVE Queued'
  BY <1>5, Queued, Busy, AppendFacts, TailFacts, Ops
     DEF ToggleTunnel, Free, Queued, Busy
<1>6. ASSUME NEW r \in {"up", "failed", "challenge"}, Dialling(r) PROVE Queued'
  BY <1>6, Queued, Busy, AppendFacts, TailFacts, Ops
     DEF Dialling, InFlight, Queued, Busy
<1>7. ASSUME CancelReachesBackend PROVE Queued'
  BY <1>7, Queued, Busy, AppendFacts, TailFacts, Ops
     DEF CancelReachesBackend, InFlight, Queued, Busy
<1>8. ASSUME StartCancelled PROVE Queued'
  BY <1>8, Queued, Busy, AppendFacts, TailFacts, Ops
     DEF StartCancelled, Starting, DropAttempt, Leave, Queued, Busy
<1>9. ASSUME StartConnect PROVE Queued'
  BY <1>9, Queued, Busy, AppendFacts, TailFacts, Ops
     DEF StartConnect, Starting, Queued, Busy
<1>10. ASSUME StartMisconfigured PROVE Queued'
  BY <1>10, Queued, Busy, AppendFacts, TailFacts, Ops
     DEF StartMisconfigured, Starting, Leave, Queued, Busy
<1>11. ASSUME Unlock PROVE Queued'
  BY <1>11, Queued, Busy, AppendFacts, TailFacts, Ops
     DEF Unlock, Await, Finally, TearDown, Leave, Rest, Queued, Busy
<1>12. ASSUME Pull PROVE Queued'
  BY <1>12, Queued, Busy, AppendFacts, TailFacts, Ops
     DEF Pull, DropAttempt, Await, Finally, TearDown, Leave, Rest, Queued, Busy
<1>13. ASSUME Keys PROVE Queued'
  BY <1>13, Queued, Busy, AppendFacts, TailFacts, Ops
     DEF Keys, DropAttempt, Await, Finally, TearDown, Leave, Rest, Queued, Busy
<1>14. ASSUME SaveKey PROVE Queued'
  BY <1>14, Queued, Busy, RetryFacts, TailFacts
     DEF SaveKey, Finally, TearDown, Leave, Rest, Queued, Busy
<1>15. ASSUME HostKeyAnswered PROVE Queued'
  BY <1>15, Queued, Busy, AppendFacts, TailFacts, Ops
     DEF HostKeyAnswered, Queued, Busy
<1>16. ASSUME DialAnswered PROVE Queued'
  BY <1>16, Queued, Busy, AppendFacts, TailFacts, Ops
     DEF DialAnswered, TearDown, Rest, Queued, Busy
<1>17. ASSUME DialRefused PROVE Queued'
  BY <1>17, Queued, Busy, AppendFacts, TailFacts, Ops
     DEF DialRefused, DropAttempt, Await, Finally, TearDown, Leave, Rest, Queued, Busy
<1>18. ASSUME UnlockForRetry PROVE Queued'
  BY <1>18, Queued, Busy, RetryFacts, TailFacts
     DEF UnlockForRetry, Finally, TearDown, Leave, Rest, Queued, Busy
<1>19. ASSUME HomeResolved PROVE Queued'
  BY <1>19, Queued, Busy, AppendFacts, TailFacts, Ops
     DEF HomeResolved, TearDown, Rest, Queued, Busy
<1>20. ASSUME RestartTunnels PROVE Queued'
  BY <1>20, Queued, Busy, AppendFacts, TailFacts, Ops
     DEF RestartTunnels, LoadTunnels, Await, Finally, TearDown, Leave, Queued, Busy
<1>21. ASSUME TunnelsStarted PROVE Queued'
  BY <1>21, Queued, Busy, AppendFacts, TailFacts, Ops
     DEF TunnelsStarted, Finally, TearDown, Leave, Queued, Busy
<1>22. ASSUME CleanedUp PROVE Queued'
  BY <1>22, Queued, Busy, AppendFacts, TailFacts, Ops
     DEF CleanedUp, DropSession, Suspend, Leave, Queued, Busy
<1>23. ASSUME StartDisconnect PROVE Queued'
  BY <1>23, Queued, Busy, AppendFacts, TailFacts, Ops
     DEF StartDisconnect, Starting, Queued, Busy
<1>24. ASSUME Snapshot("discList", "discDrop") PROVE Queued'
  BY <1>24, Queued, Busy, AppendFacts, TailFacts, Ops
     DEF Snapshot, LoadTunnels, Queued, Busy
<1>25. ASSUME Disconnected PROVE Queued'
  BY <1>25, Queued, Busy, AppendFacts, TailFacts, Ops
     DEF Disconnected, DropSession, Suspend, Leave, Queued, Busy
<1>26. ASSUME StartLost PROVE Queued'
  BY <1>26, Queued, Busy, AppendFacts, TailFacts, Ops
     DEF StartLost, Starting, Queued, Busy
<1>27. ASSUME Snapshot("lostList", "lostDrop") PROVE Queued'
  BY <1>27, Queued, Busy, AppendFacts, TailFacts, Ops
     DEF Snapshot, LoadTunnels, Queued, Busy
<1>28. ASSUME SessionForgotten PROVE Queued'
  BY <1>28, Queued, Busy, AppendFacts, TailFacts, Ops
     DEF SessionForgotten, DropSession, Queued, Busy
<1>29. ASSUME Reconciled PROVE Queued'
  BY <1>29, Queued, Busy, AppendFacts, TailFacts, Ops
     DEF Reconciled, Leave, Queued, Busy
<1>30. ASSUME SessionDies PROVE Queued'
  BY <1>30, Queued, Busy, AppendFacts, TailFacts, Ops
     DEF SessionDies, Queued, Busy
<1>31. ASSUME ReportArrives PROVE Queued'
  BY <1>31, Queued, Busy, AppendFacts, TailFacts, Ops
     DEF ReportArrives, Free, Queued, Busy
<1>32. ASSUME EditHost PROVE Queued'
  BY <1>32, Queued, Busy, AppendFacts, TailFacts, Ops
     DEF EditHost, Save, Queued, Busy
<1>33. ASSUME NEW st \in Status, EditSaved(st) PROVE Queued'
  BY <1>33, Queued, Busy, AppendFacts, TailFacts, Ops
     DEF EditSaved, Free, Queued, Busy
<1>34. ASSUME NEW st \in Status, EditFails(st) PROVE Queued'
  BY <1>34, Queued, Busy, AppendFacts, TailFacts, Ops
     DEF EditFails, Free, Queued, Busy
<1>. QED
  BY <1>1, <1>2, <1>3, <1>4, <1>5, <1>6, <1>7, <1>8, <1>9, <1>10, <1>11, <1>12, <1>13,
     <1>14, <1>15, <1>16, <1>17, <1>18, <1>19, <1>20, <1>21, <1>22, <1>23, <1>24, <1>25,
     <1>26, <1>27, <1>28, <1>29, <1>30, <1>31, <1>32, <1>33, <1>34
     DEF Next, User, Backend, Run

LEMMA FlagStep ==
    ASSUME Flags, Next
    PROVE  Flags'
<1>1. ASSUME AskConnect PROVE Flags'
  BY <1>1, Flags, ZenonT(20)
     DEF AskConnect, Free, attempt, view, Flags, HasConnect, HasQueuedConnect, history
<1>2. ASSUME AskDisconnect PROVE Flags'
  BY <1>2, Flags, ZenonT(20)
     DEF AskDisconnect, Free, attempt, view, Flags, HasConnect, HasQueuedConnect, history
<1>3. ASSUME CancelConnect PROVE Flags'
  BY <1>3, Flags, ZenonT(20)
     DEF CancelConnect, Free, RecordCancel, attempt, view, Flags, HasConnect,
         HasQueuedConnect, Show
<1>4. ASSUME NEW t \in Tab, SpawnShell(t) PROVE Flags'
  BY <1>4, Flags, ZenonT(20)
     DEF SpawnShell, Free, attempt, view, Flags, HasConnect, HasQueuedConnect, history
<1>5. ASSUME NEW t \in Tunnel, ToggleTunnel(t) PROVE Flags'
  BY <1>5, Flags, ZenonT(20)
     DEF ToggleTunnel, Free, attempt, view, Flags, HasConnect, HasQueuedConnect, history
<1>6. ASSUME NEW r \in {"up", "failed", "challenge"}, Dialling(r) PROVE Flags'
  BY <1>6, Flags, ZenonT(20)
     DEF Dialling, InFlight, attempt, view, Flags, HasConnect, HasQueuedConnect, history
<1>7. ASSUME CancelReachesBackend PROVE Flags'
  BY <1>7, Flags, ZenonT(20)
     DEF CancelReachesBackend, InFlight, attempt, view, Flags, HasConnect,
         HasQueuedConnect, history
<1>8. ASSUME StartCancelled PROVE Flags'
  BY <1>8, Flags, ZenonT(20)
     DEF StartCancelled, Starting, DropAttempt, Leave, attempt, view, Flags,
         HasConnect, HasQueuedConnect, Show
<1>9. ASSUME StartConnect PROVE Flags'
  BY <1>9, Flags, ZenonT(20)
     DEF StartConnect, Starting, attempt, view, Flags, HasConnect, HasQueuedConnect, Show
<1>10. ASSUME StartMisconfigured PROVE Flags'
  BY <1>10, Flags, ZenonT(20)
     DEF StartMisconfigured, Starting, Leave, attempt, view, Flags, HasConnect,
         HasQueuedConnect, Show
<1>11. ASSUME Unlock PROVE Flags'
  BY <1>11, Flags, ZenonT(20)
     DEF Unlock, Await, Finally, TearDown, Leave, Rest, attempt, view, Flags,
         HasConnect, HasQueuedConnect, Show, Keep
<1>12. ASSUME Pull PROVE Flags'
  BY <1>12, Flags, ZenonT(20)
     DEF Pull, DropAttempt, Await, Finally, TearDown, Leave, Rest, attempt, view,
         Flags, HasConnect, HasQueuedConnect, Show, Keep
<1>13. ASSUME Keys PROVE Flags'
  BY <1>13, Flags, ZenonT(20)
     DEF Keys, DropAttempt, Await, Finally, TearDown, Leave, Rest, attempt, view,
         Flags, HasConnect, HasQueuedConnect, Show, Keep
<1>14. ASSUME SaveKey PROVE Flags'
  BY <1>14, Flags, ZenonT(20)
     DEF SaveKey, Finally, TearDown, Leave, Rest, attempt, view, Flags, HasConnect,
         HasQueuedConnect, Keep
<1>15. ASSUME HostKeyAnswered PROVE Flags'
  BY <1>15, Flags, ZenonT(20)
     DEF HostKeyAnswered, attempt, view, Flags, HasConnect, HasQueuedConnect, history
<1>16. ASSUME DialAnswered PROVE Flags'
  BY <1>16, Flags, ZenonT(20)
     DEF DialAnswered, TearDown, Rest, attempt, view, Flags, HasConnect,
         HasQueuedConnect, Keep
<1>17. ASSUME DialRefused PROVE Flags'
  BY <1>17, Flags, ZenonT(20)
     DEF DialRefused, DropAttempt, Await, Finally, TearDown, Leave, Rest, attempt,
         view, Flags, HasConnect, HasQueuedConnect, Show, Keep
<1>18. ASSUME UnlockForRetry PROVE Flags'
  BY <1>18, Flags, ZenonT(20)
     DEF UnlockForRetry, Finally, TearDown, Leave, Rest, attempt, view, Flags,
         HasConnect, HasQueuedConnect, Show, Keep
<1>19. ASSUME HomeResolved PROVE Flags'
  BY <1>19, Flags, ZenonT(20)
     DEF HomeResolved, TearDown, Rest, attempt, view, Flags, HasConnect,
         HasQueuedConnect, Show, Keep
<1>20. ASSUME RestartTunnels PROVE Flags'
  BY <1>20, Flags, ZenonT(20)
     DEF RestartTunnels, LoadTunnels, Await, Finally, TearDown, Leave, attempt, view,
         Flags, HasConnect, HasQueuedConnect, Keep
<1>21. ASSUME TunnelsStarted PROVE Flags'
  BY <1>21, Flags, ZenonT(20)
     DEF TunnelsStarted, Finally, TearDown, Leave, attempt, view, Flags, HasConnect,
         HasQueuedConnect, Keep
<1>22. ASSUME CleanedUp PROVE Flags'
  BY <1>22, Flags, ZenonT(20)
     DEF CleanedUp, DropSession, Suspend, Leave, attempt, view, Flags, HasConnect,
         HasQueuedConnect, Show
<1>23. ASSUME StartDisconnect PROVE Flags'
  BY <1>23, Flags, ZenonT(20)
     DEF StartDisconnect, Starting, attempt, view, Flags, HasConnect, HasQueuedConnect,
         history
<1>24. ASSUME Snapshot("discList", "discDrop") PROVE Flags'
  BY <1>24, Flags, ZenonT(20)
     DEF Snapshot, LoadTunnels, attempt, view, Flags, HasConnect, HasQueuedConnect,
         history
<1>25. ASSUME Disconnected PROVE Flags'
  BY <1>25, Flags, ZenonT(20)
     DEF Disconnected, DropSession, Suspend, Leave, attempt, view, Flags, HasConnect,
         HasQueuedConnect, Show
<1>26. ASSUME StartLost PROVE Flags'
  BY <1>26, Flags, ZenonT(20)
     DEF StartLost, Starting, attempt, view, Flags, HasConnect, HasQueuedConnect, history
<1>27. ASSUME Snapshot("lostList", "lostDrop") PROVE Flags'
  BY <1>27, Flags, ZenonT(20)
     DEF Snapshot, LoadTunnels, attempt, view, Flags, HasConnect, HasQueuedConnect,
         history
<1>28. ASSUME SessionForgotten PROVE Flags'
  BY <1>28, Flags, ZenonT(20)
     DEF SessionForgotten, DropSession, attempt, view, Flags, HasConnect,
         HasQueuedConnect, Show
<1>29. ASSUME Reconciled PROVE Flags'
  BY <1>29, Flags, ZenonT(20)
     DEF Reconciled, Leave, attempt, view, Flags, HasConnect, HasQueuedConnect, history
<1>30. ASSUME SessionDies PROVE Flags'
  BY <1>30, Flags, ZenonT(20)
     DEF SessionDies, attempt, view, Flags, HasConnect, HasQueuedConnect, history
<1>31. ASSUME ReportArrives PROVE Flags'
  BY <1>31, Flags, ZenonT(20)
     DEF ReportArrives, Free, attempt, view, Flags, HasConnect, HasQueuedConnect, history
<1>32. ASSUME EditHost PROVE Flags'
  BY <1>32, Flags, ZenonT(20)
     DEF EditHost, Save, attempt, view, Flags, HasConnect, HasQueuedConnect, history
<1>33. ASSUME NEW st \in Status, EditSaved(st) PROVE Flags'
  BY <1>33, Flags, ZenonT(20)
     DEF EditSaved, Free, attempt, view, Flags, HasConnect, HasQueuedConnect, history
<1>34. ASSUME NEW st \in Status, EditFails(st) PROVE Flags'
  BY <1>34, Flags, ZenonT(20)
     DEF EditFails, Free, attempt, view, Flags, HasConnect, HasQueuedConnect, history
<1>. QED
  BY <1>1, <1>2, <1>3, <1>4, <1>5, <1>6, <1>7, <1>8, <1>9, <1>10, <1>11, <1>12, <1>13,
     <1>14, <1>15, <1>16, <1>17, <1>18, <1>19, <1>20, <1>21, <1>22, <1>23, <1>24, <1>25,
     <1>26, <1>27, <1>28, <1>29, <1>30, <1>31, <1>32, <1>33, <1>34
     DEF Next, User, Backend, Run

LEMMA FlatStep ==
    ASSUME Flat, Next
    PROVE  Flat'
<1>1. ASSUME AskConnect PROVE Flat'
  BY <1>1, Flat, AutoStartAssumption
     DEF AskConnect, Free, view, tunnels, backend, bounds, Flat, PC, Status
<1>2. ASSUME AskDisconnect PROVE Flat'
  BY <1>2, Flat, AutoStartAssumption
     DEF AskDisconnect, Free, view, tunnels, backend, bounds, Flat, PC, Status
<1>3. ASSUME CancelConnect PROVE Flat'
  BY <1>3, Flat, AutoStartAssumption
     DEF CancelConnect, Free, RecordCancel, view, tunnels, backend, bounds, Flat, PC,
         Show, Status
<1>4. ASSUME NEW t \in Tab, SpawnShell(t) PROVE Flat'
  BY <1>4, Flat, AutoStartAssumption
     DEF SpawnShell, Free, view, tunnels, backend, bounds, Flat, PC, Status
<1>5. ASSUME NEW t \in Tunnel, ToggleTunnel(t) PROVE Flat'
  BY <1>5, Flat, AutoStartAssumption
     DEF ToggleTunnel, Free, view, tunnels, backend, bounds, Flat, PC, Status
<1>6. ASSUME NEW r \in {"up", "failed", "challenge"}, Dialling(r) PROVE Flat'
  BY <1>6, Flat, AutoStartAssumption
     DEF Dialling, InFlight, view, tunnels, backend, bounds, Flat, PC, Status
<1>7. ASSUME CancelReachesBackend PROVE Flat'
  BY <1>7, Flat, AutoStartAssumption
     DEF CancelReachesBackend, InFlight, view, tunnels, backend, bounds, Flat, PC, Status
<1>8. ASSUME StartCancelled PROVE Flat'
  BY <1>8, Flat, AutoStartAssumption
     DEF StartCancelled, Starting, DropAttempt, Leave, view, tunnels, backend, bounds,
         Flat, PC, Show, Status
<1>9. ASSUME StartConnect PROVE Flat'
  BY <1>9, Flat, AutoStartAssumption
     DEF StartConnect, Starting, view, tunnels, backend, bounds, Flat, PC, Show, Status
<1>10. ASSUME StartMisconfigured PROVE Flat'
  BY <1>10, Flat, AutoStartAssumption
     DEF StartMisconfigured, Starting, Leave, view, tunnels, backend, bounds, Flat, PC,
         Show, Status
<1>11. ASSUME Unlock PROVE Flat'
  BY <1>11, Flat, AutoStartAssumption
     DEF Unlock, Await, Finally, TearDown, Leave, Rest, view, tunnels, backend,
         bounds, Flat, PC, Show, Keep, Status
<1>12. ASSUME Pull PROVE Flat'
  BY <1>12, Flat, AutoStartAssumption
     DEF Pull, DropAttempt, Await, Finally, TearDown, Leave, Rest, view, tunnels,
         backend, bounds, Flat, PC, Show, Keep, Status
<1>13. ASSUME Keys PROVE Flat'
  BY <1>13, Flat, AutoStartAssumption
     DEF Keys, DropAttempt, Await, Finally, TearDown, Leave, Rest, view, tunnels,
         backend, bounds, Flat, PC, Show, Keep, Status
<1>14. ASSUME SaveKey PROVE Flat'
  BY <1>14, Flat, AutoStartAssumption
     DEF SaveKey, Finally, TearDown, Leave, Rest, view, tunnels, backend, bounds,
         Flat, PC, Keep, Status
<1>15. ASSUME HostKeyAnswered PROVE Flat'
  BY <1>15, Flat, AutoStartAssumption
     DEF HostKeyAnswered, view, tunnels, backend, bounds, Flat, PC, Status
<1>16. ASSUME DialAnswered PROVE Flat'
  BY <1>16, Flat, AutoStartAssumption
     DEF DialAnswered, TearDown, Rest, view, tunnels, backend, bounds, Flat, PC, Keep,
         Status
<1>17. ASSUME DialRefused PROVE Flat'
  BY <1>17, Flat, AutoStartAssumption
     DEF DialRefused, DropAttempt, Await, Finally, TearDown, Leave, Rest, view,
         tunnels, backend, bounds, Flat, PC, Show, Keep, Status
<1>18. ASSUME UnlockForRetry PROVE Flat'
  BY <1>18, Flat, AutoStartAssumption
     DEF UnlockForRetry, Finally, TearDown, Leave, Rest, view, tunnels, backend,
         bounds, Flat, PC, Show, Keep, Status
<1>19. ASSUME HomeResolved PROVE Flat'
  BY <1>19, Flat, AutoStartAssumption
     DEF HomeResolved, TearDown, Rest, view, tunnels, backend, bounds, Flat, PC, Show,
         Keep, Status
<1>20. ASSUME RestartTunnels PROVE Flat'
  BY <1>20, Flat, AutoStartAssumption
     DEF RestartTunnels, LoadTunnels, Await, Finally, TearDown, Leave, view, tunnels,
         backend, bounds, Flat, PC, Keep, Status
<1>21. ASSUME TunnelsStarted PROVE Flat'
  BY <1>21, Flat, AutoStartAssumption
     DEF TunnelsStarted, Finally, TearDown, Leave, view, tunnels, backend, bounds,
         Flat, PC, Keep, Status
<1>22. ASSUME CleanedUp PROVE Flat'
  BY <1>22, Flat, AutoStartAssumption
     DEF CleanedUp, DropSession, Suspend, Leave, view, tunnels, backend, bounds, Flat,
         PC, Show, Status
<1>23. ASSUME StartDisconnect PROVE Flat'
  BY <1>23, Flat, AutoStartAssumption
     DEF StartDisconnect, Starting, view, tunnels, backend, bounds, Flat, PC, Status
<1>24. ASSUME Snapshot("discList", "discDrop") PROVE Flat'
  BY <1>24, Flat, AutoStartAssumption
     DEF Snapshot, LoadTunnels, view, tunnels, backend, bounds, Flat, PC, Status
<1>25. ASSUME Disconnected PROVE Flat'
  BY <1>25, Flat, AutoStartAssumption
     DEF Disconnected, DropSession, Suspend, Leave, view, tunnels, backend, bounds,
         Flat, PC, Show, Status
<1>26. ASSUME StartLost PROVE Flat'
  BY <1>26, Flat, AutoStartAssumption
     DEF StartLost, Starting, view, tunnels, backend, bounds, Flat, PC, Status
<1>27. ASSUME Snapshot("lostList", "lostDrop") PROVE Flat'
  BY <1>27, Flat, AutoStartAssumption
     DEF Snapshot, LoadTunnels, view, tunnels, backend, bounds, Flat, PC, Status
<1>28. ASSUME SessionForgotten PROVE Flat'
  BY <1>28, Flat, AutoStartAssumption
     DEF SessionForgotten, DropSession, view, tunnels, backend, bounds, Flat, PC, Show,
         Status
<1>29. ASSUME Reconciled PROVE Flat'
  BY <1>29, Flat, AutoStartAssumption
     DEF Reconciled, Leave, view, tunnels, backend, bounds, Flat, PC, Status
<1>30. ASSUME SessionDies PROVE Flat'
  BY <1>30, Flat, AutoStartAssumption
     DEF SessionDies, view, tunnels, backend, bounds, Flat, PC, Status
<1>31. ASSUME ReportArrives PROVE Flat'
  BY <1>31, Flat, AutoStartAssumption
     DEF ReportArrives, Free, view, tunnels, backend, bounds, Flat, PC, Status
<1>32. ASSUME EditHost PROVE Flat'
  BY <1>32, Flat, AutoStartAssumption
     DEF EditHost, Save, view, tunnels, backend, bounds, Flat, PC, Status
<1>33. ASSUME NEW st \in Status, EditSaved(st) PROVE Flat'
  BY <1>33, Flat, AutoStartAssumption
     DEF EditSaved, Free, view, tunnels, backend, bounds, Flat, PC, Status
<1>34. ASSUME NEW st \in Status, EditFails(st) PROVE Flat'
  BY <1>34, Flat, AutoStartAssumption
     DEF EditFails, Free, view, tunnels, backend, bounds, Flat, PC, Status
<1>. QED
  BY <1>1, <1>2, <1>3, <1>4, <1>5, <1>6, <1>7, <1>8, <1>9, <1>10, <1>11, <1>12, <1>13,
     <1>14, <1>15, <1>16, <1>17, <1>18, <1>19, <1>20, <1>21, <1>22, <1>23, <1>24, <1>25,
     <1>26, <1>27, <1>28, <1>29, <1>30, <1>31, <1>32, <1>33, <1>34
     DEF Next, User, Backend, Run
-----------------------------------------------------------------------------
(* What runs, and what the store shows meanwhile *)

\* An edit saves, is saved or fails; nothing else touches the saves under way.
LEMMA SavesStep ==
    ASSUME Flat, Saves, Next
    PROVE  Saves'
  <1>1. \/ UNCHANGED edits \/ Save
        \/ \E st \in Status : edits[st] > 0 /\ edits' = [edits EXCEPT ![st] = @ - 1]
    BY DEF Next, User, Backend, Run, AskConnect, AskDisconnect,
           CancelConnect, SpawnShell, ToggleTunnel, EditHost, EditSaved, EditFails,
           Dialling, CancelReachesBackend, StartCancelled, StartConnect,
           StartMisconfigured, Unlock, Pull, Keys, SaveKey, HostKeyAnswered,
           DialAnswered, DialRefused, UnlockForRetry, HomeResolved, RestartTunnels,
           TunnelsStarted, CleanedUp, StartDisconnect, Snapshot, Disconnected,
           StartLost, SessionForgotten, Reconciled, SessionDies, ReportArrives, Rest
  <1>2. ASSUME Save PROVE Saves'
    BY <1>2, Flat, Saves DEF Flat, Saves, Save
  <1>3. ASSUME NEW st \in Status, edits[st] > 0, edits' = [edits EXCEPT ![st] = @ - 1]
        PROVE  Saves'
    BY <1>3, Saves DEF Saves
  <1>. QED
    BY <1>1, <1>2, <1>3, Saves DEF Saves

LEMMA AttemptStep ==
    ASSUME AttemptRuns, Next
    PROVE  AttemptRuns'
<1>1. ASSUME AskConnect PROVE AttemptRuns'
  BY <1>1, AttemptRuns
     DEF AskConnect, Free, attempt, AttemptRuns, AtConnect, history
<1>2. ASSUME AskDisconnect PROVE AttemptRuns'
  BY <1>2, AttemptRuns
     DEF AskDisconnect, Free, attempt, AttemptRuns, AtConnect, history
<1>3. ASSUME CancelConnect PROVE AttemptRuns'
  BY <1>3, AttemptRuns
     DEF CancelConnect, Free, RecordCancel, attempt, AttemptRuns, AtConnect, Show
<1>4. ASSUME NEW t \in Tab, SpawnShell(t) PROVE AttemptRuns'
  BY <1>4, AttemptRuns
     DEF SpawnShell, Free, attempt, AttemptRuns, AtConnect, history
<1>5. ASSUME NEW t \in Tunnel, ToggleTunnel(t) PROVE AttemptRuns'
  BY <1>5, AttemptRuns
     DEF ToggleTunnel, Free, attempt, AttemptRuns, AtConnect, history
<1>6. ASSUME NEW r \in {"up", "failed", "challenge"}, Dialling(r) PROVE AttemptRuns'
  BY <1>6, AttemptRuns
     DEF Dialling, InFlight, attempt, AttemptRuns, AtConnect, history
<1>7. ASSUME CancelReachesBackend PROVE AttemptRuns'
  BY <1>7, AttemptRuns
     DEF CancelReachesBackend, InFlight, attempt, AttemptRuns, AtConnect, history
<1>8. ASSUME StartCancelled PROVE AttemptRuns'
  BY <1>8, AttemptRuns
     DEF StartCancelled, Starting, DropAttempt, Leave, attempt, AttemptRuns, AtConnect,
         Show
<1>9. ASSUME StartConnect PROVE AttemptRuns'
  BY <1>9, AttemptRuns
     DEF StartConnect, Starting, attempt, AttemptRuns, AtConnect, Show
<1>10. ASSUME StartMisconfigured PROVE AttemptRuns'
  BY <1>10, AttemptRuns
     DEF StartMisconfigured, Starting, Leave, attempt, AttemptRuns, AtConnect, Show
<1>11. ASSUME Unlock PROVE AttemptRuns'
  BY <1>11, AttemptRuns
     DEF Unlock, Await, Finally, TearDown, Leave, Rest, attempt, AttemptRuns,
         AtConnect, Show, Keep
<1>12. ASSUME Pull PROVE AttemptRuns'
  BY <1>12, AttemptRuns
     DEF Pull, DropAttempt, Await, Finally, TearDown, Leave, Rest, attempt,
         AttemptRuns, AtConnect, Show, Keep
<1>13. ASSUME Keys PROVE AttemptRuns'
  BY <1>13, AttemptRuns
     DEF Keys, DropAttempt, Await, Finally, TearDown, Leave, Rest, attempt,
         AttemptRuns, AtConnect, Show, Keep
<1>14. ASSUME SaveKey PROVE AttemptRuns'
  BY <1>14, AttemptRuns
     DEF SaveKey, Finally, TearDown, Leave, Rest, attempt, AttemptRuns, AtConnect, Keep
<1>15. ASSUME HostKeyAnswered PROVE AttemptRuns'
  BY <1>15, AttemptRuns
     DEF HostKeyAnswered, attempt, AttemptRuns, AtConnect, history
<1>16. ASSUME DialAnswered PROVE AttemptRuns'
  BY <1>16, AttemptRuns
     DEF DialAnswered, TearDown, Rest, attempt, AttemptRuns, AtConnect, Keep
<1>17. ASSUME DialRefused PROVE AttemptRuns'
  BY <1>17, AttemptRuns
     DEF DialRefused, DropAttempt, Await, Finally, TearDown, Leave, Rest, attempt,
         AttemptRuns, AtConnect, Show, Keep
<1>18. ASSUME UnlockForRetry PROVE AttemptRuns'
  BY <1>18, AttemptRuns
     DEF UnlockForRetry, Finally, TearDown, Leave, Rest, attempt, AttemptRuns,
         AtConnect, Show, Keep
<1>19. ASSUME HomeResolved PROVE AttemptRuns'
  BY <1>19, AttemptRuns
     DEF HomeResolved, TearDown, Rest, attempt, AttemptRuns, AtConnect, Show, Keep
<1>20. ASSUME RestartTunnels PROVE AttemptRuns'
  BY <1>20, AttemptRuns
     DEF RestartTunnels, LoadTunnels, Await, Finally, TearDown, Leave, attempt,
         AttemptRuns, AtConnect, Keep
<1>21. ASSUME TunnelsStarted PROVE AttemptRuns'
  BY <1>21, AttemptRuns
     DEF TunnelsStarted, Finally, TearDown, Leave, attempt, AttemptRuns, AtConnect, Keep
<1>22. ASSUME CleanedUp PROVE AttemptRuns'
  BY <1>22, AttemptRuns
     DEF CleanedUp, DropSession, Suspend, Leave, attempt, AttemptRuns, AtConnect, Show
<1>23. ASSUME StartDisconnect PROVE AttemptRuns'
  BY <1>23, AttemptRuns
     DEF StartDisconnect, Starting, attempt, AttemptRuns, AtConnect, history
<1>24. ASSUME Snapshot("discList", "discDrop") PROVE AttemptRuns'
  BY <1>24, AttemptRuns
     DEF Snapshot, LoadTunnels, attempt, AttemptRuns, AtConnect, history
<1>25. ASSUME Disconnected PROVE AttemptRuns'
  BY <1>25, AttemptRuns
     DEF Disconnected, DropSession, Suspend, Leave, attempt, AttemptRuns, AtConnect, Show
<1>26. ASSUME StartLost PROVE AttemptRuns'
  BY <1>26, AttemptRuns
     DEF StartLost, Starting, attempt, AttemptRuns, AtConnect, history
<1>27. ASSUME Snapshot("lostList", "lostDrop") PROVE AttemptRuns'
  BY <1>27, AttemptRuns
     DEF Snapshot, LoadTunnels, attempt, AttemptRuns, AtConnect, history
<1>28. ASSUME SessionForgotten PROVE AttemptRuns'
  BY <1>28, AttemptRuns
     DEF SessionForgotten, DropSession, attempt, AttemptRuns, AtConnect, Show
<1>29. ASSUME Reconciled PROVE AttemptRuns'
  BY <1>29, AttemptRuns
     DEF Reconciled, Leave, attempt, AttemptRuns, AtConnect, history
<1>30. ASSUME SessionDies PROVE AttemptRuns'
  BY <1>30, AttemptRuns
     DEF SessionDies, attempt, AttemptRuns, AtConnect, history
<1>31. ASSUME ReportArrives PROVE AttemptRuns'
  BY <1>31, AttemptRuns
     DEF ReportArrives, Free, attempt, AttemptRuns, AtConnect, history
<1>32. ASSUME EditHost PROVE AttemptRuns'
  BY <1>32, AttemptRuns
     DEF EditHost, Save, attempt, AttemptRuns, AtConnect, history
<1>33. ASSUME NEW st \in Status, EditSaved(st) PROVE AttemptRuns'
  BY <1>33, AttemptRuns
     DEF EditSaved, Free, attempt, AttemptRuns, AtConnect, history
<1>34. ASSUME NEW st \in Status, EditFails(st) PROVE AttemptRuns'
  BY <1>34, AttemptRuns
     DEF EditFails, Free, attempt, AttemptRuns, AtConnect, history
<1>. QED
  BY <1>1, <1>2, <1>3, <1>4, <1>5, <1>6, <1>7, <1>8, <1>9, <1>10, <1>11, <1>12, <1>13,
     <1>14, <1>15, <1>16, <1>17, <1>18, <1>19, <1>20, <1>21, <1>22, <1>23, <1>24, <1>25,
     <1>26, <1>27, <1>28, <1>29, <1>30, <1>31, <1>32, <1>33, <1>34
     DEF Next, User, Backend, Run

LEMMA StatusStep ==
    ASSUME AttemptRuns, StatusThere, LiveThere, Next
    PROVE  StatusThere'
<1>1. ASSUME AskConnect PROVE StatusThere'
  BY <1>1, AttemptRuns, StatusThere, LiveThere
     DEF AskConnect, Free, attempt, view, tunnels, AttemptRuns, StatusThere,
         LiveThere, AtConnect, AtDisc, AtLost, history
<1>2. ASSUME AskDisconnect PROVE StatusThere'
  BY <1>2, AttemptRuns, StatusThere, LiveThere
     DEF AskDisconnect, Free, attempt, view, tunnels, AttemptRuns, StatusThere,
         LiveThere, AtConnect, AtDisc, AtLost, history
<1>3. ASSUME CancelConnect PROVE StatusThere'
  BY <1>3, AttemptRuns, StatusThere, LiveThere
     DEF CancelConnect, Free, RecordCancel, attempt, view, tunnels, AttemptRuns,
         StatusThere, LiveThere, AtConnect, AtDisc, AtLost, Show
<1>4. ASSUME NEW t \in Tab, SpawnShell(t) PROVE StatusThere'
  BY <1>4, AttemptRuns, StatusThere, LiveThere
     DEF SpawnShell, Free, attempt, view, tunnels, AttemptRuns, StatusThere,
         LiveThere, AtConnect, AtDisc, AtLost, history
<1>5. ASSUME NEW t \in Tunnel, ToggleTunnel(t) PROVE StatusThere'
  BY <1>5, AttemptRuns, StatusThere, LiveThere
     DEF ToggleTunnel, Free, attempt, view, tunnels, AttemptRuns, StatusThere,
         LiveThere, AtConnect, AtDisc, AtLost, history
<1>6. ASSUME NEW r \in {"up", "failed", "challenge"}, Dialling(r) PROVE StatusThere'
  BY <1>6, AttemptRuns, StatusThere, LiveThere
     DEF Dialling, InFlight, attempt, view, tunnels, AttemptRuns, StatusThere,
         LiveThere, AtConnect, AtDisc, AtLost, history
<1>7. ASSUME CancelReachesBackend PROVE StatusThere'
  BY <1>7, AttemptRuns, StatusThere, LiveThere
     DEF CancelReachesBackend, InFlight, attempt, view, tunnels, AttemptRuns,
         StatusThere, LiveThere, AtConnect, AtDisc, AtLost, history
<1>8. ASSUME StartCancelled PROVE StatusThere'
  BY <1>8, AttemptRuns, StatusThere, LiveThere
     DEF StartCancelled, Starting, DropAttempt, Leave, attempt, view, tunnels,
         AttemptRuns, StatusThere, LiveThere, AtConnect, AtDisc, AtLost, Show
<1>9. ASSUME StartConnect PROVE StatusThere'
  BY <1>9, AttemptRuns, StatusThere, LiveThere
     DEF StartConnect, Starting, attempt, view, tunnels, AttemptRuns, StatusThere,
         LiveThere, AtConnect, AtDisc, AtLost, Show
<1>10. ASSUME StartMisconfigured PROVE StatusThere'
  BY <1>10, AttemptRuns, StatusThere, LiveThere
     DEF StartMisconfigured, Starting, Leave, attempt, view, tunnels, AttemptRuns,
         StatusThere, LiveThere, AtConnect, AtDisc, AtLost, Show
<1>11. ASSUME Unlock PROVE StatusThere'
  <2>1. CASE Await("pull") /\ Keep
    BY <1>11, <2>1, AttemptRuns, StatusThere, LiveThere
       DEF Unlock, Await, Rest, view, tunnels, StatusThere, AtDisc, AtLost, Show, Keep
  <2>2. CASE Show("disconnected") /\ Finally
    BY <1>11, <2>2 DEF Unlock, Finally, TearDown, Leave, StatusThere, Show, Keep
  <2>. QED
    BY <1>11, <2>1, <2>2 DEF Unlock, Show, Keep
<1>12. ASSUME Pull PROVE StatusThere'
  BY <1>12, AttemptRuns, StatusThere, LiveThere
     DEF Pull, DropAttempt, Await, Finally, TearDown, Leave, Rest, attempt, view,
         tunnels, AttemptRuns, StatusThere, LiveThere, AtConnect, AtDisc, AtLost, Show,
         Keep
<1>13. ASSUME Keys PROVE StatusThere'
  BY <1>13, AttemptRuns, StatusThere, LiveThere
     DEF Keys, DropAttempt, Await, Finally, TearDown, Leave, Rest, attempt, view,
         tunnels, AttemptRuns, StatusThere, LiveThere, AtConnect, AtDisc, AtLost, Show,
         Keep
<1>14. ASSUME SaveKey PROVE StatusThere'
  BY <1>14, AttemptRuns, StatusThere, LiveThere
     DEF SaveKey, Finally, TearDown, Leave, Rest, attempt, view, tunnels, AttemptRuns,
         StatusThere, LiveThere, AtConnect, AtDisc, AtLost, Keep
<1>15. ASSUME HostKeyAnswered PROVE StatusThere'
  BY <1>15, AttemptRuns, StatusThere, LiveThere
     DEF HostKeyAnswered, attempt, view, tunnels, AttemptRuns, StatusThere, LiveThere,
         AtConnect, AtDisc, AtLost, history
<1>16. ASSUME DialAnswered PROVE StatusThere'
  BY <1>16, AttemptRuns, StatusThere, LiveThere
     DEF DialAnswered, TearDown, Rest, attempt, view, tunnels, AttemptRuns,
         StatusThere, LiveThere, AtConnect, AtDisc, AtLost, Keep
<1>17. ASSUME DialRefused PROVE StatusThere'
  BY <1>17, AttemptRuns, StatusThere, LiveThere
     DEF DialRefused, DropAttempt, Await, Finally, TearDown, Leave, Rest, attempt,
         view, tunnels, AttemptRuns, StatusThere, LiveThere, AtConnect, AtDisc, AtLost,
         Show, Keep
<1>18. ASSUME UnlockForRetry PROVE StatusThere'
  <2>1. CASE cancelled
    BY <1>18, <2>1, AttemptRuns, StatusThere, LiveThere
       DEF UnlockForRetry, Finally, TearDown, Leave, Rest, attempt, view, tunnels,
           AttemptRuns, StatusThere, LiveThere, AtConnect, AtDisc, AtLost, Show, Keep
  <2>2. CASE ~cancelled
    BY <1>18, <2>2, AttemptRuns, StatusThere, LiveThere
       DEF UnlockForRetry, Finally, TearDown, Leave, Rest, attempt, view, tunnels,
           AttemptRuns, StatusThere, LiveThere, AtConnect, AtDisc, AtLost, Show, Keep
  <2>. QED
    BY <2>1, <2>2
<1>19. ASSUME HomeResolved PROVE StatusThere'
  BY <1>19, AttemptRuns, StatusThere, LiveThere
     DEF HomeResolved, TearDown, Rest, attempt, view, tunnels, AttemptRuns,
         StatusThere, LiveThere, AtConnect, AtDisc, AtLost, Show, Keep
<1>20. ASSUME RestartTunnels PROVE StatusThere'
  BY <1>20, AttemptRuns, StatusThere, LiveThere
     DEF RestartTunnels, LoadTunnels, Await, Finally, TearDown, Leave, attempt, view,
         tunnels, AttemptRuns, StatusThere, LiveThere, AtConnect, AtDisc, AtLost, Keep
<1>21. ASSUME TunnelsStarted PROVE StatusThere'
  BY <1>21, AttemptRuns, StatusThere, LiveThere
     DEF TunnelsStarted, Finally, TearDown, Leave, attempt, view, tunnels,
         AttemptRuns, StatusThere, LiveThere, AtConnect, AtDisc, AtLost, Keep
<1>22. ASSUME CleanedUp PROVE StatusThere'
  BY <1>22, AttemptRuns, StatusThere, LiveThere
     DEF CleanedUp, DropSession, Suspend, Leave, attempt, view, tunnels, AttemptRuns,
         StatusThere, LiveThere, AtConnect, AtDisc, AtLost, Show
<1>23. ASSUME StartDisconnect PROVE StatusThere'
  BY <1>23, AttemptRuns, StatusThere, LiveThere
     DEF StartDisconnect, Starting, attempt, view, tunnels, AttemptRuns, StatusThere,
         LiveThere, AtConnect, AtDisc, AtLost, history
<1>24. ASSUME Snapshot("discList", "discDrop") PROVE StatusThere'
  BY <1>24, AttemptRuns, StatusThere, LiveThere
     DEF Snapshot, LoadTunnels, attempt, view, tunnels, AttemptRuns, StatusThere,
         LiveThere, AtConnect, AtDisc, AtLost, history
<1>25. ASSUME Disconnected PROVE StatusThere'
  BY <1>25, AttemptRuns, StatusThere, LiveThere
     DEF Disconnected, DropSession, Suspend, Leave, attempt, view, tunnels,
         AttemptRuns, StatusThere, LiveThere, AtConnect, AtDisc, AtLost, Show
<1>26. ASSUME StartLost PROVE StatusThere'
  BY <1>26, AttemptRuns, StatusThere, LiveThere
     DEF StartLost, Starting, attempt, view, tunnels, AttemptRuns, StatusThere,
         LiveThere, AtConnect, AtDisc, AtLost, history
<1>27. ASSUME Snapshot("lostList", "lostDrop") PROVE StatusThere'
  BY <1>27, AttemptRuns, StatusThere, LiveThere
     DEF Snapshot, LoadTunnels, attempt, view, tunnels, AttemptRuns, StatusThere,
         LiveThere, AtConnect, AtDisc, AtLost, history
<1>28. ASSUME SessionForgotten PROVE StatusThere'
  BY <1>28, AttemptRuns, StatusThere, LiveThere
     DEF SessionForgotten, DropSession, attempt, view, tunnels, AttemptRuns,
         StatusThere, LiveThere, AtConnect, AtDisc, AtLost, Show
<1>29. ASSUME Reconciled PROVE StatusThere'
  BY <1>29, AttemptRuns, StatusThere, LiveThere
     DEF Reconciled, Leave, attempt, view, tunnels, AttemptRuns, StatusThere,
         LiveThere, AtConnect, AtDisc, AtLost, history
<1>30. ASSUME SessionDies PROVE StatusThere'
  BY <1>30, AttemptRuns, StatusThere, LiveThere
     DEF SessionDies, attempt, view, tunnels, AttemptRuns, StatusThere, LiveThere,
         AtConnect, AtDisc, AtLost, history
<1>31. ASSUME ReportArrives PROVE StatusThere'
  BY <1>31, AttemptRuns, StatusThere, LiveThere
     DEF ReportArrives, Free, attempt, view, tunnels, AttemptRuns, StatusThere,
         LiveThere, AtConnect, AtDisc, AtLost, history
<1>32. ASSUME EditHost PROVE StatusThere'
  BY <1>32, AttemptRuns, StatusThere, LiveThere
     DEF EditHost, Save, attempt, view, tunnels, AttemptRuns, StatusThere, LiveThere,
         AtConnect, AtDisc, AtLost, history
<1>33. ASSUME NEW st \in Status, EditSaved(st) PROVE StatusThere'
  BY <1>33, AttemptRuns, StatusThere, LiveThere
     DEF EditSaved, Free, attempt, view, tunnels, AttemptRuns, StatusThere, LiveThere,
         AtConnect, AtDisc, AtLost, history
<1>34. ASSUME NEW st \in Status, EditFails(st) PROVE StatusThere'
  BY <1>34, AttemptRuns, StatusThere, LiveThere
     DEF EditFails, Free, attempt, view, tunnels, AttemptRuns, StatusThere, LiveThere,
         AtConnect, AtDisc, AtLost, history
<1>. QED
  BY <1>1, <1>2, <1>3, <1>4, <1>5, <1>6, <1>7, <1>8, <1>9, <1>10, <1>11, <1>12, <1>13,
     <1>14, <1>15, <1>16, <1>17, <1>18, <1>19, <1>20, <1>21, <1>22, <1>23, <1>24, <1>25,
     <1>26, <1>27, <1>28, <1>29, <1>30, <1>31, <1>32, <1>33, <1>34
     DEF Next, User, Backend, Run

LEMMA LiveStep ==
    ASSUME LiveThere, Next
    PROVE  LiveThere'
<1>1. ASSUME AskConnect PROVE LiveThere'
  BY <1>1, LiveThere
     DEF AskConnect, Free, backend, LiveThere, LiveHasSession, AtConnect, AtDisc,
         AtLost
<1>2. ASSUME AskDisconnect PROVE LiveThere'
  BY <1>2, LiveThere
     DEF AskDisconnect, Free, backend, LiveThere, LiveHasSession, AtConnect, AtDisc,
         AtLost
<1>3. ASSUME CancelConnect PROVE LiveThere'
  BY <1>3, LiveThere
     DEF CancelConnect, Free, RecordCancel, backend, LiveThere, LiveHasSession,
         AtConnect, AtDisc, AtLost
<1>4. ASSUME NEW t \in Tab, SpawnShell(t) PROVE LiveThere'
  BY <1>4, LiveThere
     DEF SpawnShell, Free, backend, LiveThere, LiveHasSession, AtConnect, AtDisc,
         AtLost
<1>5. ASSUME NEW t \in Tunnel, ToggleTunnel(t) PROVE LiveThere'
  BY <1>5, LiveThere
     DEF ToggleTunnel, Free, backend, LiveThere, LiveHasSession, AtConnect, AtDisc,
         AtLost
<1>6. ASSUME NEW r \in {"up", "failed", "challenge"}, Dialling(r) PROVE LiveThere'
  BY <1>6, LiveThere
     DEF Dialling, InFlight, backend, LiveThere, LiveHasSession, AtConnect, AtDisc,
         AtLost
<1>7. ASSUME CancelReachesBackend PROVE LiveThere'
  BY <1>7, LiveThere
     DEF CancelReachesBackend, InFlight, backend, LiveThere, LiveHasSession,
         AtConnect, AtDisc, AtLost
<1>8. ASSUME StartCancelled PROVE LiveThere'
  BY <1>8, LiveThere
     DEF StartCancelled, Starting, DropAttempt, Leave, backend, LiveThere,
         LiveHasSession, AtConnect, AtDisc, AtLost
<1>9. ASSUME StartConnect PROVE LiveThere'
  BY <1>9, LiveThere
     DEF StartConnect, Starting, backend, LiveThere, LiveHasSession, AtConnect,
         AtDisc, AtLost
<1>10. ASSUME StartMisconfigured PROVE LiveThere'
  BY <1>10, LiveThere
     DEF StartMisconfigured, Starting, Leave, backend, LiveThere, LiveHasSession,
         AtConnect, AtDisc, AtLost
<1>11. ASSUME Unlock PROVE LiveThere'
  BY <1>11, LiveThere
     DEF Unlock, Await, Finally, TearDown, Leave, Rest, backend, LiveThere,
         LiveHasSession, AtConnect, AtDisc, AtLost
<1>12. ASSUME Pull PROVE LiveThere'
  BY <1>12, LiveThere
     DEF Pull, DropAttempt, Await, Finally, TearDown, Leave, Rest, backend, LiveThere,
         LiveHasSession, AtConnect, AtDisc, AtLost
<1>13. ASSUME Keys PROVE LiveThere'
  BY <1>13, LiveThere
     DEF Keys, DropAttempt, Await, Finally, TearDown, Leave, Rest, backend, LiveThere,
         LiveHasSession, AtConnect, AtDisc, AtLost
<1>14. ASSUME SaveKey PROVE LiveThere'
  BY <1>14, LiveThere
     DEF SaveKey, Finally, TearDown, Leave, Rest, backend, LiveThere, LiveHasSession,
         AtConnect, AtDisc, AtLost
<1>15. ASSUME HostKeyAnswered PROVE LiveThere'
  BY <1>15, LiveThere
     DEF HostKeyAnswered, backend, LiveThere, LiveHasSession, AtConnect, AtDisc,
         AtLost
<1>16. ASSUME DialAnswered PROVE LiveThere'
  BY <1>16, LiveThere
     DEF DialAnswered, TearDown, Rest, backend, LiveThere, LiveHasSession, AtConnect,
         AtDisc, AtLost
<1>17. ASSUME DialRefused PROVE LiveThere'
  BY <1>17, LiveThere
     DEF DialRefused, DropAttempt, Await, Finally, TearDown, Leave, Rest, backend,
         LiveThere, LiveHasSession, AtConnect, AtDisc, AtLost
<1>18. ASSUME UnlockForRetry PROVE LiveThere'
  BY <1>18, LiveThere
     DEF UnlockForRetry, Finally, TearDown, Leave, Rest, backend, LiveThere,
         LiveHasSession, AtConnect, AtDisc, AtLost
<1>19. ASSUME HomeResolved PROVE LiveThere'
  BY <1>19, LiveThere
     DEF HomeResolved, TearDown, Rest, backend, LiveThere, LiveHasSession, AtConnect,
         AtDisc, AtLost
<1>20. ASSUME RestartTunnels PROVE LiveThere'
  BY <1>20, LiveThere
     DEF RestartTunnels, LoadTunnels, Await, Finally, TearDown, Leave, backend,
         LiveThere, LiveHasSession, AtConnect, AtDisc, AtLost
<1>21. ASSUME TunnelsStarted PROVE LiveThere'
  BY <1>21, LiveThere
     DEF TunnelsStarted, Finally, TearDown, Leave, backend, LiveThere, LiveHasSession,
         AtConnect, AtDisc, AtLost
<1>22. ASSUME CleanedUp PROVE LiveThere'
  BY <1>22, LiveThere
     DEF CleanedUp, DropSession, Suspend, Leave, backend, LiveThere, LiveHasSession,
         AtConnect, AtDisc, AtLost
<1>23. ASSUME StartDisconnect PROVE LiveThere'
  BY <1>23, LiveThere
     DEF StartDisconnect, Starting, backend, LiveThere, LiveHasSession, AtConnect,
         AtDisc, AtLost
<1>24. ASSUME Snapshot("discList", "discDrop") PROVE LiveThere'
  BY <1>24, LiveThere
     DEF Snapshot, LoadTunnels, backend, LiveThere, LiveHasSession, AtConnect, AtDisc,
         AtLost
<1>25. ASSUME Disconnected PROVE LiveThere'
  BY <1>25, LiveThere
     DEF Disconnected, DropSession, Suspend, Leave, backend, LiveThere,
         LiveHasSession, AtConnect, AtDisc, AtLost
<1>26. ASSUME StartLost PROVE LiveThere'
  BY <1>26, LiveThere
     DEF StartLost, Starting, backend, LiveThere, LiveHasSession, AtConnect, AtDisc,
         AtLost
<1>27. ASSUME Snapshot("lostList", "lostDrop") PROVE LiveThere'
  BY <1>27, LiveThere
     DEF Snapshot, LoadTunnels, backend, LiveThere, LiveHasSession, AtConnect, AtDisc,
         AtLost
<1>28. ASSUME SessionForgotten PROVE LiveThere'
  BY <1>28, LiveThere
     DEF SessionForgotten, DropSession, backend, LiveThere, LiveHasSession, AtConnect,
         AtDisc, AtLost
<1>29. ASSUME Reconciled PROVE LiveThere'
  BY <1>29, LiveThere
     DEF Reconciled, Leave, backend, LiveThere, LiveHasSession, AtConnect, AtDisc,
         AtLost
<1>30. ASSUME SessionDies PROVE LiveThere'
  BY <1>30, LiveThere
     DEF SessionDies, backend, LiveThere, LiveHasSession, AtConnect, AtDisc, AtLost
<1>31. ASSUME ReportArrives PROVE LiveThere'
  BY <1>31, LiveThere
     DEF ReportArrives, Free, backend, LiveThere, LiveHasSession, AtConnect, AtDisc,
         AtLost
<1>32. ASSUME EditHost PROVE LiveThere'
  BY <1>32, LiveThere
     DEF EditHost, Save, backend, LiveThere, LiveHasSession, AtConnect, AtDisc, AtLost
<1>33. ASSUME NEW st \in Status, EditSaved(st) PROVE LiveThere'
  BY <1>33, LiveThere
     DEF EditSaved, Free, backend, LiveThere, LiveHasSession, AtConnect, AtDisc, AtLost
<1>34. ASSUME NEW st \in Status, EditFails(st) PROVE LiveThere'
  BY <1>34, LiveThere
     DEF EditFails, Free, backend, LiveThere, LiveHasSession, AtConnect, AtDisc, AtLost
<1>. QED
  BY <1>1, <1>2, <1>3, <1>4, <1>5, <1>6, <1>7, <1>8, <1>9, <1>10, <1>11, <1>12, <1>13,
     <1>14, <1>15, <1>16, <1>17, <1>18, <1>19, <1>20, <1>21, <1>22, <1>23, <1>24, <1>25,
     <1>26, <1>27, <1>28, <1>29, <1>30, <1>31, <1>32, <1>33, <1>34
     DEF Next, User, Backend, Run

LEMMA HeadStep ==
    ASSUME Queued, HeadRuns, Next
    PROVE  HeadRuns'
<1>1. ASSUME AskConnect PROVE HeadRuns'
  BY <1>1, Queued, HeadRuns, FirstStays, TailFacts, AppendFacts, Ops
     DEF AskConnect, Free, Queued, HeadRuns, AtConnect, AtLost, AtDisc
<1>2. ASSUME AskDisconnect PROVE HeadRuns'
  BY <1>2, Queued, HeadRuns, FirstStays, TailFacts, AppendFacts, Ops
     DEF AskDisconnect, Free, Queued, HeadRuns, AtConnect, AtLost, AtDisc
<1>3. ASSUME CancelConnect PROVE HeadRuns'
  BY <1>3, Queued, HeadRuns, FirstStays, TailFacts, AppendFacts, Ops
     DEF CancelConnect, Free, RecordCancel, Queued, HeadRuns, AtConnect, AtLost,
         AtDisc
<1>4. ASSUME NEW t \in Tab, SpawnShell(t) PROVE HeadRuns'
  BY <1>4, Queued, HeadRuns, FirstStays, TailFacts, AppendFacts, Ops
     DEF SpawnShell, Free, Queued, HeadRuns, AtConnect, AtLost, AtDisc
<1>5. ASSUME NEW t \in Tunnel, ToggleTunnel(t) PROVE HeadRuns'
  BY <1>5, Queued, HeadRuns, FirstStays, TailFacts, AppendFacts, Ops
     DEF ToggleTunnel, Free, Queued, HeadRuns, AtConnect, AtLost, AtDisc
<1>6. ASSUME NEW r \in {"up", "failed", "challenge"}, Dialling(r) PROVE HeadRuns'
  BY <1>6, Queued, HeadRuns, FirstStays, TailFacts, AppendFacts, Ops
     DEF Dialling, InFlight, Queued, HeadRuns, AtConnect, AtLost, AtDisc
<1>7. ASSUME CancelReachesBackend PROVE HeadRuns'
  BY <1>7, Queued, HeadRuns, FirstStays, TailFacts, AppendFacts, Ops
     DEF CancelReachesBackend, InFlight, Queued, HeadRuns, AtConnect, AtLost, AtDisc
<1>8. ASSUME StartCancelled PROVE HeadRuns'
  BY <1>8, Queued, HeadRuns, FirstStays, TailFacts, AppendFacts, Ops
     DEF StartCancelled, Starting, DropAttempt, Leave, Queued, HeadRuns, AtConnect,
         AtLost, AtDisc
<1>9. ASSUME StartConnect PROVE HeadRuns'
  BY <1>9, Queued, HeadRuns, FirstStays, TailFacts, AppendFacts, Ops
     DEF StartConnect, Starting, Queued, HeadRuns, AtConnect, AtLost, AtDisc
<1>10. ASSUME StartMisconfigured PROVE HeadRuns'
  BY <1>10, Queued, HeadRuns, FirstStays, TailFacts, AppendFacts, Ops
     DEF StartMisconfigured, Starting, Leave, Queued, HeadRuns, AtConnect, AtLost,
         AtDisc
<1>11. ASSUME Unlock PROVE HeadRuns'
  BY <1>11, Queued, HeadRuns, FirstStays, TailFacts, AppendFacts, Ops
     DEF Unlock, Await, Finally, TearDown, Leave, Rest, Queued, HeadRuns, AtConnect,
         AtLost, AtDisc
<1>12. ASSUME Pull PROVE HeadRuns'
  BY <1>12, Queued, HeadRuns, FirstStays, TailFacts, AppendFacts, Ops
     DEF Pull, DropAttempt, Await, Finally, TearDown, Leave, Rest, Queued, HeadRuns,
         AtConnect, AtLost, AtDisc
<1>13. ASSUME Keys PROVE HeadRuns'
  BY <1>13, Queued, HeadRuns, FirstStays, TailFacts, AppendFacts, Ops
     DEF Keys, DropAttempt, Await, Finally, TearDown, Leave, Rest, Queued, HeadRuns,
         AtConnect, AtLost, AtDisc
<1>14. ASSUME SaveKey PROVE HeadRuns'
  BY <1>14, Queued, HeadRuns, FirstStays, TailFacts, AppendFacts, Ops
     DEF SaveKey, Finally, TearDown, Leave, Rest, Queued, HeadRuns, AtConnect, AtLost,
         AtDisc
<1>15. ASSUME HostKeyAnswered PROVE HeadRuns'
  BY <1>15, Queued, HeadRuns, FirstStays, TailFacts, AppendFacts, Ops
     DEF HostKeyAnswered, Queued, HeadRuns, AtConnect, AtLost, AtDisc
<1>16. ASSUME DialAnswered PROVE HeadRuns'
  BY <1>16, Queued, HeadRuns, FirstStays, TailFacts, AppendFacts, Ops
     DEF DialAnswered, TearDown, Rest, Queued, HeadRuns, AtConnect, AtLost, AtDisc
<1>17. ASSUME DialRefused PROVE HeadRuns'
  BY <1>17, Queued, HeadRuns, FirstStays, TailFacts, AppendFacts, Ops
     DEF DialRefused, DropAttempt, Await, Finally, TearDown, Leave, Rest, Queued,
         HeadRuns, AtConnect, AtLost, AtDisc
<1>18. ASSUME UnlockForRetry PROVE HeadRuns'
  BY <1>18, Queued, HeadRuns, FirstStays, TailFacts, AppendFacts, Ops
     DEF UnlockForRetry, Finally, TearDown, Leave, Rest, Queued, HeadRuns, AtConnect,
         AtLost, AtDisc
<1>19. ASSUME HomeResolved PROVE HeadRuns'
  BY <1>19, Queued, HeadRuns, FirstStays, TailFacts, AppendFacts, Ops
     DEF HomeResolved, TearDown, Rest, Queued, HeadRuns, AtConnect, AtLost, AtDisc
<1>20. ASSUME RestartTunnels PROVE HeadRuns'
  BY <1>20, Queued, HeadRuns, FirstStays, TailFacts, AppendFacts, Ops
     DEF RestartTunnels, LoadTunnels, Await, Finally, TearDown, Leave, Queued,
         HeadRuns, AtConnect, AtLost, AtDisc
<1>21. ASSUME TunnelsStarted PROVE HeadRuns'
  BY <1>21, Queued, HeadRuns, FirstStays, TailFacts, AppendFacts, Ops
     DEF TunnelsStarted, Finally, TearDown, Leave, Queued, HeadRuns, AtConnect,
         AtLost, AtDisc
<1>22. ASSUME CleanedUp PROVE HeadRuns'
  BY <1>22, Queued, HeadRuns, FirstStays, TailFacts, AppendFacts, Ops
     DEF CleanedUp, DropSession, Suspend, Leave, Queued, HeadRuns, AtConnect, AtLost,
         AtDisc
<1>23. ASSUME StartDisconnect PROVE HeadRuns'
  BY <1>23, Queued, HeadRuns, FirstStays, TailFacts, AppendFacts, Ops
     DEF StartDisconnect, Starting, Queued, HeadRuns, AtConnect, AtLost, AtDisc
<1>24. ASSUME Snapshot("discList", "discDrop") PROVE HeadRuns'
  BY <1>24, Queued, HeadRuns, FirstStays, TailFacts, AppendFacts, Ops
     DEF Snapshot, LoadTunnels, Queued, HeadRuns, AtConnect, AtLost, AtDisc
<1>25. ASSUME Disconnected PROVE HeadRuns'
  BY <1>25, Queued, HeadRuns, FirstStays, TailFacts, AppendFacts, Ops
     DEF Disconnected, DropSession, Suspend, Leave, Queued, HeadRuns, AtConnect,
         AtLost, AtDisc
<1>26. ASSUME StartLost PROVE HeadRuns'
  BY <1>26, Queued, HeadRuns, FirstStays, TailFacts, AppendFacts, Ops
     DEF StartLost, Starting, Queued, HeadRuns, AtConnect, AtLost, AtDisc
<1>27. ASSUME Snapshot("lostList", "lostDrop") PROVE HeadRuns'
  BY <1>27, Queued, HeadRuns, FirstStays, TailFacts, AppendFacts, Ops
     DEF Snapshot, LoadTunnels, Queued, HeadRuns, AtConnect, AtLost, AtDisc
<1>28. ASSUME SessionForgotten PROVE HeadRuns'
  BY <1>28, Queued, HeadRuns, FirstStays, TailFacts, AppendFacts, Ops
     DEF SessionForgotten, DropSession, Queued, HeadRuns, AtConnect, AtLost, AtDisc
<1>29. ASSUME Reconciled PROVE HeadRuns'
  BY <1>29, Queued, HeadRuns, FirstStays, TailFacts, AppendFacts, Ops
     DEF Reconciled, Leave, Queued, HeadRuns, AtConnect, AtLost, AtDisc
<1>30. ASSUME SessionDies PROVE HeadRuns'
  BY <1>30, Queued, HeadRuns, FirstStays, TailFacts, AppendFacts, Ops
     DEF SessionDies, Queued, HeadRuns, AtConnect, AtLost, AtDisc
<1>31. ASSUME ReportArrives PROVE HeadRuns'
  BY <1>31, Queued, HeadRuns, FirstStays, TailFacts, AppendFacts, Ops
     DEF ReportArrives, Free, Queued, HeadRuns, AtConnect, AtLost, AtDisc
<1>32. ASSUME EditHost PROVE HeadRuns'
  BY <1>32, Queued, HeadRuns, FirstStays, TailFacts, AppendFacts, Ops
     DEF EditHost, Save, Queued, HeadRuns, AtConnect, AtLost, AtDisc
<1>33. ASSUME NEW st \in Status, EditSaved(st) PROVE HeadRuns'
  BY <1>33, Queued, HeadRuns, FirstStays, TailFacts, AppendFacts, Ops
     DEF EditSaved, Free, Queued, HeadRuns, AtConnect, AtLost, AtDisc
<1>34. ASSUME NEW st \in Status, EditFails(st) PROVE HeadRuns'
  BY <1>34, Queued, HeadRuns, FirstStays, TailFacts, AppendFacts, Ops
     DEF EditFails, Free, Queued, HeadRuns, AtConnect, AtLost, AtDisc
<1>. QED
  BY <1>1, <1>2, <1>3, <1>4, <1>5, <1>6, <1>7, <1>8, <1>9, <1>10, <1>11, <1>12, <1>13,
     <1>14, <1>15, <1>16, <1>17, <1>18, <1>19, <1>20, <1>21, <1>22, <1>23, <1>24, <1>25,
     <1>26, <1>27, <1>28, <1>29, <1>30, <1>31, <1>32, <1>33, <1>34
     DEF Next, User, Backend, Run
-----------------------------------------------------------------------------
(* One loss at a time *)

\* What each move of the queue does to the loss that may be in it.
LEMMA LossMoves ==
    ASSUME Queued, OneLossAtATime
    PROVE  /\ UNCHANGED <<queue, handled>> => OneLossAtATime'
           /\ \A o \in Op : queue' = Append(queue, o) /\ o.kind # "lost" /\ UNCHANGED handled
                            => OneLossAtATime'
           /\ \A o \in Op : queue' = Append(queue, o) /\ ~handled /\ handled' /\ o.kind = "lost"
                            => OneLossAtATime'
           /\ queue' = Doomed /\ UNCHANGED handled => OneLossAtATime'
           /\ queue # <<>> /\ queue' = Tail(queue) /\ queue[1].kind # "lost" /\ UNCHANGED handled
              => OneLossAtATime'
           /\ queue # <<>> /\ queue' = Tail(queue) /\ queue[1].kind = "lost" /\ ~handled'
              => OneLossAtATime'
           /\ queue # <<>> /\ queue' = Retry /\ queue[1].kind # "lost" /\ UNCHANGED handled
              => OneLossAtATime'
  <1>1. UNCHANGED <<queue, handled>> => OneLossAtATime'
    BY DEF OneLossAtATime, Waiting
  <1>2. ASSUME NEW o \in Op, queue' = Append(queue, o), o.kind # "lost", UNCHANGED handled
        PROVE  OneLossAtATime'
    BY <1>2, AppendFacts DEF OneLossAtATime, Waiting, Queued
  <1>3. ASSUME NEW o \in Op, queue' = Append(queue, o), o.kind = "lost", ~handled, handled'
        PROVE  OneLossAtATime'
    BY <1>3, AppendFacts DEF OneLossAtATime, Waiting, Queued
  <1>4. queue' = Doomed /\ UNCHANGED handled => OneLossAtATime'
    BY DoomedFacts DEF OneLossAtATime, Waiting
  <1>5. ASSUME queue # <<>>, queue' = Tail(queue), queue[1].kind # "lost", UNCHANGED handled
        PROVE  OneLossAtATime'
    <2>1. \A i \in Waiting("lost")' : i \in Nat /\ i + 1 \in Waiting("lost")
      BY <1>5, TailFacts DEF Waiting, Queued
    <2>2. \A i \in Waiting("lost") : i \in Nat /\ i - 1 \in Waiting("lost")'
      BY <1>5, TailFacts DEF Waiting, Queued
    <2>. QED
      BY <1>5, <2>1, <2>2 DEF OneLossAtATime
  <1>6. ASSUME queue # <<>>, queue' = Tail(queue), queue[1].kind = "lost", ~handled'
        PROVE  OneLossAtATime'
    BY <1>6, TailFacts DEF OneLossAtATime, Waiting, Queued
  <1>7. ASSUME queue # <<>>, queue' = Retry, queue[1].kind # "lost", UNCHANGED handled
        PROVE  OneLossAtATime'
    <2>1. Len(queue) \in Nat \ {0} /\ Retry[Len(queue)].kind # "lost"
      BY <1>7, RetryFacts, TailFacts, Ops DEF Queued
    <2>2. \A i \in Waiting("lost")' : i \in Nat /\ i + 1 \in Waiting("lost")
      BY <1>7, <2>1, RetryFacts DEF Waiting
    <2>3. \A i \in Waiting("lost") : i \in Nat /\ i - 1 \in Waiting("lost")'
      BY <1>7, <2>1, RetryFacts DEF Waiting
    <2>. QED
      BY <1>7, <2>2, <2>3 DEF OneLossAtATime
  <1>. QED
    BY <1>1, <1>2, <1>3, <1>4, <1>5, <1>6, <1>7

LEMMA LossStep ==
    ASSUME Queued, HeadRuns, OneLossAtATime, Next
    PROVE  OneLossAtATime'
<1>1. ASSUME AskConnect PROVE OneLossAtATime'
  BY <1>1, Queued, HeadRuns, LossMoves, TailFacts, Ops
     DEF AskConnect, Free, Queued, HeadRuns, AtConnect, AtLost, AtDisc
<1>2. ASSUME AskDisconnect PROVE OneLossAtATime'
  BY <1>2, Queued, HeadRuns, LossMoves, TailFacts, Ops
     DEF AskDisconnect, Free, Queued, HeadRuns, AtConnect, AtLost, AtDisc
<1>3. ASSUME CancelConnect PROVE OneLossAtATime'
  BY <1>3, Queued, HeadRuns, LossMoves, TailFacts, Ops
     DEF CancelConnect, Free, RecordCancel, Queued, HeadRuns, AtConnect, AtLost,
         AtDisc
<1>4. ASSUME NEW t \in Tab, SpawnShell(t) PROVE OneLossAtATime'
  BY <1>4, Queued, HeadRuns, LossMoves, TailFacts, Ops
     DEF SpawnShell, Free, Queued, HeadRuns, AtConnect, AtLost, AtDisc
<1>5. ASSUME NEW t \in Tunnel, ToggleTunnel(t) PROVE OneLossAtATime'
  BY <1>5, Queued, HeadRuns, LossMoves, TailFacts, Ops
     DEF ToggleTunnel, Free, Queued, HeadRuns, AtConnect, AtLost, AtDisc
<1>6. ASSUME NEW r \in {"up", "failed", "challenge"}, Dialling(r) PROVE OneLossAtATime'
  BY <1>6, Queued, HeadRuns, LossMoves, TailFacts, Ops
     DEF Dialling, InFlight, Queued, HeadRuns, AtConnect, AtLost, AtDisc
<1>7. ASSUME CancelReachesBackend PROVE OneLossAtATime'
  BY <1>7, Queued, HeadRuns, LossMoves, TailFacts, Ops
     DEF CancelReachesBackend, InFlight, Queued, HeadRuns, AtConnect, AtLost, AtDisc
<1>8. ASSUME StartCancelled PROVE OneLossAtATime'
  BY <1>8, Queued, HeadRuns, LossMoves, TailFacts, Ops
     DEF StartCancelled, Starting, DropAttempt, Leave, Queued, HeadRuns, AtConnect,
         AtLost, AtDisc
<1>9. ASSUME StartConnect PROVE OneLossAtATime'
  BY <1>9, Queued, HeadRuns, LossMoves, TailFacts, Ops
     DEF StartConnect, Starting, Queued, HeadRuns, AtConnect, AtLost, AtDisc
<1>10. ASSUME StartMisconfigured PROVE OneLossAtATime'
  BY <1>10, Queued, HeadRuns, LossMoves, TailFacts, Ops
     DEF StartMisconfigured, Starting, Leave, Queued, HeadRuns, AtConnect, AtLost,
         AtDisc
<1>11. ASSUME Unlock PROVE OneLossAtATime'
  BY <1>11, Queued, HeadRuns, LossMoves, TailFacts, Ops
     DEF Unlock, Await, Finally, TearDown, Leave, Rest, Queued, HeadRuns, AtConnect,
         AtLost, AtDisc
<1>12. ASSUME Pull PROVE OneLossAtATime'
  BY <1>12, Queued, HeadRuns, LossMoves, TailFacts, Ops
     DEF Pull, DropAttempt, Await, Finally, TearDown, Leave, Rest, Queued, HeadRuns,
         AtConnect, AtLost, AtDisc
<1>13. ASSUME Keys PROVE OneLossAtATime'
  BY <1>13, Queued, HeadRuns, LossMoves, TailFacts, Ops
     DEF Keys, DropAttempt, Await, Finally, TearDown, Leave, Rest, Queued, HeadRuns,
         AtConnect, AtLost, AtDisc
<1>14. ASSUME SaveKey PROVE OneLossAtATime'
  BY <1>14, Queued, HeadRuns, LossMoves, TailFacts, Ops
     DEF SaveKey, Finally, TearDown, Leave, Rest, Queued, HeadRuns, AtConnect, AtLost,
         AtDisc
<1>15. ASSUME HostKeyAnswered PROVE OneLossAtATime'
  BY <1>15, Queued, HeadRuns, LossMoves, TailFacts, Ops
     DEF HostKeyAnswered, Queued, HeadRuns, AtConnect, AtLost, AtDisc
<1>16. ASSUME DialAnswered PROVE OneLossAtATime'
  BY <1>16, Queued, HeadRuns, LossMoves, TailFacts, Ops
     DEF DialAnswered, TearDown, Rest, Queued, HeadRuns, AtConnect, AtLost, AtDisc
<1>17. ASSUME DialRefused PROVE OneLossAtATime'
  BY <1>17, Queued, HeadRuns, LossMoves, TailFacts, Ops
     DEF DialRefused, DropAttempt, Await, Finally, TearDown, Leave, Rest, Queued,
         HeadRuns, AtConnect, AtLost, AtDisc
<1>18. ASSUME UnlockForRetry PROVE OneLossAtATime'
  BY <1>18, Queued, HeadRuns, LossMoves, TailFacts, Ops
     DEF UnlockForRetry, Finally, TearDown, Leave, Rest, Queued, HeadRuns, AtConnect,
         AtLost, AtDisc
<1>19. ASSUME HomeResolved PROVE OneLossAtATime'
  BY <1>19, Queued, HeadRuns, LossMoves, TailFacts, Ops
     DEF HomeResolved, TearDown, Rest, Queued, HeadRuns, AtConnect, AtLost, AtDisc
<1>20. ASSUME RestartTunnels PROVE OneLossAtATime'
  BY <1>20, Queued, HeadRuns, LossMoves, TailFacts, Ops
     DEF RestartTunnels, LoadTunnels, Await, Finally, TearDown, Leave, Queued,
         HeadRuns, AtConnect, AtLost, AtDisc
<1>21. ASSUME TunnelsStarted PROVE OneLossAtATime'
  BY <1>21, Queued, HeadRuns, LossMoves, TailFacts, Ops
     DEF TunnelsStarted, Finally, TearDown, Leave, Queued, HeadRuns, AtConnect,
         AtLost, AtDisc
<1>22. ASSUME CleanedUp PROVE OneLossAtATime'
  BY <1>22, Queued, HeadRuns, LossMoves, TailFacts, Ops
     DEF CleanedUp, DropSession, Suspend, Leave, Queued, HeadRuns, AtConnect, AtLost,
         AtDisc
<1>23. ASSUME StartDisconnect PROVE OneLossAtATime'
  BY <1>23, Queued, HeadRuns, LossMoves, TailFacts, Ops
     DEF StartDisconnect, Starting, Queued, HeadRuns, AtConnect, AtLost, AtDisc
<1>24. ASSUME Snapshot("discList", "discDrop") PROVE OneLossAtATime'
  BY <1>24, Queued, HeadRuns, LossMoves, TailFacts, Ops
     DEF Snapshot, LoadTunnels, Queued, HeadRuns, AtConnect, AtLost, AtDisc
<1>25. ASSUME Disconnected PROVE OneLossAtATime'
  BY <1>25, Queued, HeadRuns, LossMoves, TailFacts, Ops
     DEF Disconnected, DropSession, Suspend, Leave, Queued, HeadRuns, AtConnect,
         AtLost, AtDisc
<1>26. ASSUME StartLost PROVE OneLossAtATime'
  BY <1>26, Queued, HeadRuns, LossMoves, TailFacts, Ops
     DEF StartLost, Starting, Queued, HeadRuns, AtConnect, AtLost, AtDisc
<1>27. ASSUME Snapshot("lostList", "lostDrop") PROVE OneLossAtATime'
  BY <1>27, Queued, HeadRuns, LossMoves, TailFacts, Ops
     DEF Snapshot, LoadTunnels, Queued, HeadRuns, AtConnect, AtLost, AtDisc
<1>28. ASSUME SessionForgotten PROVE OneLossAtATime'
  BY <1>28, Queued, HeadRuns, LossMoves, TailFacts, Ops
     DEF SessionForgotten, DropSession, Queued, HeadRuns, AtConnect, AtLost, AtDisc
<1>29. ASSUME Reconciled PROVE OneLossAtATime'
  BY <1>29, Queued, HeadRuns, LossMoves, TailFacts, Ops
     DEF Reconciled, Leave, Queued, HeadRuns, AtConnect, AtLost, AtDisc
<1>30. ASSUME SessionDies PROVE OneLossAtATime'
  BY <1>30, Queued, HeadRuns, LossMoves, TailFacts, Ops
     DEF SessionDies, Queued, HeadRuns, AtConnect, AtLost, AtDisc
<1>31. ASSUME ReportArrives PROVE OneLossAtATime'
  BY <1>31, Queued, HeadRuns, LossMoves, TailFacts, Ops
     DEF ReportArrives, Free, Queued, HeadRuns, AtConnect, AtLost, AtDisc
<1>32. ASSUME EditHost PROVE OneLossAtATime'
  BY <1>32, Queued, HeadRuns, LossMoves, TailFacts, Ops
     DEF EditHost, Save, Queued, HeadRuns, AtConnect, AtLost, AtDisc
<1>33. ASSUME NEW st \in Status, EditSaved(st) PROVE OneLossAtATime'
  BY <1>33, Queued, HeadRuns, LossMoves, TailFacts, Ops
     DEF EditSaved, Free, Queued, HeadRuns, AtConnect, AtLost, AtDisc
<1>34. ASSUME NEW st \in Status, EditFails(st) PROVE OneLossAtATime'
  BY <1>34, Queued, HeadRuns, LossMoves, TailFacts, Ops
     DEF EditFails, Free, Queued, HeadRuns, AtConnect, AtLost, AtDisc
<1>. QED
  BY <1>1, <1>2, <1>3, <1>4, <1>5, <1>6, <1>7, <1>8, <1>9, <1>10, <1>11, <1>12, <1>13,
     <1>14, <1>15, <1>16, <1>17, <1>18, <1>19, <1>20, <1>21, <1>22, <1>23, <1>24, <1>25,
     <1>26, <1>27, <1>28, <1>29, <1>30, <1>31, <1>32, <1>33, <1>34
     DEF Next, User, Backend, Run
-----------------------------------------------------------------------------
(* A host that shows as connecting *)

LEMMA ConnectMoves ==
    ASSUME Queued, HasConnect
    PROVE  /\ UNCHANGED queue => HasConnect'
           /\ \A o \in Op : queue' = Append(queue, o) => HasConnect'
           /\ queue' = Doomed => HasConnect'
  <1>1. UNCHANGED queue => HasConnect'
    BY DEF HasConnect, Waiting
  <1>2. ASSUME NEW o \in Op, queue' = Append(queue, o) PROVE HasConnect'
    BY <1>2, AppendFacts DEF HasConnect, Waiting, Queued
  <1>3. queue' = Doomed => HasConnect'
    BY DoomedFacts DEF HasConnect, Waiting
  <1>. QED
    BY <1>1, <1>2, <1>3

LEMMA ConnectThere ==
    ASSUME Queued, queue # <<>>
    PROVE  /\ queue[1].kind = "connect" => HasConnect
           /\ queue' = Retry => HasConnect'
  <1>1. queue[1].kind = "connect" => HasConnect
    BY TailFacts DEF HasConnect, Waiting, Queued
  <1>2. ASSUME queue' = Retry PROVE HasConnect'
    <2>1. /\ Len(queue) \in Nat \ {0} /\ Len(queue') = Len(queue)
          /\ queue'[Len(queue)].kind = "connect"
      BY <1>2, RetryFacts, TailFacts, Ops DEF Queued
    <2>. QED
      BY <2>1 DEF HasConnect, Waiting
  <1>. QED
    BY <1>1, <1>2

LEMMA ConnectingStep ==
    ASSUME Queued, HeadRuns, AttemptRuns, StatusThere, ConnectingIsCancellable, Next
    PROVE  ConnectingIsCancellable'
<1>1. ASSUME AskConnect PROVE ConnectingIsCancellable'
  BY <1>1, Queued, HeadRuns, AttemptRuns, StatusThere, ConnectingIsCancellable,
     ConnectMoves, ConnectThere, Ops
     DEF AskConnect, Free, attempt, Queued, HeadRuns, AttemptRuns, StatusThere,
         ConnectingIsCancellable, AtConnect, AtLost, AtDisc, history
<1>2. ASSUME AskDisconnect PROVE ConnectingIsCancellable'
  BY <1>2, Queued, HeadRuns, AttemptRuns, StatusThere, ConnectingIsCancellable,
     ConnectMoves, ConnectThere, Ops
     DEF AskDisconnect, Free, attempt, Queued, HeadRuns, AttemptRuns, StatusThere,
         ConnectingIsCancellable, AtConnect, AtLost, AtDisc, history
<1>3. ASSUME CancelConnect PROVE ConnectingIsCancellable'
  BY <1>3, Queued, HeadRuns, AttemptRuns, StatusThere, ConnectingIsCancellable,
     ConnectMoves, ConnectThere, Ops
     DEF CancelConnect, Free, RecordCancel, attempt, Queued, HeadRuns, AttemptRuns,
         StatusThere, ConnectingIsCancellable, AtConnect, AtLost, AtDisc, Show
<1>4. ASSUME NEW t \in Tab, SpawnShell(t) PROVE ConnectingIsCancellable'
  BY <1>4, Queued, HeadRuns, AttemptRuns, StatusThere, ConnectingIsCancellable,
     ConnectMoves, ConnectThere, Ops
     DEF SpawnShell, Free, attempt, Queued, HeadRuns, AttemptRuns, StatusThere,
         ConnectingIsCancellable, AtConnect, AtLost, AtDisc, history
<1>5. ASSUME NEW t \in Tunnel, ToggleTunnel(t) PROVE ConnectingIsCancellable'
  BY <1>5, Queued, HeadRuns, AttemptRuns, StatusThere, ConnectingIsCancellable,
     ConnectMoves, ConnectThere, Ops
     DEF ToggleTunnel, Free, attempt, Queued, HeadRuns, AttemptRuns, StatusThere,
         ConnectingIsCancellable, AtConnect, AtLost, AtDisc, history
<1>6. ASSUME NEW r \in {"up", "failed", "challenge"}, Dialling(r) PROVE ConnectingIsCancellable'
  BY <1>6, Queued, HeadRuns, AttemptRuns, StatusThere, ConnectingIsCancellable,
     ConnectMoves, ConnectThere, Ops
     DEF Dialling, InFlight, attempt, Queued, HeadRuns, AttemptRuns, StatusThere,
         ConnectingIsCancellable, AtConnect, AtLost, AtDisc, history
<1>7. ASSUME CancelReachesBackend PROVE ConnectingIsCancellable'
  BY <1>7, Queued, HeadRuns, AttemptRuns, StatusThere, ConnectingIsCancellable,
     ConnectMoves, ConnectThere, Ops
     DEF CancelReachesBackend, InFlight, attempt, Queued, HeadRuns, AttemptRuns,
         StatusThere, ConnectingIsCancellable, AtConnect, AtLost, AtDisc, history
<1>8. ASSUME StartCancelled PROVE ConnectingIsCancellable'
  BY <1>8, Queued, HeadRuns, AttemptRuns, StatusThere, ConnectingIsCancellable,
     ConnectMoves, ConnectThere, Ops
     DEF StartCancelled, Starting, DropAttempt, Leave, attempt, Queued, HeadRuns,
         AttemptRuns, StatusThere, ConnectingIsCancellable, AtConnect, AtLost, AtDisc,
         Show
<1>9. ASSUME StartConnect PROVE ConnectingIsCancellable'
  BY <1>9, Queued, HeadRuns, AttemptRuns, StatusThere, ConnectingIsCancellable,
     ConnectMoves, ConnectThere, Ops
     DEF StartConnect, Starting, attempt, Queued, HeadRuns, AttemptRuns, StatusThere,
         ConnectingIsCancellable, AtConnect, AtLost, AtDisc, Show
<1>10. ASSUME StartMisconfigured PROVE ConnectingIsCancellable'
  BY <1>10, Queued, HeadRuns, AttemptRuns, StatusThere, ConnectingIsCancellable,
     ConnectMoves, ConnectThere, Ops
     DEF StartMisconfigured, Starting, Leave, attempt, Queued, HeadRuns, AttemptRuns,
         StatusThere, ConnectingIsCancellable, AtConnect, AtLost, AtDisc, Show
<1>11. ASSUME Unlock PROVE ConnectingIsCancellable'
  BY <1>11, Queued, HeadRuns, AttemptRuns, StatusThere, ConnectingIsCancellable,
     ConnectMoves, ConnectThere, Ops
     DEF Unlock, Await, Finally, TearDown, Leave, Rest, attempt, Queued, HeadRuns,
         AttemptRuns, StatusThere, ConnectingIsCancellable, AtConnect, AtLost, AtDisc,
         Show, Keep
<1>12. ASSUME Pull PROVE ConnectingIsCancellable'
  BY <1>12, Queued, HeadRuns, AttemptRuns, StatusThere, ConnectingIsCancellable,
     ConnectMoves, ConnectThere, Ops
     DEF Pull, DropAttempt, Await, Finally, TearDown, Leave, Rest, attempt, Queued,
         HeadRuns, AttemptRuns, StatusThere, ConnectingIsCancellable, AtConnect,
         AtLost, AtDisc, Show, Keep
<1>13. ASSUME Keys PROVE ConnectingIsCancellable'
  BY <1>13, Queued, HeadRuns, AttemptRuns, StatusThere, ConnectingIsCancellable,
     ConnectMoves, ConnectThere, Ops
     DEF Keys, DropAttempt, Await, Finally, TearDown, Leave, Rest, attempt, Queued,
         HeadRuns, AttemptRuns, StatusThere, ConnectingIsCancellable, AtConnect,
         AtLost, AtDisc, Show, Keep
<1>14. ASSUME SaveKey PROVE ConnectingIsCancellable'
  BY <1>14, Queued, HeadRuns, AttemptRuns, StatusThere, ConnectingIsCancellable,
     ConnectMoves, ConnectThere, Ops
     DEF SaveKey, Finally, TearDown, Leave, Rest, attempt, Queued, HeadRuns,
         AttemptRuns, StatusThere, ConnectingIsCancellable, AtConnect, AtLost, AtDisc,
         Keep
<1>15. ASSUME HostKeyAnswered PROVE ConnectingIsCancellable'
  BY <1>15, Queued, HeadRuns, AttemptRuns, StatusThere, ConnectingIsCancellable,
     ConnectMoves, ConnectThere, Ops
     DEF HostKeyAnswered, attempt, Queued, HeadRuns, AttemptRuns, StatusThere,
         ConnectingIsCancellable, AtConnect, AtLost, AtDisc, history
<1>16. ASSUME DialAnswered PROVE ConnectingIsCancellable'
  BY <1>16, Queued, HeadRuns, AttemptRuns, StatusThere, ConnectingIsCancellable,
     ConnectMoves, ConnectThere, Ops
     DEF DialAnswered, TearDown, Rest, attempt, Queued, HeadRuns, AttemptRuns,
         StatusThere, ConnectingIsCancellable, AtConnect, AtLost, AtDisc, Keep
<1>17. ASSUME DialRefused PROVE ConnectingIsCancellable'
  BY <1>17, Queued, HeadRuns, AttemptRuns, StatusThere, ConnectingIsCancellable,
     ConnectMoves, ConnectThere, Ops
     DEF DialRefused, DropAttempt, Await, Finally, TearDown, Leave, Rest, attempt,
         Queued, HeadRuns, AttemptRuns, StatusThere, ConnectingIsCancellable,
         AtConnect, AtLost, AtDisc, Show, Keep
<1>18. ASSUME UnlockForRetry PROVE ConnectingIsCancellable'
  BY <1>18, Queued, HeadRuns, AttemptRuns, StatusThere, ConnectingIsCancellable,
     ConnectMoves, ConnectThere, Ops
     DEF UnlockForRetry, Finally, TearDown, Leave, Rest, attempt, Queued, HeadRuns,
         AttemptRuns, StatusThere, ConnectingIsCancellable, AtConnect, AtLost, AtDisc,
         Show, Keep
<1>19. ASSUME HomeResolved PROVE ConnectingIsCancellable'
  BY <1>19, Queued, HeadRuns, AttemptRuns, StatusThere, ConnectingIsCancellable,
     ConnectMoves, ConnectThere, Ops
     DEF HomeResolved, TearDown, Rest, attempt, Queued, HeadRuns, AttemptRuns,
         StatusThere, ConnectingIsCancellable, AtConnect, AtLost, AtDisc, Show, Keep
<1>20. ASSUME RestartTunnels PROVE ConnectingIsCancellable'
  BY <1>20, Queued, HeadRuns, AttemptRuns, StatusThere, ConnectingIsCancellable,
     ConnectMoves, ConnectThere, Ops
     DEF RestartTunnels, LoadTunnels, Await, Finally, TearDown, Leave, attempt,
         Queued, HeadRuns, AttemptRuns, StatusThere, ConnectingIsCancellable,
         AtConnect, AtLost, AtDisc, Keep
<1>21. ASSUME TunnelsStarted PROVE ConnectingIsCancellable'
  BY <1>21, Queued, HeadRuns, AttemptRuns, StatusThere, ConnectingIsCancellable,
     ConnectMoves, ConnectThere, Ops
     DEF TunnelsStarted, Finally, TearDown, Leave, attempt, Queued, HeadRuns,
         AttemptRuns, StatusThere, ConnectingIsCancellable, AtConnect, AtLost, AtDisc,
         Keep
<1>22. ASSUME CleanedUp PROVE ConnectingIsCancellable'
  BY <1>22, Queued, HeadRuns, AttemptRuns, StatusThere, ConnectingIsCancellable,
     ConnectMoves, ConnectThere, Ops
     DEF CleanedUp, DropSession, Suspend, Leave, attempt, Queued, HeadRuns,
         AttemptRuns, StatusThere, ConnectingIsCancellable, AtConnect, AtLost, AtDisc,
         Show
<1>23. ASSUME StartDisconnect PROVE ConnectingIsCancellable'
  BY <1>23, Queued, HeadRuns, AttemptRuns, StatusThere, ConnectingIsCancellable,
     ConnectMoves, ConnectThere, Ops
     DEF StartDisconnect, Starting, attempt, Queued, HeadRuns, AttemptRuns,
         StatusThere, ConnectingIsCancellable, AtConnect, AtLost, AtDisc, history
<1>24. ASSUME Snapshot("discList", "discDrop") PROVE ConnectingIsCancellable'
  BY <1>24, Queued, HeadRuns, AttemptRuns, StatusThere, ConnectingIsCancellable,
     ConnectMoves, ConnectThere, Ops
     DEF Snapshot, LoadTunnels, attempt, Queued, HeadRuns, AttemptRuns, StatusThere,
         ConnectingIsCancellable, AtConnect, AtLost, AtDisc, history
<1>25. ASSUME Disconnected PROVE ConnectingIsCancellable'
  BY <1>25, Queued, HeadRuns, AttemptRuns, StatusThere, ConnectingIsCancellable,
     ConnectMoves, ConnectThere, Ops
     DEF Disconnected, DropSession, Suspend, Leave, attempt, Queued, HeadRuns,
         AttemptRuns, StatusThere, ConnectingIsCancellable, AtConnect, AtLost, AtDisc,
         Show
<1>26. ASSUME StartLost PROVE ConnectingIsCancellable'
  BY <1>26, Queued, HeadRuns, AttemptRuns, StatusThere, ConnectingIsCancellable,
     ConnectMoves, ConnectThere, Ops
     DEF StartLost, Starting, attempt, Queued, HeadRuns, AttemptRuns, StatusThere,
         ConnectingIsCancellable, AtConnect, AtLost, AtDisc, history
<1>27. ASSUME Snapshot("lostList", "lostDrop") PROVE ConnectingIsCancellable'
  BY <1>27, Queued, HeadRuns, AttemptRuns, StatusThere, ConnectingIsCancellable,
     ConnectMoves, ConnectThere, Ops
     DEF Snapshot, LoadTunnels, attempt, Queued, HeadRuns, AttemptRuns, StatusThere,
         ConnectingIsCancellable, AtConnect, AtLost, AtDisc, history
<1>28. ASSUME SessionForgotten PROVE ConnectingIsCancellable'
  BY <1>28, Queued, HeadRuns, AttemptRuns, StatusThere, ConnectingIsCancellable,
     ConnectMoves, ConnectThere, Ops
     DEF SessionForgotten, DropSession, attempt, Queued, HeadRuns, AttemptRuns,
         StatusThere, ConnectingIsCancellable, AtConnect, AtLost, AtDisc, Show
<1>29. ASSUME Reconciled PROVE ConnectingIsCancellable'
  BY <1>29, Queued, HeadRuns, AttemptRuns, StatusThere, ConnectingIsCancellable,
     ConnectMoves, ConnectThere, Ops
     DEF Reconciled, Leave, attempt, Queued, HeadRuns, AttemptRuns, StatusThere,
         ConnectingIsCancellable, AtConnect, AtLost, AtDisc, history
<1>30. ASSUME SessionDies PROVE ConnectingIsCancellable'
  BY <1>30, Queued, HeadRuns, AttemptRuns, StatusThere, ConnectingIsCancellable,
     ConnectMoves, ConnectThere, Ops
     DEF SessionDies, attempt, Queued, HeadRuns, AttemptRuns, StatusThere,
         ConnectingIsCancellable, AtConnect, AtLost, AtDisc, history
<1>31. ASSUME ReportArrives PROVE ConnectingIsCancellable'
  BY <1>31, Queued, HeadRuns, AttemptRuns, StatusThere, ConnectingIsCancellable,
     ConnectMoves, ConnectThere, Ops
     DEF ReportArrives, Free, attempt, Queued, HeadRuns, AttemptRuns, StatusThere,
         ConnectingIsCancellable, AtConnect, AtLost, AtDisc, history
<1>32. ASSUME EditHost PROVE ConnectingIsCancellable'
  BY <1>32, Queued, HeadRuns, AttemptRuns, StatusThere, ConnectingIsCancellable,
     ConnectMoves, ConnectThere, Ops
     DEF EditHost, Save, attempt, Queued, HeadRuns, AttemptRuns, StatusThere,
         ConnectingIsCancellable, AtConnect, AtLost, AtDisc, history
<1>33. ASSUME NEW st \in Status, EditSaved(st) PROVE ConnectingIsCancellable'
  BY <1>33, Queued, HeadRuns, AttemptRuns, StatusThere, ConnectingIsCancellable,
     ConnectMoves, ConnectThere, Ops
     DEF EditSaved, Free, attempt, Queued, HeadRuns, AttemptRuns, StatusThere,
         ConnectingIsCancellable, AtConnect, AtLost, AtDisc, history
<1>34. ASSUME NEW st \in Status, EditFails(st) PROVE ConnectingIsCancellable'
  BY <1>34, Queued, HeadRuns, AttemptRuns, StatusThere, ConnectingIsCancellable,
     ConnectMoves, ConnectThere, Ops
     DEF EditFails, Free, attempt, Queued, HeadRuns, AttemptRuns, StatusThere,
         ConnectingIsCancellable, AtConnect, AtLost, AtDisc, history
<1>. QED
  BY <1>1, <1>2, <1>3, <1>4, <1>5, <1>6, <1>7, <1>8, <1>9, <1>10, <1>11, <1>12, <1>13,
     <1>14, <1>15, <1>16, <1>17, <1>18, <1>19, <1>20, <1>21, <1>22, <1>23, <1>24, <1>25,
     <1>26, <1>27, <1>28, <1>29, <1>30, <1>31, <1>32, <1>33, <1>34
     DEF Next, User, Backend, Run
-----------------------------------------------------------------------------
(* A cancel kept for a queued connect *)


LEMMA PendingMoves ==
    ASSUME Queued, SwallowsOnlyWhatWasAsked, pending' /\ ~misled' => pending /\ ~misled
    PROVE  /\ UNCHANGED queue /\ (pc' = "idle" <=> pc = "idle") => SwallowsOnlyWhatWasAsked'
           /\ UNCHANGED queue /\ queue # <<>> /\ queue[1].kind # "connect"
              => SwallowsOnlyWhatWasAsked'
           /\ \A o \in Op : queue' = Append(queue, o) /\ (pc' = "idle" <=> pc = "idle")
                            /\ (pc = "idle" => queue = <<>>)
                            => SwallowsOnlyWhatWasAsked'
           /\ queue # <<>> /\ queue' = Tail(queue) /\ pc # "idle" /\ pc' = "idle"
              => SwallowsOnlyWhatWasAsked'
           /\ queue # <<>> /\ queue' = Retry /\ pc # "idle" /\ pc' = "idle"
              => SwallowsOnlyWhatWasAsked'
  <1>. USE DEF SwallowsOnlyWhatWasAsked
  <1>1. ASSUME UNCHANGED queue, pc' = "idle" <=> pc = "idle", pending', ~misled'
        PROVE  SwallowsOnlyWhatWasAsked'
    BY <1>1 DEF NextConnects, Waiting
  <1>2. ASSUME UNCHANGED queue, queue # <<>>, queue[1].kind # "connect", pending', ~misled'
        PROVE  SwallowsOnlyWhatWasAsked'
    <2>1. NextConnects' = NextConnects
      BY <1>2, TailFacts DEF NextConnects, Waiting, Queued
    <2>. QED
      BY <1>2, <2>1
  <1>3. ASSUME NEW o \in Op, queue' = Append(queue, o), pc' = "idle" <=> pc = "idle",
               pc = "idle" => queue = <<>>, pending', ~misled'
        PROVE  SwallowsOnlyWhatWasAsked'
    <2>1. Len(queue) \in Nat /\ Len(queue') = Len(queue) + 1
      BY <1>3, AppendFacts DEF Queued
    <2>2. \A i \in 1..Len(queue) : queue'[i] = queue[i]
      BY <1>3, AppendFacts DEF Queued
    <2>3. \A i \in NextConnects : i \in 1..Len(queue) /\ i \in NextConnects'
      BY <1>3, <2>1, <2>2 DEF NextConnects, Waiting
    <2>4. \A i \in NextConnects' : i \in NextConnects \/ i = Len(queue) + 1
      BY <1>3, <2>1, <2>2 DEF NextConnects, Waiting
    <2>. QED
      BY <1>3, <2>1, <2>2, <2>3, <2>4
  <1>4. ASSUME queue # <<>>, queue' = Tail(queue), pc # "idle", pc' = "idle", pending', ~misled'
        PROVE  SwallowsOnlyWhatWasAsked'
    <2>1. Len(queue) \in Nat \ {0} /\ Len(queue') = Len(queue) - 1
      BY <1>4, TailFacts DEF Queued
    <2>2. \A i \in 1..(Len(queue) - 1) : queue'[i] = queue[i + 1]
      BY <1>4, TailFacts DEF Queued
    <2>3. \A i \in NextConnects : /\ i \in Nat /\ i - 1 \in NextConnects'
                                  /\ queue'[i - 1] = queue[i]
      BY <1>4, <2>1, <2>2 DEF NextConnects, Waiting
    <2>4. \A i \in NextConnects' : /\ i \in Nat /\ i + 1 \in NextConnects
                                   /\ queue'[i] = queue[i + 1]
      BY <1>4, <2>1, <2>2 DEF NextConnects, Waiting
    <2>5. NextConnects' # {}
      BY <1>4, <2>3
    <2>6. ASSUME NEW i \in NextConnects'
          PROVE  queue'[i].doomed \/ \E j \in NextConnects' : j < i /\ queue'[j].doomed
      <3>1. CASE queue[i + 1].doomed
        BY <2>4, <3>1
      <3>2. ASSUME NEW j \in NextConnects, j < i + 1, queue[j].doomed
            PROVE  \E k \in NextConnects' : k < i /\ queue'[k].doomed
        <4>1. i \in Nat /\ j \in Nat /\ j - 1 < i
          BY <2>3, <2>4, <3>2
        <4>. QED
          BY <2>3, <3>2, <4>1
      <3>. QED
        BY <1>4, <2>4, <3>1, <3>2
    <2>. QED
      BY <2>5, <2>6
  <1>5. ASSUME queue # <<>>, queue' = Retry, pc # "idle", pc' = "idle", pending', ~misled'
        PROVE  SwallowsOnlyWhatWasAsked'
    <2>1. Len(queue) \in Nat \ {0} /\ Len(queue') = Len(queue)
      BY <1>5, TailFacts, RetryFacts DEF Queued
    <2>2. \A i \in 1..(Len(queue) - 1) : queue'[i] = queue[i + 1]
      BY <1>5, RetryFacts DEF Queued
    <2>3. \A i \in NextConnects : /\ i \in 2..Len(queue) /\ i - 1 \in NextConnects'
                                  /\ queue'[i - 1] = queue[i]
      BY <1>5, <2>1, <2>2 DEF NextConnects, Waiting
    <2>4. \A i \in NextConnects' : \/ i = Len(queue)
                                   \/ /\ i \in Nat /\ i + 1 \in NextConnects
                                      /\ queue'[i] = queue[i + 1]
      BY <1>5, <2>1, <2>2 DEF NextConnects, Waiting
    <2>5. NextConnects' # {}
      BY <1>5, <2>3
    <2>6. PICK k \in NextConnects : queue[k].doomed
      BY <1>5
    <2>7. ASSUME NEW i \in NextConnects'
          PROVE  queue'[i].doomed \/ \E j \in NextConnects' : j < i /\ queue'[j].doomed
      <3>1. CASE i = Len(queue)
        <4>1. k - 1 < i /\ k - 1 \in NextConnects' /\ queue'[k - 1].doomed
          BY <2>1, <2>3, <2>6, <3>1
        <4>. QED
          BY <4>1
      <3>2. CASE i \in Nat /\ i + 1 \in NextConnects /\ queue'[i] = queue[i + 1]
        <4>1. CASE queue[i + 1].doomed
          BY <3>2, <4>1
        <4>2. ASSUME NEW j \in NextConnects, j < i + 1, queue[j].doomed
              PROVE  \E m \in NextConnects' : m < i /\ queue'[m].doomed
          <5>1. j \in Nat /\ j - 1 < i
            BY <2>1, <2>3, <3>2, <4>2
          <5>. QED
            BY <2>3, <4>2, <5>1
        <4>. QED
          BY <1>5, <3>2, <4>1, <4>2
      <3>. QED
        BY <2>4, <3>1, <3>2
    <2>. QED
      BY <2>5, <2>7
  <1>. QED
    BY <1>1, <1>2, <1>3, <1>4, <1>5

LEMMA PendingStep ==
    ASSUME Queued, Flat, HeadRuns, AttemptRuns, StatusThere, SwallowsOnlyWhatWasAsked, Next
    PROVE  SwallowsOnlyWhatWasAsked'
<1>1. ASSUME AskConnect PROVE SwallowsOnlyWhatWasAsked'
  BY <1>1, Queued, HeadRuns, AttemptRuns, SwallowsOnlyWhatWasAsked, PendingMoves,
     TailFacts, Ops
     DEF AskConnect, Free, attempt, Queued, HeadRuns, AtConnect, AtLost, AtDisc, history
<1>2. ASSUME AskDisconnect PROVE SwallowsOnlyWhatWasAsked'
  BY <1>2, Queued, HeadRuns, AttemptRuns, SwallowsOnlyWhatWasAsked, PendingMoves,
     TailFacts, Ops
     DEF AskDisconnect, Free, attempt, Queued, HeadRuns, AtConnect, AtLost, AtDisc,
         history
<1>3. ASSUME CancelConnect PROVE SwallowsOnlyWhatWasAsked'
  <2>1. /\ Len(queue') = Len(queue) /\ Len(queue) \in Nat
        /\ \A i \in 1..Len(queue) : queue'[i].kind = queue[i].kind /\ queue'[i].doomed
    BY <1>3, DoomedFacts DEF CancelConnect
  <2>2. NextConnects' = NextConnects
    BY <1>3, <2>1 DEF CancelConnect, NextConnects, Waiting
  <2>3. \A i \in NextConnects' : queue'[i].doomed
    BY <2>1, <2>2 DEF NextConnects, Waiting
  <2>4. /\ status = "connecting"
        /\ pending' => pending \/ IF active THEN HasQueuedConnect ELSE HasConnect
        /\ pending' /\ ~misled' => ~misled /\ ~late
    BY <1>3 DEF CancelConnect, RecordCancel
  <2>5. ASSUME active, HasQueuedConnect PROVE NextConnects # {}
    BY <2>1, <2>5 DEF HasQueuedConnect, NextConnects, Waiting
  <2>6. ASSUME ~active, HasConnect, ~late PROVE NextConnects # {}
    <3>1. pc \notin AtConnect \cup {"cleanup"}
      BY <2>4, <2>6 DEF AttemptRuns, StatusThere
    <3>2. PICK i \in Waiting("connect") : TRUE
      BY <2>6 DEF HasConnect
    <3>3. pc # "idle" => queue[1].kind # "connect"
      BY <3>1 DEF HeadRuns, AtConnect, AtLost, AtDisc, Flat, PC
    <3>4. i > 1 \/ pc = "idle"
      BY <2>1, <3>2, <3>3 DEF Waiting
    <3>. QED
      BY <3>2, <3>4 DEF NextConnects
  <2>7. pending' /\ ~misled' => NextConnects # {}
    BY <2>4, <2>5, <2>6 DEF SwallowsOnlyWhatWasAsked
  <2>. QED
    BY <2>2, <2>3, <2>7 DEF SwallowsOnlyWhatWasAsked
<1>4. ASSUME NEW t \in Tab, SpawnShell(t) PROVE SwallowsOnlyWhatWasAsked'
  BY <1>4, Queued, HeadRuns, AttemptRuns, SwallowsOnlyWhatWasAsked, PendingMoves,
     TailFacts, Ops
     DEF SpawnShell, Free, attempt, Queued, HeadRuns, AtConnect, AtLost, AtDisc, history
<1>5. ASSUME NEW t \in Tunnel, ToggleTunnel(t) PROVE SwallowsOnlyWhatWasAsked'
  BY <1>5, Queued, HeadRuns, AttemptRuns, SwallowsOnlyWhatWasAsked, PendingMoves,
     TailFacts, Ops
     DEF ToggleTunnel, Free, attempt, Queued, HeadRuns, AtConnect, AtLost, AtDisc, history
<1>6. ASSUME NEW r \in {"up", "failed", "challenge"}, Dialling(r) PROVE SwallowsOnlyWhatWasAsked'
  BY <1>6, Queued, HeadRuns, AttemptRuns, SwallowsOnlyWhatWasAsked, PendingMoves,
     TailFacts, Ops
     DEF Dialling, InFlight, attempt, Queued, HeadRuns, AtConnect, AtLost, AtDisc, history
<1>7. ASSUME CancelReachesBackend PROVE SwallowsOnlyWhatWasAsked'
  BY <1>7, Queued, HeadRuns, AttemptRuns, SwallowsOnlyWhatWasAsked, PendingMoves,
     TailFacts, Ops
     DEF CancelReachesBackend, InFlight, attempt, Queued, HeadRuns, AtConnect, AtLost,
         AtDisc, history
<1>8. ASSUME StartCancelled PROVE SwallowsOnlyWhatWasAsked'
  BY <1>8 DEF StartCancelled, SwallowsOnlyWhatWasAsked, Show
<1>9. ASSUME StartConnect PROVE SwallowsOnlyWhatWasAsked'
  BY <1>9 DEF StartConnect, SwallowsOnlyWhatWasAsked, Show
<1>10. ASSUME StartMisconfigured PROVE SwallowsOnlyWhatWasAsked'
  BY <1>10 DEF StartMisconfigured, SwallowsOnlyWhatWasAsked, Show
<1>11. ASSUME Unlock PROVE SwallowsOnlyWhatWasAsked'
  BY <1>11, Queued, HeadRuns, AttemptRuns, SwallowsOnlyWhatWasAsked, PendingMoves,
     TailFacts, Ops
     DEF Unlock, Await, Finally, TearDown, Leave, Rest, attempt, Queued, HeadRuns,
         AtConnect, AtLost, AtDisc, Show, Keep
<1>12. ASSUME Pull PROVE SwallowsOnlyWhatWasAsked'
  BY <1>12, Queued, HeadRuns, AttemptRuns, SwallowsOnlyWhatWasAsked, PendingMoves,
     TailFacts, Ops
     DEF Pull, DropAttempt, Await, Finally, TearDown, Leave, Rest, attempt, Queued,
         HeadRuns, AtConnect, AtLost, AtDisc, Show, Keep
<1>13. ASSUME Keys PROVE SwallowsOnlyWhatWasAsked'
  BY <1>13, Queued, HeadRuns, AttemptRuns, SwallowsOnlyWhatWasAsked, PendingMoves,
     TailFacts, Ops
     DEF Keys, DropAttempt, Await, Finally, TearDown, Leave, Rest, attempt, Queued,
         HeadRuns, AtConnect, AtLost, AtDisc, Show, Keep
<1>14. ASSUME SaveKey PROVE SwallowsOnlyWhatWasAsked'
  BY <1>14, Queued, HeadRuns, AttemptRuns, SwallowsOnlyWhatWasAsked, PendingMoves,
     TailFacts, Ops
     DEF SaveKey, Finally, TearDown, Leave, Rest, attempt, Queued, HeadRuns,
         AtConnect, AtLost, AtDisc, Keep
<1>15. ASSUME HostKeyAnswered PROVE SwallowsOnlyWhatWasAsked'
  BY <1>15, Queued, HeadRuns, AttemptRuns, SwallowsOnlyWhatWasAsked, PendingMoves,
     TailFacts, Ops
     DEF HostKeyAnswered, attempt, Queued, HeadRuns, AtConnect, AtLost, AtDisc, history
<1>16. ASSUME DialAnswered PROVE SwallowsOnlyWhatWasAsked'
  BY <1>16, Queued, HeadRuns, AttemptRuns, SwallowsOnlyWhatWasAsked, PendingMoves,
     TailFacts, Ops
     DEF DialAnswered, TearDown, Rest, attempt, Queued, HeadRuns, AtConnect, AtLost,
         AtDisc, Keep
<1>17. ASSUME DialRefused PROVE SwallowsOnlyWhatWasAsked'
  BY <1>17, Queued, HeadRuns, AttemptRuns, SwallowsOnlyWhatWasAsked, PendingMoves,
     TailFacts, Ops
     DEF DialRefused, DropAttempt, Await, Finally, TearDown, Leave, Rest, attempt,
         Queued, HeadRuns, AtConnect, AtLost, AtDisc, Show, Keep
<1>18. ASSUME UnlockForRetry PROVE SwallowsOnlyWhatWasAsked'
  BY <1>18, Queued, HeadRuns, AttemptRuns, SwallowsOnlyWhatWasAsked, PendingMoves,
     TailFacts, Ops
     DEF UnlockForRetry, Finally, TearDown, Leave, Rest, attempt, Queued, HeadRuns,
         AtConnect, AtLost, AtDisc, Show, Keep
<1>19. ASSUME HomeResolved PROVE SwallowsOnlyWhatWasAsked'
  BY <1>19, Queued, HeadRuns, AttemptRuns, SwallowsOnlyWhatWasAsked, PendingMoves,
     TailFacts, Ops
     DEF HomeResolved, TearDown, Rest, attempt, Queued, HeadRuns, AtConnect, AtLost,
         AtDisc, Show, Keep
<1>20. ASSUME RestartTunnels PROVE SwallowsOnlyWhatWasAsked'
  BY <1>20, Queued, HeadRuns, AttemptRuns, SwallowsOnlyWhatWasAsked, PendingMoves,
     TailFacts, Ops
     DEF RestartTunnels, LoadTunnels, Await, Finally, TearDown, Leave, attempt,
         Queued, HeadRuns, AtConnect, AtLost, AtDisc, Keep
<1>21. ASSUME TunnelsStarted PROVE SwallowsOnlyWhatWasAsked'
  BY <1>21, Queued, HeadRuns, AttemptRuns, SwallowsOnlyWhatWasAsked, PendingMoves,
     TailFacts, Ops
     DEF TunnelsStarted, Finally, TearDown, Leave, attempt, Queued, HeadRuns,
         AtConnect, AtLost, AtDisc, Keep
<1>22. ASSUME CleanedUp PROVE SwallowsOnlyWhatWasAsked'
  BY <1>22, Queued, HeadRuns, AttemptRuns, SwallowsOnlyWhatWasAsked, PendingMoves,
     TailFacts, Ops
     DEF CleanedUp, DropSession, Suspend, Leave, attempt, Queued, HeadRuns, AtConnect,
         AtLost, AtDisc, Show
<1>23. ASSUME StartDisconnect PROVE SwallowsOnlyWhatWasAsked'
  BY <1>23, Queued, HeadRuns, AttemptRuns, SwallowsOnlyWhatWasAsked, PendingMoves,
     TailFacts, Ops
     DEF StartDisconnect, Starting, attempt, Queued, HeadRuns, AtConnect, AtLost,
         AtDisc, history
<1>24. ASSUME Snapshot("discList", "discDrop") PROVE SwallowsOnlyWhatWasAsked'
  BY <1>24, Queued, HeadRuns, AttemptRuns, SwallowsOnlyWhatWasAsked, PendingMoves,
     TailFacts, Ops
     DEF Snapshot, LoadTunnels, attempt, Queued, HeadRuns, AtConnect, AtLost, AtDisc,
         history
<1>25. ASSUME Disconnected PROVE SwallowsOnlyWhatWasAsked'
  BY <1>25, Queued, HeadRuns, AttemptRuns, SwallowsOnlyWhatWasAsked, PendingMoves,
     TailFacts, Ops
     DEF Disconnected, DropSession, Suspend, Leave, attempt, Queued, HeadRuns,
         AtConnect, AtLost, AtDisc, Show
<1>26. ASSUME StartLost PROVE SwallowsOnlyWhatWasAsked'
  BY <1>26, Queued, HeadRuns, AttemptRuns, SwallowsOnlyWhatWasAsked, PendingMoves,
     TailFacts, Ops
     DEF StartLost, Starting, attempt, Queued, HeadRuns, AtConnect, AtLost, AtDisc,
         history
<1>27. ASSUME Snapshot("lostList", "lostDrop") PROVE SwallowsOnlyWhatWasAsked'
  BY <1>27, Queued, HeadRuns, AttemptRuns, SwallowsOnlyWhatWasAsked, PendingMoves,
     TailFacts, Ops
     DEF Snapshot, LoadTunnels, attempt, Queued, HeadRuns, AtConnect, AtLost, AtDisc,
         history
<1>28. ASSUME SessionForgotten PROVE SwallowsOnlyWhatWasAsked'
  BY <1>28, Queued, HeadRuns, AttemptRuns, SwallowsOnlyWhatWasAsked, PendingMoves,
     TailFacts, Ops
     DEF SessionForgotten, DropSession, attempt, Queued, HeadRuns, AtConnect, AtLost,
         AtDisc, Show
<1>29. ASSUME Reconciled PROVE SwallowsOnlyWhatWasAsked'
  BY <1>29, Queued, HeadRuns, AttemptRuns, SwallowsOnlyWhatWasAsked, PendingMoves,
     TailFacts, Ops
     DEF Reconciled, Leave, attempt, Queued, HeadRuns, AtConnect, AtLost, AtDisc, history
<1>30. ASSUME SessionDies PROVE SwallowsOnlyWhatWasAsked'
  BY <1>30, Queued, HeadRuns, AttemptRuns, SwallowsOnlyWhatWasAsked, PendingMoves,
     TailFacts, Ops
     DEF SessionDies, attempt, Queued, HeadRuns, AtConnect, AtLost, AtDisc, history
<1>31. ASSUME ReportArrives PROVE SwallowsOnlyWhatWasAsked'
  BY <1>31, Queued, HeadRuns, AttemptRuns, SwallowsOnlyWhatWasAsked, PendingMoves,
     TailFacts, Ops
     DEF ReportArrives, Free, attempt, Queued, HeadRuns, AtConnect, AtLost, AtDisc,
         history
<1>32. ASSUME EditHost PROVE SwallowsOnlyWhatWasAsked'
  BY <1>32, Queued, HeadRuns, AttemptRuns, SwallowsOnlyWhatWasAsked, PendingMoves,
     TailFacts, Ops
     DEF EditHost, Save, attempt, Queued, HeadRuns, AtConnect, AtLost, AtDisc, history
<1>33. ASSUME NEW st \in Status, EditSaved(st) PROVE SwallowsOnlyWhatWasAsked'
  BY <1>33, Queued, HeadRuns, AttemptRuns, SwallowsOnlyWhatWasAsked, PendingMoves,
     TailFacts, Ops
     DEF EditSaved, Free, attempt, Queued, HeadRuns, AtConnect, AtLost, AtDisc, history
<1>34. ASSUME NEW st \in Status, EditFails(st) PROVE SwallowsOnlyWhatWasAsked'
  BY <1>34, Queued, HeadRuns, AttemptRuns, SwallowsOnlyWhatWasAsked, PendingMoves,
     TailFacts, Ops
     DEF EditFails, Free, attempt, Queued, HeadRuns, AtConnect, AtLost, AtDisc, history
<1>. QED
  BY <1>1, <1>2, <1>3, <1>4, <1>5, <1>6, <1>7, <1>8, <1>9, <1>10, <1>11, <1>12, <1>13,
     <1>14, <1>15, <1>16, <1>17, <1>18, <1>19, <1>20, <1>21, <1>22, <1>23, <1>24, <1>25,
     <1>26, <1>27, <1>28, <1>29, <1>30, <1>31, <1>32, <1>33, <1>34
     DEF Next, User, Backend, Run
-----------------------------------------------------------------------------
(* The theorems *)

LEMMA Types == TypeOK <=> Queued /\ Flags /\ Flat /\ Saves
  BY DEF TypeOK, Queued, Flags, Flat, Saves

LEMMA InitInv == Init => Inv
  <1>. SUFFICES ASSUME Init PROVE Inv
    OBVIOUS
  <1>1. Queued
    BY EmptySeq DEF Init, Queued
  <1>2. Flags
    BY ZenonT(20) DEF Init, Flags
  <1>3. Flat /\ Saves
    BY DEF Init, Flat, Saves, PC, Status
  <1>4. \A k : Waiting(k) = {}
    BY EmptySeq DEF Init, Waiting
  <1>5. OneLossAtATime /\ ConnectingIsCancellable /\ SwallowsOnlyWhatWasAsked
    BY <1>4 DEF Init, OneLossAtATime, ConnectingIsCancellable, SwallowsOnlyWhatWasAsked
  <1>6. Control
    BY DEF Init, Control, HeadRuns, AttemptRuns, StatusThere, LiveThere, LiveHasSession,
           AtConnect, AtLost, AtDisc
  <1>. QED
    BY <1>1, <1>2, <1>3, <1>5, <1>6, Types DEF Inv

LEMMA InvStep == Inv /\ [Next]_vars => Inv'
  <1>1. ASSUME Inv, Next PROVE Inv'
    <2>1. Queued /\ Flags /\ Flat /\ Saves /\ Busy
      BY <1>1, Types DEF Inv, Control, HeadRuns, Busy
    <2>2. Queued' /\ Flags' /\ Flat' /\ Saves'
      BY <1>1, <2>1, QueueStep, FlagStep, FlatStep, SavesStep
    <2>3. TypeOK'
      BY <2>2 DEF TypeOK, Queued, Flags, Flat, Saves
    <2>4. Control'
      BY <1>1, <2>1, HeadStep, AttemptStep, StatusStep, LiveStep DEF Inv, Control
    <2>5. OneLossAtATime' /\ ConnectingIsCancellable' /\ SwallowsOnlyWhatWasAsked'
      BY <1>1, <2>1, LossStep, ConnectingStep, PendingStep DEF Inv, Control
    <2>. QED
      BY <2>3, <2>4, <2>5 DEF Inv
  <1>2. ASSUME Inv, UNCHANGED vars PROVE Inv'
    <2>. USE <1>2 DEF Inv, vars, history, attempt, view, tunnels, backend, bounds
    <2>1. TypeOK'
      BY DEF TypeOK
    <2>2. Control'
      BY DEF Control, HeadRuns, AttemptRuns, StatusThere, LiveThere, LiveHasSession
    <2>3. OneLossAtATime' /\ ConnectingIsCancellable'
      BY DEF OneLossAtATime, ConnectingIsCancellable, HasConnect, Waiting
    <2>4. SwallowsOnlyWhatWasAsked'
      BY DEF SwallowsOnlyWhatWasAsked, NextConnects, Waiting
    <2>. QED
      BY <2>1, <2>2, <2>3, <2>4
  <1>. QED
    BY <1>1, <1>2

(* The inductive invariant holds in every state of every behaviour.          *)
THEOREM HostInvariant == Spec => []Inv
  BY InitInv, InvStep, PTL DEF Spec

(* Every variable keeps its type.                                            *)
THEOREM TypesHold == Spec => []TypeOK
  BY HostInvariant, PTL DEF Inv

(* A cancel kept for a queued connect never ends one asked for later, if the *)
(* status it was of was not an old one that a late edit put back.            *)
THEOREM CancelsHitWhatWasAsked == Spec => []SwallowsOnlyWhatWasAsked
  BY HostInvariant, PTL DEF Inv

(* No path of connect leaves a spinner nobody can stop; a late edit may.     *)
THEOREM SpinnersCanBeStopped == Spec => []ConnectingIsCancellable
  BY HostInvariant, PTL DEF Inv

(* The guard of loss events is held while its operation is queued, no longer. *)
THEOREM LossesAreHeard == Spec => []OneLossAtATime
  BY HostInvariant, PTL DEF Inv

(* A host marked live has a session in the backend, dead or alive.           *)
THEOREM MarksMeanSessions == Spec => []LiveHasSession
  <1>1. Inv => LiveHasSession
    BY DEF Inv, Control, LiveThere
  <1>. QED
    BY <1>1, HostInvariant, PTL

(* A host shown connected, with nothing queued, is live and has no tab or    *)
(* tunnel left over from before its connect: whatever edits were saved, as   *)
(* long as none has put the status back since an operation set it.           *)
THEOREM QuietHostsAgree == Spec => []QuietHostAgrees
  <1>1. Inv => QuietHostAgrees
    <2>. SUFFICES ASSUME Inv, Quiet, status = "connected", ~late
                  PROVE  live /\ ~parked /\ remembered = {}
      BY DEF QuietHostAgrees
    <2>1. ~handled
      BY EmptySeq DEF Inv, OneLossAtATime, Waiting, Quiet
    <2>2. pc = "idle"
      BY DEF Quiet
    <2>. QED
      BY <2>1, <2>2 DEF Inv, Control, StatusThere, AtDisc, AtLost
  <1>. QED
    BY <1>1, HostInvariant, PTL

(* A cancelled attempt never shows its host connected; only the late save of *)
(* an edit does.                                                             *)
THEOREM CancelledNeverConnects == Spec => CancelledStaysOffline
  <1>1. ASSUME Inv, Next, cancelled, ~late' PROVE status' # "connected"
    <2>1. pc \in AtConnect /\ pc # "idle" /\ (~late => status = "disconnected")
      BY <1>1 DEF Inv, Control, AttemptRuns, AtConnect
    <2>2. \/ status' = status /\ late' = late
          \/ \E st \in Status : st # "connected" /\ Show(st)
          \/ \E st \in Status : EditSaved(st)
      BY <1>1, <2>1 DEF Next, User, Backend, Run, AskConnect, AskDisconnect,
             CancelConnect, SpawnShell, ToggleTunnel, EditHost, EditFails, Dialling,
             CancelReachesBackend, StartCancelled, DropAttempt, StartConnect,
             StartMisconfigured, Unlock, Pull, Keys, SaveKey, HostKeyAnswered,
             DialAnswered, DialRefused, UnlockForRetry, HomeResolved, RestartTunnels,
             TunnelsStarted, CleanedUp, StartDisconnect, Snapshot, Disconnected,
             StartLost, SessionForgotten, Reconciled, SessionDies, ReportArrives,
             Keep, history, Status
    <2>3. ASSUME NEW st \in Status, EditSaved(st) PROVE status' = status /\ ~late
      BY <1>1, <2>3 DEF EditSaved, Inv, TypeOK
    <2>. QED
      BY <1>1, <2>1, <2>2, <2>3 DEF Show
  <1>2. Inv /\ [Next]_vars => [cancelled /\ ~late' => status' # "connected"]_vars
    BY <1>1
  <1>. QED
    BY <1>2, HostInvariant, PTL DEF Spec, CancelledStaysOffline

=============================================================================
