----------------------------- MODULE HostSession -----------------------------
(***************************************************************************)
(* The life of one remote host in the frontend: the connect, disconnect    *)
(* and transport-lost operations of the connection store, serialized per   *)
(* host by a chain of promises, against a user who connects, cancels and   *)
(* disconnects, a backend that dials, loses sessions and reports the loss  *)
(* late, prompts that take their time, and the terminals and tunnels that  *)
(* hang from the session.                                                  *)
(*                                                                         *)
(* The frontend runs on one thread: a step here is what runs between two   *)
(* awaits.  An operation that reaches the head of the chain starts in a    *)
(* microtask, before any event: see Free.                                  *)
(***************************************************************************)
EXTENDS Naturals, Sequences

CONSTANTS Tab,          \* the terminal tabs of the host
          Tunnel,       \* its saved tunnels
          AutoStart,    \* those that start with every connection
          MaxRequests,  \* bound: connects, disconnects and edits asked from outside
          MaxDeaths     \* bound: sessions that die by themselves

ASSUME AutoStartAssumption == AutoStart \subseteq Tunnel
ASSUME BoundsAssumption == MaxRequests \in Nat /\ MaxDeaths \in Nat

VARIABLES queue,      \* opChains: the operations of the host, the head runs
          pc,         \* what the running operation waits for
          status,     \* the status the store shows
          late,       \* history: an edit of the host has put that status back
          misled,     \* history: the cancel in pending was of such a status
          edits,      \* edits whose save is under way, by the status they hold
          live,       \* liveEpochByConnection has the host
          active,     \* activeConnectAttempts has the running attempt
          cancelled,  \* cancelledConnectAttempts has it
          pending,    \* pendingConnectCancellations has the host
          handled,    \* handledConnections has the host
          vaultAuth,  \* the host authenticates with a vault item
          shells,     \* the tabs whose PTY is spawned
          parked,     \* the tabs are pendingRestore
          shown,      \* the tunnels the store shows active
          remembered, \* activeBeforeDisconnect
          toStart,    \* the tunnels a connect is starting
          session,    \* backend: the session in its map of connections
          dial,       \* backend: the connect call of the running attempt
          cancelIpc,  \* a cancel of the running attempt is on its way there
          listening,  \* backend: the tunnels that run
          reports,    \* transport-lost events not delivered yet
          asked, deaths

attempt == <<active, cancelled, pending>>
view    == <<shells, parked, vaultAuth>>
tunnels == <<shown, remembered, toStart>>
backend == <<session, listening>>
bounds  == <<asked, deaths>>
history == <<late, misled>>
vars    == <<queue, pc, status, history, edits, live, attempt, handled, view, tunnels,
             backend, dial, cancelIpc, reports, bounds>>

Status == {"disconnected", "connecting", "connected", "error"}

Op == [kind : {"connect", "disconnect", "lost"},
       skip : BOOLEAN,     \* skipVaultPrompt
       doomed : BOOLEAN]   \* history: the user cancelled after it was asked

PC == {"idle", "unlock", "pull", "keys", "saveKey", "dial", "unlockRetry", "cwd",
       "tunnels", "starting", "cleanup", "lostList", "lostDrop", "lostReconcile",
       "discList", "discDrop"}

TypeOK == /\ queue \in Seq(Op) /\ pc \in PC
          /\ status \in Status /\ late \in BOOLEAN /\ misled \in BOOLEAN
          /\ edits \in [Status -> Nat]
          /\ live \in BOOLEAN /\ active \in BOOLEAN /\ cancelled \in BOOLEAN
          /\ pending \in BOOLEAN /\ handled \in BOOLEAN /\ vaultAuth \in BOOLEAN
          /\ shells \subseteq Tab /\ parked \in BOOLEAN
          /\ shown \subseteq Tunnel /\ remembered \subseteq Tunnel
          /\ toStart \subseteq Tunnel /\ listening \subseteq Tunnel
          /\ session \in {"none", "up", "dead"}
          /\ dial \in {"none", "running", "challenge", "approved", "up", "failed"}
          /\ cancelIpc \in BOOLEAN
          /\ reports \in Nat /\ asked \in Nat /\ deaths \in Nat

Init == /\ queue = <<>> /\ pc = "idle" /\ status = "disconnected" /\ live = FALSE
        /\ late = FALSE /\ misled = FALSE /\ edits = [st \in Status |-> 0]
        /\ active = FALSE /\ cancelled = FALSE /\ pending = FALSE /\ handled = FALSE
        /\ vaultAuth \in BOOLEAN /\ shells = {} /\ parked = FALSE
        /\ shown = {} /\ remembered = {} /\ toStart = {} /\ listening = {}
        /\ session = "none" /\ dial = "none" /\ cancelIpc = FALSE /\ reports = 0
        /\ asked = 0 /\ deaths = 0

Connect(skip) == [kind |-> "connect", skip |-> skip, doomed |-> FALSE]
Disconnect    == [kind |-> "disconnect", skip |-> FALSE, doomed |-> FALSE]
Lost          == [kind |-> "lost", skip |-> FALSE, doomed |-> FALSE]

Waiting(kind) == {i \in 1..Len(queue) : queue[i].kind = kind}

\* hasSerializedConnectOp, hasQueuedSerializedConnectOp: a connect counts from
\* the moment it is asked to the moment it settles.
HasConnect       == Waiting("connect") # {}
HasQueuedConnect == \E i, j \in Waiting("connect") : i # j

\* No operation is about to start, so the event loop may run something else.
Free  == pc = "idle" => queue = <<>>
Quiet == pc = "idle" /\ queue = <<>>
-----------------------------------------------------------------------------
(* How a connect ends. *)

\* An operation sets the status, or leaves it.
Show(st) == status' = st /\ late' = FALSE
Keep     == UNCHANGED <<status, late>>

Leave == /\ queue' = Tail(queue) /\ pc' = "idle" /\ active' = FALSE

\* finishCancelledConnect(false): the flag is consumed, nothing is torn down.
DropAttempt == /\ Leave /\ cancelled' = FALSE /\ live' = FALSE
               /\ Show("disconnected")
               /\ UNCHANGED view

\* finishCancelledConnect(true), up to its call of the backend.
TearDown == /\ pc' = "cleanup" /\ cancelled' = FALSE /\ active' = FALSE
            /\ live' = FALSE
            /\ UNCHANGED <<queue, view>>

\* The finally of a connect.
Finally == IF cancelled THEN TearDown
           ELSE Leave /\ UNCHANGED <<cancelled, live, view>>

Await(where) == pc' = where /\ UNCHANGED <<queue, active, cancelled, live, view>>

\* A variant of Retry that asks for the vault again, and again.
RetryPrompting == Append(Tail(queue), Connect(FALSE))

Retry == Append(Tail(queue), Connect(TRUE))

Rest == UNCHANGED <<misled, edits, pending, handled, tunnels, backend, reports, bounds>>
-----------------------------------------------------------------------------
(* What the user asks for. *)

\* Callers of connect: anything but a connected host (tunnel lists, the file
\* panel, copy to server), a disconnected one (opening its tab).
AskConnect ==
    /\ Free /\ asked < MaxRequests /\ status # "connected"
    /\ queue' = Append(queue, Connect(FALSE)) /\ asked' = asked + 1
    /\ UNCHANGED <<pc, status, history, edits, live, attempt, handled, view, tunnels,
                   backend, dial, cancelIpc, reports, deaths>>

\* Callers of disconnect: a connected host, or a file or dashboard call that
\* was answered "Connection not found".
AskDisconnect ==
    /\ Free /\ asked < MaxRequests /\ (status = "connected" \/ session = "none")
    /\ queue' = Append(queue, Disconnect) /\ asked' = asked + 1
    /\ UNCHANGED <<pc, status, history, edits, live, attempt, handled, view, tunnels,
                   backend, dial, cancelIpc, reports, deaths>>

\* A variant of RecordCancel that takes the running connect for a queued one.
RecordCancelAlways ==
    /\ cancelled' = (cancelled \/ active)
    /\ pending'   = (pending \/ HasConnect)

\* recordConnectCancellation
RecordCancel ==
    /\ cancelled' = (cancelled \/ active)
    /\ pending'   = (pending \/ IF active THEN HasQueuedConnect ELSE HasConnect)

\* History: every operation asked so far is older than the cancel.
Doomed == [i \in 1..Len(queue) |-> [queue[i] EXCEPT !.doomed = TRUE]]

\* cancelConnect, offered (stage panel, last tab closed) while connecting.
CancelConnect ==
    /\ Free /\ status = "connecting"
    /\ RecordCancel /\ misled' = (pending' /\ (misled \/ late))
    /\ live' = FALSE /\ Show("disconnected") /\ cancelIpc' = active
    /\ queue' = Doomed
    /\ UNCHANGED <<pc, edits, active, handled, view, tunnels, backend, dial, reports,
                   bounds>>

\* spawnTerminalSession: a shell starts only on a host that is connected and live.
SpawnShell(t) ==
    /\ Free /\ status = "connected" /\ live /\ t \notin shells
    /\ shells' = shells \cup {t}
    /\ UNCHANGED <<queue, pc, status, history, edits, live, attempt, handled, parked,
                   vaultAuth, tunnels, backend, dial, cancelIpc, reports, bounds>>

\* startTunnel and stopTunnel by the user, with the status event that follows.
ToggleTunnel(t) ==
    /\ Free /\ status = "connected" /\ session = "up"
    /\ \/ listening' = listening \cup {t} /\ shown' = shown \cup {t}
       \/ listening' = listening \ {t}    /\ shown' = shown \ {t}
    /\ UNCHANGED <<queue, pc, status, history, edits, live, attempt, handled, view,
                   remembered, toStart, session, dial, cancelIpc, reports, bounds>>

\* An edit saves the whole host as it was when the edit was made.
Save == edits' = [edits EXCEPT ![status] = @ + 1]

\* editConnection by the user: the form keeps the status of the moment.
EditHost ==
    /\ Free /\ asked < MaxRequests
    /\ Save /\ asked' = asked + 1
    /\ UNCHANGED <<queue, pc, status, history, live, attempt, handled, view, tunnels,
                   backend, dial, cancelIpc, reports, deaths>>

\* The save is done: the host is put back as it was when the edit was made.
EditSaved(st) ==
    /\ Free /\ edits[st] > 0
    /\ edits' = [edits EXCEPT ![st] = @ - 1]
    /\ status' = st /\ late' = (late \/ st # status)
    /\ UNCHANGED <<queue, misled, pc, live, attempt, handled, view, tunnels, backend,
                   dial, cancelIpc, reports, bounds>>

\* The save fails, and with it the edit.
EditFails(st) ==
    /\ Free /\ edits[st] > 0
    /\ edits' = [edits EXCEPT ![st] = @ - 1]
    /\ UNCHANGED <<queue, pc, status, history, live, attempt, handled, view, tunnels,
                   backend, dial, cancelIpc, reports, bounds>>
-----------------------------------------------------------------------------
(* connect *)

Starting(kind) == pc = "idle" /\ queue # <<>> /\ Head(queue).kind = kind

\* registerConnectAttempt: a cancel left for a queued connect ends it here.
StartCancelled ==
    /\ Starting("connect") /\ pending
    /\ DropAttempt /\ pending' = FALSE /\ misled' = FALSE
    /\ UNCHANGED <<edits, handled, tunnels, backend, dial, cancelIpc, reports, bounds>>

StartConnect ==
    /\ Starting("connect") /\ ~pending
    /\ Show("connecting") /\ active' = TRUE /\ cancelled' = FALSE
    /\ pc' = IF ~vaultAuth THEN "keys" ELSE IF Head(queue).skip THEN "pull" ELSE "unlock"
    /\ dial' = "none" /\ cancelIpc' = FALSE
    /\ UNCHANGED <<queue, misled, edits, live, pending, handled, view, tunnels,
                   backend, reports, bounds>>

\* buildConnectConfigResult finds no authentication, agent key or jump host.
StartMisconfigured ==
    /\ Starting("connect") /\ ~pending
    /\ Show("error") /\ Leave /\ cancelled' = FALSE
    /\ UNCHANGED <<misled, edits, live, pending, handled, view, tunnels, backend, dial,
                   cancelIpc, reports, bounds>>

\* requestUnlock is answered.
Unlock ==
    /\ pc = "unlock"
    /\ \/ Await("pull") /\ Keep
       \/ Show("disconnected") /\ Finally
    /\ Rest /\ UNCHANGED <<dial, cancelIpc>>

\* ensureVaultCredentialForConnect is answered.
Pull ==
    /\ pc = "pull"
    /\ IF cancelled THEN DropAttempt
       ELSE \/ Await("keys") /\ Keep
            \/ Show("disconnected") /\ Finally
    /\ Rest /\ UNCHANGED <<dial, cancelIpc>>

\* prepareConnectKeyPassphrases: answered, dismissed, or the user wants the key
\* in the vault instead.
Keys ==
    /\ pc = "keys"
    /\ IF cancelled THEN DropAttempt /\ UNCHANGED dial
       ELSE \/ Await("dial") /\ dial' = "running" /\ Keep
            \/ Show("disconnected") /\ Finally /\ UNCHANGED dial
            \/ /\ ~vaultAuth /\ Await("saveKey")
               /\ Show("disconnected") /\ UNCHANGED dial
    /\ Rest /\ UNCHANGED cancelIpc

\* The key moves to the vault and a second connect is asked for, or it does not.
SaveKey ==
    /\ pc = "saveKey"
    /\ \/ /\ ~cancelled
          /\ vaultAuth' = TRUE /\ queue' = Retry /\ pc' = "idle" /\ active' = FALSE
          /\ Keep /\ UNCHANGED <<live, cancelled, shells, parked>>
       \/ Keep /\ Finally
    /\ Rest /\ UNCHANGED <<dial, cancelIpc>>

InFlight == dial \in {"running", "approved"}

\* The backend's half of connectIpc.  An approved host key is not asked for twice.
Dialling(result) ==
    /\ InFlight /\ dial' = result
    /\ result = "challenge" => dial = "running"
    /\ session' = IF result = "up" THEN "up" ELSE session
    /\ UNCHANGED <<queue, pc, status, history, edits, live, attempt, handled, view,
                   tunnels, listening, cancelIpc, reports, bounds>>

\* ssh_cancel_connect ends the dial of its own attempt, or finds none to end.
CancelReachesBackend ==
    /\ cancelIpc /\ cancelIpc' = FALSE
    /\ \/ UNCHANGED dial
       \/ InFlight /\ dial' = "failed"
    /\ UNCHANGED <<queue, pc, status, history, edits, live, attempt, handled, view,
                   tunnels, backend, reports, bounds>>

\* connectWithHostKeyVerification: the approved host is dialled again, whatever
\* was cancelled while the dialog was open.
HostKeyAnswered ==
    /\ pc = "dial" /\ dial = "challenge"
    /\ dial' \in {"approved", "failed"}
    /\ UNCHANGED <<queue, pc, status, history, edits, live, attempt, handled, view,
                   tunnels, backend, cancelIpc, reports, bounds>>

DialAnswered ==
    /\ pc = "dial" /\ dial = "up"
    /\ IF cancelled
       THEN TearDown
       ELSE pc' = "cwd" /\ live' = TRUE /\ UNCHANGED <<queue, active, cancelled, view>>
    /\ Keep /\ Rest /\ UNCHANGED <<dial, cancelIpc>>

\* The catch of connect; a vault error is worth one more try after an unlock.
DialRefused ==
    /\ pc = "dial" /\ dial = "failed"
    /\ IF cancelled THEN DropAttempt
       ELSE \/ Show("error") /\ Finally
            \/ /\ vaultAuth /\ ~Head(queue).skip
               /\ Await("unlockRetry") /\ Keep
    /\ Rest /\ UNCHANGED <<dial, cancelIpc>>

\* A variant of UnlockForRetry that returns on a declined unlock and says nothing.
UnlockForRetrySilent ==
    /\ pc = "unlockRetry"
    /\ \/ /\ ~cancelled
          /\ queue' = Retry /\ pc' = "idle" /\ active' = FALSE
          /\ Keep /\ UNCHANGED <<live, cancelled, view>>
       \/ Keep /\ Finally
    /\ Rest /\ UNCHANGED <<dial, cancelIpc>>

UnlockForRetry ==
    /\ pc = "unlockRetry"
    /\ \/ /\ ~cancelled
          /\ queue' = Retry /\ pc' = "idle" /\ active' = FALSE
          /\ Keep /\ UNCHANGED <<live, cancelled, view>>
       \/ Show("disconnected") /\ Finally
    /\ Rest /\ UNCHANGED <<dial, cancelIpc>>

\* A variant of HomeResolved without its last checkpoint.
HomeResolvedUnchecked ==
    /\ pc = "cwd"
    /\ Show("connected") /\ shells' = {} /\ parked' = FALSE
    /\ pc' = "tunnels"
    /\ UNCHANGED <<queue, active, cancelled, live, vaultAuth>>
    /\ Rest /\ UNCHANGED <<dial, cancelIpc>>

\* getRemoteCwd is answered or fails: the host is connected, its tabs leave the
\* parking and their old PTYs are dropped.
HomeResolved ==
    /\ pc = "cwd"
    /\ IF cancelled
       THEN TearDown /\ Keep
       ELSE /\ Show("connected") /\ shells' = {} /\ parked' = FALSE
            /\ pc' = "tunnels"
            /\ UNCHANGED <<queue, active, cancelled, live, vaultAuth>>
    /\ Rest /\ UNCHANGED <<dial, cancelIpc>>

\* loadTunnels: the backend stops what listens without a session; a call that
\* fails leaves the list as it was.
LoadTunnels ==
    \/ /\ listening' = IF session = "up" THEN listening ELSE {}
       /\ shown' = listening'
    \/ UNCHANGED <<listening, shown>>

\* restartTunnelsAfterConnect, up to its calls of the backend.
\* A variant of RestartTunnels that keeps what it remembered.
RestartTunnelsAgain ==
    /\ pc = "tunnels" /\ LoadTunnels
    /\ UNCHANGED remembered
    /\ IF cancelled
       THEN TearDown /\ Keep /\ UNCHANGED toStart
       ELSE /\ toStart' = remembered \cup AutoStart
            /\ IF toStart' = {} THEN Keep /\ Finally
               ELSE Await("starting") /\ Keep
    /\ UNCHANGED <<misled, edits, pending, handled, session, reports, bounds, dial, cancelIpc>>

RestartTunnels ==
    /\ pc = "tunnels" /\ LoadTunnels
    /\ IF cancelled
       THEN TearDown /\ Keep /\ UNCHANGED <<remembered, toStart>>
       ELSE /\ toStart' = remembered \cup AutoStart /\ remembered' = {}
            /\ IF toStart' = {} THEN Keep /\ Finally
               ELSE Await("starting") /\ Keep
    /\ UNCHANGED <<misled, edits, pending, handled, session, reports, bounds, dial, cancelIpc>>

\* If a tunnel has started the feature is pinned, unless it is: an edit of the
\* host that connect does not wait for.
TunnelsStarted ==
    /\ pc = "starting"
    /\ \E got \in SUBSET toStart :
          /\ session = "up" \/ got = {}
          /\ listening' = listening \cup got /\ shown' = shown \cup got
          /\ \/ got # {} /\ ~cancelled /\ Save
             \/ UNCHANGED edits
    /\ toStart' = {}
    /\ Keep /\ Finally
    /\ UNCHANGED <<misled, pending, handled, remembered, session, reports, bounds, dial,
                   cancelIpc>>

\* ssh_disconnect: tunnels stopped, each with its event, the session forgotten.
DropSession == session' = "none" /\ listening' = {} /\ shown' = {}

Suspend == shells' = {} /\ parked' = TRUE /\ UNCHANGED vaultAuth

\* The rest of finishCancelledConnect(true).
CleanedUp ==
    /\ pc = "cleanup" /\ DropSession
    /\ Suspend /\ Show("disconnected") /\ Leave
    /\ UNCHANGED <<misled, edits, live, cancelled, pending, handled, remembered,
                   toStart, dial, cancelIpc, reports, bounds>>
-----------------------------------------------------------------------------
(* disconnect, and the loss of a session *)

\* A variant of StartDisconnect that leaves the mark.
StartDisconnectMarked ==
    /\ Starting("disconnect") /\ pc' = "discList"
    /\ UNCHANGED <<queue, status, history, edits, live, attempt, handled, view,
                   tunnels, backend, dial, cancelIpc, reports, bounds>>

StartDisconnect ==
    /\ Starting("disconnect") /\ live' = FALSE /\ pc' = "discList"
    /\ UNCHANGED <<queue, status, history, edits, attempt, handled, view, tunnels,
                   backend, dial, cancelIpc, reports, bounds>>

\* loadTunnels and snapshotActiveTunnelsForReconnect, on both ways out.
Snapshot(at, then) ==
    /\ pc = at /\ LoadTunnels /\ pc' = then
    /\ remembered' = IF shown' = {} THEN remembered ELSE shown'
    /\ UNCHANGED <<queue, status, history, edits, live, attempt, handled, view,
                   toStart, session, dial, cancelIpc, reports, bounds>>

Disconnected ==
    /\ pc = "discDrop" /\ DropSession
    /\ Suspend /\ Show("disconnected") /\ Leave
    /\ UNCHANGED <<misled, edits, live, cancelled, pending, handled, remembered,
                   toStart, dial, cancelIpc, reports, bounds>>

\* The session dies.  Whoever notices, a shell's reader or the tunnels' watcher,
\* reports it; the watcher stops the tunnels first.
SessionDies ==
    /\ session = "up" /\ deaths < MaxDeaths
    /\ session' = "dead" /\ deaths' = deaths + 1
    /\ \E n \in 0..2 : reports' = reports + n
    /\ \/ UNCHANGED <<listening, shown>>
       \/ listening' = {} /\ shown' = {}
    /\ UNCHANGED <<queue, pc, status, history, edits, live, attempt, handled, view,
                   remembered, toStart, dial, cancelIpc, asked>>

\* handleConnectionTransportLost: one at a time, without a word on which session.
ReportArrives ==
    /\ Free /\ reports > 0 /\ reports' = reports - 1
    /\ IF handled THEN UNCHANGED <<queue, live, handled, shells>>
       ELSE /\ handled' = TRUE /\ shells' = {} /\ live' = FALSE
            /\ queue' = Append(queue, Lost)
    /\ UNCHANGED <<pc, status, history, edits, attempt, parked, vaultAuth, tunnels,
                   backend, dial, cancelIpc, bounds>>

StartLost ==
    /\ Starting("lost") /\ live' = FALSE /\ pc' = "lostList"
    /\ UNCHANGED <<queue, status, history, edits, attempt, handled, view, tunnels,
                   backend, dial, cancelIpc, reports, bounds>>

\* transportLostIpc forgets the session that is there now; the tabs are parked.
SessionForgotten ==
    /\ pc = "lostDrop" /\ DropSession
    /\ Show("disconnected") /\ parked' = TRUE /\ pc' = "lostReconcile"
    /\ UNCHANGED <<queue, misled, edits, live, attempt, handled, shells, vaultAuth,
                   remembered, toStart, dial, cancelIpc, reports, bounds>>

\* reconcileTunnelsForConnection, then handledConnections lets go of the host.
\* A variant of Reconciled that does not let go of the host.
ReconciledHeld ==
    /\ pc = "lostReconcile" /\ shown' = {} /\ Leave
    /\ UNCHANGED <<status, history, edits, live, handled, cancelled, pending, view,
                   remembered, toStart, backend, dial, cancelIpc, reports, bounds>>

Reconciled ==
    /\ pc = "lostReconcile" /\ shown' = {} /\ Leave /\ handled' = FALSE
    /\ UNCHANGED <<status, history, edits, live, cancelled, pending, view, remembered,
                   toStart, backend, dial, cancelIpc, reports, bounds>>
-----------------------------------------------------------------------------
User == \/ AskConnect \/ AskDisconnect \/ CancelConnect
        \/ EditHost
        \/ \E t \in Tab : SpawnShell(t)
        \/ \E t \in Tunnel : ToggleTunnel(t)

Backend == \/ \E r \in {"up", "failed", "challenge"} : Dialling(r)
           \/ CancelReachesBackend
           \/ \E st \in Status : EditSaved(st) \/ EditFails(st)

Run == \/ StartCancelled \/ StartConnect \/ StartMisconfigured
       \/ Unlock \/ Pull \/ Keys \/ SaveKey \/ HostKeyAnswered
       \/ DialAnswered \/ DialRefused \/ UnlockForRetry \/ HomeResolved
       \/ RestartTunnels \/ TunnelsStarted \/ CleanedUp
       \/ StartDisconnect \/ Snapshot("discList", "discDrop") \/ Disconnected
       \/ StartLost \/ Snapshot("lostList", "lostDrop") \/ SessionForgotten \/ Reconciled

Next == User \/ Backend \/ Run \/ SessionDies \/ ReportArrives

Spec == Init /\ [][Next]_vars

\* Prompts are answered, calls return, a dial ends one way or the other.
Settles == \/ Dialling("up") \/ Dialling("failed")
Fairness == WF_vars(Run) /\ WF_vars(Settles) /\ WF_vars(ReportArrives)
FairSpec == Spec /\ Fairness
-----------------------------------------------------------------------------
(* A connect that the user cancelled never shows its host connected, at      *)
(* whatever await the cancel found it (the checkpoints of connect); only an   *)
(* edit that was saved late may put an older status back.                    *)
CancelledStaysOffline == [][cancelled /\ ~late' => status' # "connected"]_vars

(* A cancel kept for a queued connect ends one that was asked before the     *)
(* cancel, never one the user asked for since (pendingConnectCancellations). *)
(* It holds of cancels of a status that an operation has set: a late edit     *)
(* brings the cancel button back while a cancelled connect cleans up, which  *)
(* is no attempt any more, and the cancel is recorded with nothing queued.   *)
NextConnects == {i \in Waiting("connect") : i > 1 \/ pc = "idle"}
SwallowsOnlyWhatWasAsked ==
    pending /\ ~misled =>
       /\ NextConnects # {}
       /\ \A i \in NextConnects :
             queue[i].doomed \/ \E j \in NextConnects : j < i /\ queue[j].doomed

(* A host that shows as connecting has an attempt the cancel button reaches: *)
(* no path of an operation leaves the spinner behind.                        *)
ConnectingIsCancellable == status = "connecting" /\ ~late => active \/ HasConnect

(* The mark that lets shells spawn is not left on a host whose session the   *)
(* frontend made the backend forget.                                         *)
LiveHasSession == live => session # "none"

(* The guard against repeated loss events is held exactly while the one      *)
(* operation it stands for is queued: a later loss is not ignored for good.  *)
OneLossAtATime == /\ handled <=> Waiting("lost") # {}
                  /\ \A i, j \in Waiting("lost") : i = j

(* Once every operation of a host has settled, a host shown connected may    *)
(* spawn shells, has no tab waiting for a reconnect, and owes no tunnel of   *)
(* before a restart: unless a late edit has put that status back.            *)
QuietHostAgrees ==
    Quiet /\ status = "connected" /\ ~late => live /\ ~parked /\ remembered = {}

(* Every operation a host was asked for comes to an end.                     *)
EverythingSettles == queue # <<>> ~> Quiet
=============================================================================
