--------------------------- MODULE SshConnections ---------------------------
(***************************************************************************)
(* The backend's connection registry (src-tauri/src/commands.rs): the map  *)
(* `connect_tasks` of connect attempts in progress, the map `connections`  *)
(* of live handles, and the commands that change them.  Every command runs *)
(* as a task of its own; a step below is what one command does between two *)
(* points where it can be suspended, so commands interleave at exactly the *)
(* places where the code awaits or re-takes a mutex.                       *)
(*                                                                         *)
(* Two families of activations work on the maps:                           *)
(*   - an attempt is one call of ssh_connect, named by its attempt id;     *)
(*   - a caller is a command that needs the session of a stored connection *)
(*     and re-establishes it on demand: terminal_create over               *)
(*     open_ssh_channel_with_single_reconnect ("terminal"), fs_list over   *)
(*     get_sftp_or_reconnect ("sftp").                                     *)
(***************************************************************************)
EXTENDS Naturals, FiniteSets

CONSTANTS
  Host,         \* connection ids
  Attempt,      \* calls of ssh_connect; each attempt id is used once
  Caller,       \* commands that use a stored connection
  HostOf,       \* the connection an attempt is for
  VaultHost,    \* connections whose configuration uses vault credentials
  MaxSessions,  \* bound: SSH sessions that are ever established
  None          \* the absent entry, handle, session or lock

ASSUME HostOfAssumption == HostOf \in [Attempt -> Host]
ASSUME VaultHostAssumption == VaultHost \subseteq Host
ASSUME MaxSessionsAssumption == MaxSessions \in Nat
VARIABLES
  connectTasks,  \* AppState::connect_tasks
  apc,           \* where each call of ssh_connect stands, or what it returned
  task,          \* the spawned task that dials for an attempt
  dialled,       \* the session that task established
  connections,   \* AppState::connections
  cpc,           \* where each caller stands
  call,          \* what each caller was asked for
  held,          \* the session a caller has cloned out of the registry
  wait,          \* the reconnect_lock a caller has cloned
  read,          \* the generation a caller expects to replace
  fresh,         \* the session a caller has dialled
  removed,       \* history: reconnecting callers whose host was removed
  lockHolder,    \* who holds a reconnect_lock
  nextSession,   \* the next session id
  dead,          \* sessions whose transport is gone
  sweep,         \* the ids ssh_disconnect_vault_backed has collected
  accepted,      \* history: attempts for which a cancel found an entry
  superseded     \* history: attempts whose entry a newer attempt overwrote

attemptVars == <<connectTasks, apc, task, dialled, accepted, superseded>>
localVars   == <<call, held, wait, read, fresh, removed>>
callerVars  == <<cpc, call, held, wait, read, fresh, removed, lockHolder>>
netVars     == <<nextSession, dead>>
vars == <<connectTasks, apc, task, dialled, connections, cpc, call, held, wait, read,
          fresh, removed, lockHolder, nextSession, dead, sweep, accepted, superseded>>

-----------------------------------------------------------------------------
\* Data

Session == 1 .. MaxSessions

\* ConnectAttempt: the cancel flag is the watch channel of Preparing; the
\* abort handle of Connecting is the attempt's own task.
Entry == [phase : {"preparing", "connecting"}, attempt : Attempt, cancel : BOOLEAN]

\* ConnectionHandle.  A reconnect_lock is named by the session of the
\* ssh_connect that created it.  origin (the session this handle was
\* installed with) and connect (the session of the ssh_connect it descends
\* from, through reconnects) are history: the code keeps neither.
Handle == [session : Session \cup {None}, sftp : Session \cup {None},
           generation : Nat, lock : Session, vault : BOOLEAN,
           origin : Session, connect : Session]

\* An absent entry is no entry, an absent handle no handle, and a free lock is
\* held by no caller.
ASSUME NoneAssumption == None \notin Entry /\ None \notin Handle /\ None \notin Caller

Returned == {"connected", "cancelled", "superseded", "failed"}

AttemptPC == {"idle", "prepare", "prepareCancelled", "prepareFailed", "gate",
              "register", "discardCancelled", "discardSuperseded", "await",
              "publish"} \cup Returned

TaskState == {"none", "running", "aborting", "ready", "error", "aborted"}

CallerPC == {"idle", "lookup", "config", "lock", "dial", "install",
             "relookup", "use", "clear", "clearAndFail"}

Kind == {"terminal", "sftp"}

\* The locals of a caller.  lineage and basis say, for the properties, from
\* which connect the handle descends whose lock the caller cloned, and which
\* handle it read the generation of.
Request == [kind : Kind, host : Host \cup {None}, retry : BOOLEAN]
Wait == [lock : Session \cup {None}, lineage : Session \cup {None}]
Reading == [generation : Nat, basis : Session \cup {None}]

NoRequest == [kind |-> "terminal", host |-> None, retry |-> FALSE]
NoWait == [lock |-> None, lineage |-> None]
NoReading == [generation |-> 0, basis |-> None]

\* Where a reconnect holds the lock: reconnect_stored_connection between
\* lock_owned and its return.
Reconnecting(c) == cpc[c] \in {"dial", "install"}

\* Variants of the ownership checks that do not compare the attempt id.
AnyPreparing(a) ==
  connectTasks[HostOf[a]] # None /\ connectTasks[HostOf[a]].phase = "preparing"

AnyConnecting(a) ==
  connectTasks[HostOf[a]] # None /\ connectTasks[HostOf[a]].phase = "connecting"

\* The entry of the map is a Preparing (Connecting) entry of attempt a.
PreparingBy(a) ==
  LET e == connectTasks[HostOf[a]] IN
    e # None /\ e.phase = "preparing" /\ e.attempt = a

ConnectingBy(a) ==
  LET e == connectTasks[HostOf[a]] IN
    e # None /\ e.phase = "connecting" /\ e.attempt = a

\* AbortHandle::abort: a finished task is unaffected; a running one stops
\* at its next suspension point, and may still finish before it.
Abort(tasks, a) ==
  [tasks EXCEPT ![a] = IF @ = "running" THEN "aborting" ELSE @]

Established == nextSession <= MaxSessions

-----------------------------------------------------------------------------
Init ==
  /\ connectTasks = [h \in Host |-> None]
  /\ apc = [a \in Attempt |-> "idle"]
  /\ task = [a \in Attempt |-> "none"]
  /\ dialled = [a \in Attempt |-> None]
  /\ connections = [h \in Host |-> None]
  /\ cpc = [c \in Caller |-> "idle"]
  /\ call = [c \in Caller |-> NoRequest]
  /\ held = [c \in Caller |-> None]
  /\ wait = [c \in Caller |-> NoWait]
  /\ read = [c \in Caller |-> NoReading]
  /\ fresh = [c \in Caller |-> None]
  /\ removed = {}
  /\ lockHolder = [s \in Session |-> None]
  /\ nextSession = 1
  /\ dead = {}
  /\ sweep = None
  /\ accepted = {}
  /\ superseded = {}

-----------------------------------------------------------------------------
\* ssh_connect

\* A variant of Predecessor that leaves a dial in progress alone.
UnabortedPredecessor(h) == task

\* The tasks after the entry of host h has been taken over: a Connecting
\* predecessor is aborted.
Predecessor(h) ==
  LET previous == connectTasks[h] IN
    IF previous # None /\ previous.phase = "connecting"
    THEN Abort(task, previous.attempt) ELSE task

\* The attempt registers itself, replacing whatever was in progress: a
\* Connecting predecessor is aborted, a Preparing one loses the sender of
\* its watch channel.
Begin(a) ==
  LET h == HostOf[a]
      previous == connectTasks[h]
  IN
  /\ apc[a] = "idle"
  /\ apc' = [apc EXCEPT ![a] = "prepare"]
  /\ connectTasks' = [connectTasks EXCEPT ![h] =
       [phase |-> "preparing", attempt |-> a, cancel |-> FALSE]]
  /\ superseded' = superseded \cup
       (IF previous = None THEN {} ELSE {previous.attempt})
  /\ task' = Predecessor(h)
  /\ UNCHANGED <<dialled, connections, callerVars, netVars, sweep, accepted>>

\* wait_for returns when the flag is set, and errs when the sender is gone.
\* The select is biased: preparation ends only while the flag is clear.
CancelSeen(a) ==
  PreparingBy(a) => connectTasks[HostOf[a]].cancel

PrepareEnds(a) ==
  /\ apc[a] = "prepare"
  /\ \/ CancelSeen(a) /\ apc' = [apc EXCEPT ![a] = "prepareCancelled"]
     \/ /\ ~CancelSeen(a)
        /\ \E next \in {"gate", "prepareFailed"} : apc' = [apc EXCEPT ![a] = next]
  /\ UNCHANGED <<connectTasks, task, dialled, connections, callerVars, netVars,
                 sweep, accepted, superseded>>

\* The error path after preparation: only the owner of the entry removes it.
PrepareError(a) ==
  /\ apc[a] \in {"prepareCancelled", "prepareFailed"}
  /\ IF PreparingBy(a)
     THEN /\ connectTasks' = [connectTasks EXCEPT ![HostOf[a]] = None]
          /\ apc' = [apc EXCEPT ![a] =
               IF connectTasks[HostOf[a]].cancel \/ @ = "prepareCancelled"
               THEN "cancelled" ELSE "failed"]
     ELSE /\ apc' = [apc EXCEPT ![a] = "superseded"]
          /\ UNCHANGED connectTasks
  /\ UNCHANGED <<task, dialled, connections, callerVars, netVars, sweep,
                 accepted, superseded>>

\* The check before the task is spawned, and the spawn.
Gate(a) ==
  /\ apc[a] = "gate"
  /\ IF ~PreparingBy(a)
     THEN /\ apc' = [apc EXCEPT ![a] = "superseded"]
          /\ UNCHANGED <<connectTasks, task>>
     ELSE IF connectTasks[HostOf[a]].cancel
     THEN /\ apc' = [apc EXCEPT ![a] = "cancelled"]
          /\ connectTasks' = [connectTasks EXCEPT ![HostOf[a]] = None]
          /\ UNCHANGED task
     ELSE /\ apc' = [apc EXCEPT ![a] = "register"]
          /\ task' = [task EXCEPT ![a] = "running"]
          /\ UNCHANGED connectTasks
  /\ UNCHANGED <<dialled, connections, callerVars, netVars, sweep, accepted,
                 superseded>>

\* spawn_outcome: the check is repeated now that the task runs; an attempt
\* that lost its entry in between aborts the task it has just spawned.
Register(a) ==
  /\ apc[a] = "register"
  /\ IF ~PreparingBy(a)
     THEN /\ apc' = [apc EXCEPT ![a] = "discardSuperseded"]
          /\ task' = Abort(task, a)
          /\ UNCHANGED connectTasks
     ELSE IF connectTasks[HostOf[a]].cancel
     THEN /\ apc' = [apc EXCEPT ![a] = "discardCancelled"]
          /\ task' = Abort(task, a)
          /\ connectTasks' = [connectTasks EXCEPT ![HostOf[a]] = None]
     ELSE /\ apc' = [apc EXCEPT ![a] = "await"]
          /\ connectTasks' = [connectTasks EXCEPT ![HostOf[a]] =
               [phase |-> "connecting", attempt |-> a, cancel |-> FALSE]]
          /\ UNCHANGED task
  /\ UNCHANGED <<dialled, connections, callerVars, netVars, sweep, accepted,
                 superseded>>

\* The dial of an attempt's task ends: reconnect_connection returns a handle
\* or an error.
TaskFinishes(a) ==
  /\ task[a] \in {"running", "aborting"}
  /\ \/ /\ Established
        /\ task' = [task EXCEPT ![a] = "ready"]
        /\ dialled' = [dialled EXCEPT ![a] = nextSession]
        /\ nextSession' = nextSession + 1
     \/ /\ task' = [task EXCEPT ![a] = "error"]
        /\ UNCHANGED <<dialled, nextSession>>
  /\ UNCHANGED <<connectTasks, apc, connections, callerVars, dead, sweep,
                 accepted, superseded>>

\* The runtime drops an aborted task at its next suspension point.
AbortLands(a) ==
  /\ task[a] = "aborting"
  /\ task' = [task EXCEPT ![a] = "aborted"]
  /\ UNCHANGED <<connectTasks, apc, dialled, connections, callerVars, netVars,
                 sweep, accepted, superseded>>

\* The session of a task that ended with one before its abort took effect.
TornDown(a) == IF task[a] = "ready" THEN {dialled[a]} ELSE {}

\* Waits for the aborted task, and tears down the session it may have made.
Discard(a) ==
  /\ apc[a] \in {"discardCancelled", "discardSuperseded"}
  /\ task[a] \in {"ready", "error", "aborted"}
  /\ apc' = [apc EXCEPT ![a] =
       IF @ = "discardCancelled" THEN "cancelled" ELSE "superseded"]
  /\ dead' = dead \cup TornDown(a)
  /\ UNCHANGED <<connectTasks, task, dialled, connections, callerVars,
                 nextSession, sweep, accepted, superseded>>

\* The task has ended: still_owns_attempt decides whether its session may be
\* published, and takes the entry out of the map.
Settle(a) ==
  /\ apc[a] = "await"
  /\ task[a] \in {"ready", "error", "aborted"}
  /\ connectTasks' = IF ConnectingBy(a)
                     THEN [connectTasks EXCEPT ![HostOf[a]] = None]
                     ELSE connectTasks
  /\ apc' = [apc EXCEPT ![a] =
       IF task[a] = "error" THEN "failed"
       ELSE IF task[a] = "ready" /\ ConnectingBy(a) THEN "publish" ELSE "cancelled"]
  /\ dead' = IF ConnectingBy(a) THEN dead ELSE dead \cup TornDown(a)
  /\ UNCHANGED <<task, dialled, connections, callerVars, nextSession, sweep,
                 accepted, superseded>>

\* A variant of PublishedGeneration that never counts on.
FirstGeneration(h) == 0

PublishedGeneration(h) ==
  IF connections[h] = None THEN 0 ELSE connections[h].generation + 1

\* The handle goes into the registry under a lock of its own, some time
\* after the entry was taken out of the other map.
Publish(a) ==
  LET h == HostOf[a]
      s == dialled[a]
  IN
  /\ apc[a] = "publish"
  /\ apc' = [apc EXCEPT ![a] = "connected"]
  /\ \E sftp \in {s, None} :
       connections' = [connections EXCEPT ![h] =
         [session |-> s, sftp |-> sftp,
          generation |-> PublishedGeneration(h), lock |-> s,
          vault |-> h \in VaultHost, origin |-> s, connect |-> s]]
  /\ UNCHANGED <<connectTasks, task, dialled, callerVars, netVars, sweep,
                 accepted, superseded>>

\* A variant of CancelDial that only forgets the entry.
ForgetDial(a) == task

\* Aborting the task whose Connecting entry was taken out of the map.
CancelDial(a) == Abort(task, a)

\* ssh_cancel_connect; `wanted` is its optional attempt id (None: any).
CancelConnect(h, wanted) ==
  LET e == connectTasks[h] IN
  /\ e # None
  /\ wanted \in {None, e.attempt}
  /\ accepted' = accepted \cup {e.attempt}
  /\ \/ /\ e.phase = "preparing"
        /\ connectTasks' = [connectTasks EXCEPT ![h] =
             [phase |-> "preparing", attempt |-> e.attempt, cancel |-> TRUE]]
        /\ UNCHANGED task
     \/ /\ e.phase = "connecting"
        /\ connectTasks' = [connectTasks EXCEPT ![h] = None]
        /\ task' = CancelDial(e.attempt)
  /\ UNCHANGED <<apc, dialled, connections, callerVars, netVars, sweep,
                 superseded>>

-----------------------------------------------------------------------------
\* Removal from the registry

\* The callers that are reconnecting one of these hosts, which is removed.
Bereft(hosts) == {c \in Caller : Reconnecting(c) /\ call[c].host \in hosts}

\* All locals of the callers but the history of removals.
keptVars == <<cpc, call, held, wait, read, fresh, lockHolder>>

\* ssh_disconnect and ssh_transport_lost: what they do to the registry.
Disconnect(h) ==
  /\ connections[h] # None
  /\ connections' = [connections EXCEPT ![h] = None]
  /\ removed' = removed \cup Bereft({h})
  /\ UNCHANGED <<attemptVars, keptVars, netVars, sweep>>

\* ssh_disconnect_vault_backed: the ids are collected under the lock, the
\* terminals and tunnels are closed without it, and the ids are removed
\* under it again -- or, when a terminal or tunnel failed to close, are not.
SweepCollect ==
  /\ sweep = None
  /\ sweep' = {h \in Host : connections[h] # None /\ connections[h].vault}
  /\ UNCHANGED <<attemptVars, connections, callerVars, netVars>>

SweepRemove ==
  /\ sweep # None
  /\ sweep' = None
  /\ \/ /\ connections' = [h \in Host |-> IF h \in sweep THEN None ELSE connections[h]]
        /\ removed' = removed \cup Bereft(sweep)
     \/ UNCHANGED <<connections, removed>>
  /\ UNCHANGED <<attemptVars, keptVars, netVars>>

\* A transport dies under its session.
TransportDies(s) ==
  /\ s < nextSession
  /\ s \notin dead
  /\ dead' = dead \cup {s}
  /\ UNCHANGED <<attemptVars, connections, callerVars, nextSession, sweep>>

-----------------------------------------------------------------------------
\* terminal_create and fs_list: use the stored session, reconnect on demand

\* What a caller looks for in its host's handle.
Live(c) ==
  LET conn == connections[call[c].host] IN
    IF conn = None THEN None
    ELSE IF call[c].kind = "terminal" THEN conn.session ELSE conn.sftp

Goto(c, pc) == cpc' = [cpc EXCEPT ![c] = pc]

\* The command starts over with no locals but its request.
Enter(c, pc, request) ==
  /\ Goto(c, pc)
  /\ call' = [call EXCEPT ![c] = request]
  /\ held' = [held EXCEPT ![c] = None]
  /\ wait' = [wait EXCEPT ![c] = NoWait]
  /\ read' = [read EXCEPT ![c] = NoReading]
  /\ fresh' = [fresh EXCEPT ![c] = None]
  /\ removed' = removed \ {c}

Return(c) == Enter(c, "idle", NoRequest)

\* Dropping _reconnect_guard.
Release(c) == lockHolder' = [lockHolder EXCEPT ![wait[c].lock] = None]

Call(c, kind, h) ==
  /\ cpc[c] = "idle"
  /\ Enter(c, "lookup", [kind |-> kind, host |-> h, retry |-> FALSE])
  /\ UNCHANGED <<attemptVars, connections, lockHolder, netVars, sweep>>

\* The session is cloned out of the registry.
Take(c) ==
  /\ Live(c) # None
  /\ Goto(c, "use")
  /\ held' = [held EXCEPT ![c] = Live(c)]
  /\ UNCHANGED <<call, wait, read, fresh, removed>>

\* The first read of the registry.  get_live_ssh_session looks at the handle
\* again before it gives up; get_sftp_or_reconnect does not.
Lookup(c) ==
  LET missing == connections[call[c].host] = None IN
  /\ cpc[c] = "lookup"
  /\ \/ Take(c)
     \/ /\ Live(c) = None
        /\ missing => call[c].kind = "terminal"
        /\ Goto(c, "config")
        /\ UNCHANGED localVars
     \/ missing /\ call[c].kind = "sftp" /\ Return(c)
  /\ UNCHANGED <<attemptVars, connections, lockHolder, netVars, sweep>>

\* The configuration and the reconnect_lock are read from whatever handle is
\* installed now.
ReadLock(c) ==
  LET conn == connections[call[c].host] IN
  /\ cpc[c] = "config"
  /\ \/ conn = None /\ Return(c)
     \/ /\ conn # None
        /\ Goto(c, "lock")
        /\ wait' = [wait EXCEPT ![c] = [lock |-> conn.lock, lineage |-> conn.connect]]
        /\ UNCHANGED <<call, held, read, fresh, removed>>
  /\ UNCHANGED <<attemptVars, connections, lockHolder, netVars, sweep>>

\* lock_owned returns and expected_generation is read under it.
AcquireLock(c) ==
  LET conn == connections[call[c].host] IN
  /\ cpc[c] = "lock"
  /\ lockHolder[wait[c].lock] = None
  /\ \/ conn = None /\ Return(c) /\ UNCHANGED lockHolder
     \/ /\ conn # None
        /\ Goto(c, "dial")
        /\ read' = [read EXCEPT ![c] = [generation |-> conn.generation,
                                        basis |-> conn.origin]]
        /\ lockHolder' = [lockHolder EXCEPT ![wait[c].lock] = c]
        /\ UNCHANGED <<call, held, wait, fresh, removed>>
  /\ UNCHANGED <<attemptVars, connections, netVars, sweep>>

\* Vault resolution, key passphrases and reconnect_connection, as one dial.
Dial(c) ==
  /\ cpc[c] = "dial"
  /\ \/ /\ Established
        /\ Goto(c, "install")
        /\ fresh' = [fresh EXCEPT ![c] = nextSession]
        /\ nextSession' = nextSession + 1
        /\ UNCHANGED <<call, held, wait, read, removed, lockHolder>>
     \/ Return(c) /\ Release(c) /\ UNCHANGED nextSession
  /\ UNCHANGED <<attemptVars, connections, dead, sweep>>

NoOtherHandle(c) ==
  connections[call[c].host] # None
    => connections[call[c].host].generation = read[c].generation

FreshLock(c) == fresh[c]

\* The installed handle still has the generation this caller read.
StillCurrent(c) ==
  /\ connections[call[c].host] # None
  /\ connections[call[c].host].generation = read[c].generation

InstalledLock(c) == wait[c].lock

\* The new handle replaces the installed one if the generation still matches;
\* it keeps the reconnect_lock this caller holds.
Install(c) ==
  LET h == call[c].host
      s == fresh[c]
  IN
  /\ cpc[c] = "install"
  /\ \/ /\ StillCurrent(c)
        /\ \E sftp \in {s, None} :
             connections' = [connections EXCEPT ![h] =
               [session |-> s, sftp |-> sftp,
                generation |-> read[c].generation + 1, lock |-> InstalledLock(c),
                vault |-> h \in VaultHost, origin |-> s, connect |-> wait[c].lineage]]
        /\ Goto(c, "relookup")
        /\ UNCHANGED localVars
     \/ ~StillCurrent(c) /\ Return(c) /\ UNCHANGED connections
  /\ Release(c)
  /\ UNCHANGED <<attemptVars, netVars, sweep>>

Relookup(c) ==
  /\ cpc[c] = "relookup"
  /\ Take(c) \/ (Live(c) = None /\ Return(c))
  /\ UNCHANGED <<attemptVars, connections, lockHolder, netVars, sweep>>

\* A variant of TimeBounded that does not bound the wait for the lock.
DialBounded(c) == Reconnecting(c)

\* Inside the future that get_sftp_or_reconnect gives twelve seconds.
TimeBounded(c) == cpc[c] \in {"config", "lock", "dial", "install"}

\* get_sftp_or_reconnect bounds the whole reconnect: the future is dropped,
\* and the lock with it.
ReconnectTimeout(c) ==
  /\ call[c].kind = "sftp"
  /\ TimeBounded(c)
  /\ Return(c)
  /\ IF Reconnecting(c) THEN Release(c) ELSE UNCHANGED lockHolder
  /\ UNCHANGED <<attemptVars, connections, netVars, sweep>>

\* The use ends the command: a terminal's channel opens, a listing is read, or
\* fails in a way that is not retried.
UseEnds(c) ==
  /\ cpc[c] = "use"
  /\ call[c].kind = "terminal" => held[c] \notin dead
  /\ Return(c)
  /\ UNCHANGED <<attemptVars, connections, lockHolder, netVars, sweep>>

\* The first use gives up the session and goes on as `next`; a retry fails.
GiveUp(c, next) ==
  \/ call[c].retry /\ Return(c)
  \/ ~call[c].retry /\ Goto(c, next) /\ UNCHANGED localVars

\* A channel open may fail on a live session too; "session closed" needs a
\* dead one.  Both are retried once.
UseFails(c) ==
  /\ cpc[c] = "use"
  /\ call[c].kind = "sftp" => held[c] \in dead
  /\ GiveUp(c, "clear")
  /\ UNCHANGED <<attemptVars, connections, lockHolder, netVars, sweep>>

\* The listing takes more than ten seconds; only the first one gives up the
\* SFTP session for it.
UseTimeout(c) ==
  /\ cpc[c] = "use"
  /\ call[c].kind = "sftp"
  /\ GiveUp(c, "clearAndFail")
  /\ UNCHANGED <<attemptVars, connections, lockHolder, netVars, sweep>>

WithSessions(conn, session, sftp) ==
  [session |-> session, sftp |-> sftp, generation |-> conn.generation,
   lock |-> conn.lock, vault |-> conn.vault, origin |-> conn.origin,
   connect |-> conn.connect]

\* Clears the session (the SFTP session) of whatever handle is installed now.
Clear(c) ==
  LET h == call[c].host
      conn == connections[h]
  IN
  /\ cpc[c] \in {"clear", "clearAndFail"}
  /\ connections' =
       IF conn = None THEN connections
       ELSE [connections EXCEPT ![h] =
              IF call[c].kind = "terminal" THEN WithSessions(conn, None, conn.sftp)
              ELSE WithSessions(conn, conn.session, None)]
  /\ \/ /\ cpc[c] = "clear"
        /\ Enter(c, "lookup", [kind |-> call[c].kind, host |-> h, retry |-> TRUE])
     \/ cpc[c] = "clearAndFail" /\ Return(c)
  /\ UNCHANGED <<attemptVars, lockHolder, netVars, sweep>>

-----------------------------------------------------------------------------
AttemptSteps(a) ==
  \/ PrepareEnds(a) \/ PrepareError(a) \/ Gate(a) \/ Register(a) \/ TaskFinishes(a)
  \/ AbortLands(a) \/ Discard(a) \/ Settle(a) \/ Publish(a)

CallerSteps(c) ==
  \/ Lookup(c) \/ ReadLock(c) \/ AcquireLock(c) \/ Dial(c) \/ Install(c)
  \/ Relookup(c) \/ ReconnectTimeout(c) \/ UseEnds(c) \/ UseFails(c)
  \/ UseTimeout(c) \/ Clear(c)

Next ==
  \/ \E a \in Attempt : Begin(a) \/ AttemptSteps(a)
  \/ \E h \in Host : Disconnect(h) \/ \E wanted \in Attempt \cup {None} : CancelConnect(h, wanted)
  \/ SweepCollect \/ SweepRemove
  \/ \E s \in Session : TransportDies(s)
  \/ \E c \in Caller : CallerSteps(c) \/ \E h \in Host, kind \in Kind : Call(c, kind, h)

Spec == Init /\ [][Next]_vars

\* The runtime runs what is ready and its timers fire; the network owes
\* nothing: a dial or a listing may hang for ever, preparation may wait for
\* ever for the vault, and a lock is only as fair as its holders.
Fairness ==
  /\ \A a \in Attempt :
       /\ WF_vars(PrepareEnds(a) /\ CancelSeen(a))
       /\ WF_vars(PrepareError(a)) /\ WF_vars(Gate(a)) /\ WF_vars(Register(a))
       /\ WF_vars(AbortLands(a)) /\ WF_vars(Discard(a)) /\ WF_vars(Settle(a))
       /\ WF_vars(Publish(a))
  /\ \A c \in Caller :
       /\ WF_vars(Lookup(c)) /\ WF_vars(ReadLock(c)) /\ WF_vars(Relookup(c))
       /\ WF_vars(Install(c)) /\ WF_vars(ReconnectTimeout(c)) /\ WF_vars(UseTimeout(c))
       /\ WF_vars(Clear(c))

FairSpec == Spec /\ Fairness

-----------------------------------------------------------------------------
\* Properties

AttemptTypes ==
  /\ connectTasks \in [Host -> Entry \cup {None}]
  /\ apc \in [Attempt -> AttemptPC]
  /\ task \in [Attempt -> TaskState]
  /\ dialled \in [Attempt -> Session \cup {None}]
  /\ accepted \subseteq Attempt
  /\ superseded \subseteq Attempt

CallerTypes ==
  /\ cpc \in [Caller -> CallerPC]
  /\ call \in [Caller -> Request]
  /\ held \in [Caller -> Session \cup {None}]
  /\ wait \in [Caller -> Wait]
  /\ read \in [Caller -> Reading]
  /\ fresh \in [Caller -> Session \cup {None}]
  /\ removed \subseteq Caller

RegistryTypes ==
  /\ connections \in [Host -> Handle \cup {None}]
  /\ lockHolder \in [Session -> Caller \cup {None}]
  /\ nextSession \in 1 .. MaxSessions + 1
  /\ dead \subseteq Session
  /\ sweep \in (SUBSET Host) \cup {None}

\* Every variable stays in its domain; in particular a handle always has a
\* lock, and only sessions that were established are torn down.
TypeOK == AttemptTypes /\ CallerTypes /\ RegistryTypes

\* A cancel that found its attempt is final: however it interleaves with the
\* checks of ssh_connect and with the end of its task, the attempt never puts
\* a handle into the registry.
CancelledNeverPublishes ==
  \A a \in accepted : apc[a] \notin {"publish", "connected"}

\* The same for an attempt that a newer ssh_connect of the same connection
\* found in progress.
SupersededNeverPublishes ==
  \A a \in superseded : apc[a] \notin {"publish", "connected"}

\* A dial nobody aborted can still be cancelled: either ssh_connect has yet to
\* check it, or its Connecting entry is in the map for ssh_cancel_connect.
DialStaysCancellable ==
  \A a \in Attempt :
    task[a] = "running" => apc[a] = "register" \/ ConnectingBy(a)

\* No entry outlives the call that made it, so no later cancel or connect acts
\* on a call that has returned.
EntryHasLiveOwner ==
  \A h \in Host : connectTasks[h] # None =>
    LET e == connectTasks[h] IN
      /\ HostOf[e.attempt] = h
      /\ apc[e.attempt] \in
           IF e.phase = "connecting" THEN {"await"}
           ELSE {"prepare", "prepareCancelled", "prepareFailed", "gate", "register"}

\* Reconnects that read their lock from handles of the same connect are
\* serialized, also across the replacements they make themselves.
SerializedPerConnect ==
  \A c, d \in Caller :
    /\ c # d
    /\ Reconnecting(c) /\ Reconnecting(d)
    => wait[c].lineage # wait[d].lineage

\* A reconnect replaces the very handle whose generation it read, unless the
\* connection was removed from the registry in the meantime: then the next
\* connect starts at 0 again, and its handle may have the generation read.
ReplacesWhatItRead ==
  [][\A c \in Caller :
       Install(c) /\ cpc'[c] = "relookup" /\ c \notin removed
         => connections[call[c].host].origin = read[c].basis]_vars

\* A connection that was disconnected, lost or swept comes back only through
\* a connect of the user, never through a reconnect that was under way.
OnlyConnectRevives ==
  [][\A h \in Host : connections[h] = None /\ connections'[h] # None =>
       \E a \in Attempt : HostOf[a] = h /\ apc[a] = "publish" /\ apc'[a] = "connected"]_vars

\* While a connection stays in the registry, a new handle has a generation no
\* earlier one had, whoever installs it.
ReplacementBumpsGeneration ==
  [][\A h \in Host :
       connections[h] # None /\ connections'[h] # None
       /\ connections'[h].origin # connections[h].origin
         => connections'[h].generation > connections[h].generation]_vars

\* A cancelled or superseded attempt returns to its caller even if the host
\* it dials, or the vault it waits for, never answers.
GivenUpAttemptsReturn ==
  \A a \in Attempt :
    a \in accepted \cup superseded ~> apc[a] \in Returned

\* A directory listing returns whatever the network and other callers do.
ListingsReturn ==
  \A c \in Caller : call[c].kind = "sftp" /\ cpc[c] # "idle" ~> cpc[c] = "idle"

=============================================================================
