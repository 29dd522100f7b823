---------------------------- MODULE LocalTunnels ----------------------------
(***************************************************************************)
(* The runtime of local and dynamic port forwards of one connection        *)
(* (src-tauri/src/tunnels): the map `local_listeners` of TunnelManager, the *)
(* listener tasks it refers to, the commands that start, stop and list     *)
(* tunnels, and the watcher that stops all of a connection's tunnels when  *)
(* a listener reports the loss of its SSH session.                         *)
(*                                                                         *)
(* The map is locked for each access only, and the listener tasks run on   *)
(* their own: a start checks the map, binds the port and enters the map in *)
(* three steps, and every pass over the tunnels works on keys it has read  *)
(* before.  The registry of connections is SshConnections; here it is the  *)
(* session that is installed for the connection, if any.                   *)
(***************************************************************************)
EXTENDS Naturals, FiniteSets

CONSTANTS
  Tunnel,        \* ids of saved tunnels
  Runtime,       \* runtime ids: what tunnel_runtime_id makes of a saved tunnel
  Socket,        \* local sockets: bind_address:local_port
  Initial,       \* the endpoints of every tunnel in tunnels.json at first
  Edits,         \* what a save (endpoints) or a delete (None) may store
  Start,         \* calls of tunnel_start
  Call,          \* other calls: tunnel_stop, tunnel_list, ssh_disconnect, ...
  Calls,         \* bound: the kinds of those calls that are made
  Watcher,       \* the session failure watcher
  MaxSessions,   \* bound: sessions that are ever installed
  MaxListeners,  \* bound: listener tasks that are ever spawned
  Clients,       \* bound: listeners of which one client is followed
  None           \* no session, listener, tunnel or runtime id

\* What of a saved tunnel matters: its runtime id, and the socket it binds.
\* The runtime id of a local forward has the port in it and not the address.
Endpoints == [runtime : Runtime, socket : Socket]

ASSUME InitialAssumption == Initial \in [Tunnel -> Endpoints]
ASSUME EditsAssumption == Edits \subseteq Endpoints \cup {None}
ASSUME BoundsAssumption == MaxSessions \in Nat /\ MaxListeners \in Nat
ASSUME CallsAssumption == Calls \subseteq {"stop", "drop", "reconcile", "list"}
ASSUME WatcherAssumption == Watcher \notin Call
ASSUME NoneAssumption == None \notin Runtime /\ None \notin Nat

VARIABLES
  saved,         \* tunnels.json: the endpoints of each saved tunnel
  installed,     \* the session in the registry
  nextSession,   \* the next session id
  dead,          \* sessions that no longer answer a probe
  listeners,     \* TunnelManager::local_listeners
  lstate,        \* what each listener task does
  lruntime,      \* the runtime id it was spawned for
  lsocket,       \* the socket it has bound
  lsession,      \* the session it was given
  client,        \* the client connection it has accepted
  nextListener,  \* the next listener task
  start,         \* where each tunnel_start stands, and its locals
  job,           \* where each other call and the watcher stand
  failures       \* messages in the session failure channel

registryVars == <<installed, nextSession, dead>>
listenerVars == <<lstate, lruntime, lsocket, lsession, client, nextListener>>
vars == <<saved, installed, nextSession, dead, listeners, lstate, lruntime, lsocket,
          lsession, client, nextListener, start, job, failures>>

-----------------------------------------------------------------------------
\* Data

Session == 1 .. MaxSessions
Listener == 1 .. MaxListeners

\* A listener is lost when it ends by itself, stopped when it was aborted.
\* Between the abort and the end of the task it keeps its port.
ListenerState == {"none", "open", "stopping", "stopped", "lost"}
ClientState == {"none", "opening", "done"}

StartCall == [pc : {"idle", "check", "bind", "insert"}, runtime : Runtime \cup {None},
              socket : Socket \cup {None}, session : Session \cup {None},
              listener : Listener \cup {None}]
NoStart == [pc |-> "idle", runtime |-> None, socket |-> None, session |-> None,
            listener |-> None]

Worker == Call \cup {Watcher}
Kind == {"none", "stop", "drop", "reconcile", "list", "probed", "failure"}
Job == [pc : {"idle", "judge", "look", "count", "probe", "collect", "stopping"}, kind : Kind,
        todo : SUBSET Runtime, session : Session \cup {None}]
NoJob == [pc |-> "idle", kind |-> "none", todo |-> {}, session |-> None]

\* The saved tunnels of the connection, as the runtime ids to look for.
Saved == {saved[t].runtime : t \in {u \in Tunnel : saved[u] # None}}

\* tunnel_is_active_runtime, of each of a set of runtime ids.
Active(runtimes) == {r \in runtimes : listeners[r] # None}

Binds(l, socket) == lstate[l] \in {"open", "stopping"} /\ lsocket[l] = socket

\* A variant of PortFree for a socket that may share its port.
SharedPort(socket) == TRUE

\* A port is exclusive on one address: another address may have a listener on
\* it, of the same runtime id even.
PortFree(socket) == \A l \in Listener : ~Binds(l, socket)

-----------------------------------------------------------------------------
Init ==
  /\ saved = Initial
  /\ installed = None
  /\ nextSession = 1
  /\ dead = {}
  /\ listeners = [r \in Runtime |-> None]
  /\ lstate = [l \in Listener |-> "none"]
  /\ lruntime = [l \in Listener |-> None]
  /\ lsocket = [l \in Listener |-> None]
  /\ lsession = [l \in Listener |-> None]
  /\ client = [l \in Listener |-> "none"]
  /\ nextListener = 1
  /\ start = [p \in Start |-> NoStart]
  /\ job = [w \in Worker |-> NoJob]
  /\ failures = 0

-----------------------------------------------------------------------------
\* The registry, as its commands and the network change it

Install ==
  /\ nextSession <= MaxSessions
  /\ installed' = nextSession
  /\ nextSession' = nextSession + 1
  /\ UNCHANGED <<saved, dead, listeners, listenerVars, start, job, failures>>

\* A terminal whose channel open failed takes the session out of the handle.
ClearSession ==
  /\ installed # None
  /\ installed' = None
  /\ UNCHANGED <<saved, nextSession, dead, listeners, listenerVars, start, job, failures>>

TransportDies(s) ==
  /\ s < nextSession
  /\ s \notin dead
  /\ dead' = dead \cup {s}
  /\ UNCHANGED <<saved, installed, nextSession, listeners, listenerVars, start, job, failures>>

-----------------------------------------------------------------------------
\* tunnels.json

\* tunnel_save of a known tunnel.  A listener it has goes on as it was.
Save(t, endpoints) ==
  /\ endpoints \in Edits \ {None}
  /\ saved' = [saved EXCEPT ![t] = endpoints]
  /\ UNCHANGED <<registryVars, listeners, listenerVars, start, job, failures>>

Delete(t) ==
  /\ None \in Edits
  /\ saved' = [saved EXCEPT ![t] = None]
  /\ UNCHANGED <<registryVars, listeners, listenerVars, start, job, failures>>

-----------------------------------------------------------------------------
\* tunnel_start

Begin(p, t) ==
  /\ start[p].pc = "idle"
  /\ saved[t] # None
  /\ installed # None
  /\ start' = [start EXCEPT ![p] =
       [pc |-> "check", runtime |-> saved[t].runtime, socket |-> saved[t].socket,
        session |-> installed, listener |-> None]]
  /\ UNCHANGED <<saved, registryVars, listeners, listenerVars, job, failures>>

\* An entry in the map makes the start succeed at once.
Check(p) ==
  LET c == start[p] IN
  /\ c.pc = "check"
  /\ start' = [start EXCEPT ![p] =
       IF listeners[c.runtime] # None THEN NoStart
       ELSE [c EXCEPT !.pc = "bind"]]
  /\ UNCHANGED <<saved, registryVars, listeners, listenerVars, job, failures>>

\* The port is bound and the listener task spawned; it runs before the map
\* knows it.
Bind(p) ==
  LET c == start[p]
      l == nextListener
  IN
  /\ c.pc = "bind"
  /\ l <= MaxListeners
  /\ PortFree(c.socket)
  /\ lstate' = [lstate EXCEPT ![l] = "open"]
  /\ lruntime' = [lruntime EXCEPT ![l] = c.runtime]
  /\ lsocket' = [lsocket EXCEPT ![l] = c.socket]
  /\ lsession' = [lsession EXCEPT ![l] = c.session]
  /\ nextListener' = l + 1
  /\ start' = [start EXCEPT ![p] = [c EXCEPT !.pc = "insert", !.listener = l]]
  /\ UNCHANGED <<saved, registryVars, listeners, client, job, failures>>

\* The port is taken, by this program or another, or cannot be bound.
BindFails(p) ==
  /\ start[p].pc = "bind"
  /\ start' = [start EXCEPT ![p] = NoStart]
  /\ UNCHANGED <<saved, registryVars, listeners, listenerVars, job, failures>>

Insert(p) ==
  /\ start[p].pc = "insert"
  /\ listeners' = [listeners EXCEPT ![start[p].runtime] = start[p].listener]
  /\ start' = [start EXCEPT ![p] = NoStart]
  /\ UNCHANGED <<saved, registryVars, listenerVars, job, failures>>

-----------------------------------------------------------------------------
\* The listener tasks

\* A client holds the session's mutex while it waits for the answer to its
\* channel open, which may take as long as the far host's TCP connect.
Held(s) == \E l \in Listener : lsession[l] = s /\ client[l] = "opening"

\* A variant of Unusable for a probe that waits for that mutex without a limit.
UnusableWhenIdle(s) == s \in dead /\ ~Held(s)

\* probe_ssh_session fails on a dead session, whatever the mutex does.
Unusable(s) == s \in dead

\* The eight seconds of a probe include the wait for the mutex, so it may fail
\* on a live session too.
MaySeemUnusable(s) == Unusable(s) \/ Held(s)

\* The periodic probe of the session fails: the loss is reported and the loop
\* left.  An aborted task may still get that far.
ProbeFails(l) ==
  /\ lstate[l] \in {"open", "stopping"}
  /\ MaySeemUnusable(lsession[l])
  /\ lstate' = [lstate EXCEPT ![l] = IF @ = "open" THEN "lost" ELSE "stopped"]
  /\ failures' = failures + 1
  /\ UNCHANGED <<saved, registryVars, listeners, lruntime, lsocket, lsession, client,
                 nextListener, start, job>>

AbortLands(l) ==
  /\ lstate[l] = "stopping"
  /\ lstate' = [lstate EXCEPT ![l] = "stopped"]
  /\ UNCHANGED <<saved, registryVars, listeners, lruntime, lsocket, lsession, client,
                 nextListener, start, job, failures>>

Accept(l) ==
  /\ l \in Clients
  /\ lstate[l] = "open"
  /\ client[l] = "none"
  /\ client' = [client EXCEPT ![l] = "opening"]
  /\ UNCHANGED <<saved, registryVars, listeners, lstate, lruntime, lsocket, lsession,
                 nextListener, start, job, failures>>

\* The client's task outlives its listener.  When its channel cannot be
\* opened on a lost session, it signals the listener, which misses the signal
\* while it is between two rounds of its loop, and reports the loss.
ClientFails(l) ==
  /\ client[l] = "opening"
  /\ lsession[l] \in dead
  /\ client' = [client EXCEPT ![l] = "done"]
  /\ \E next \in {lstate[l], IF lstate[l] = "open" THEN "lost" ELSE lstate[l]} :
       lstate' = [lstate EXCEPT ![l] = next]
  /\ failures' = failures + 1
  /\ UNCHANGED <<saved, registryVars, listeners, lruntime, lsocket, lsession,
                 nextListener, start, job>>

\* The channel is opened, is refused for another reason, or (dynamic) its
\* client is cancelled.
ClientEnds(l) ==
  /\ client[l] = "opening"
  /\ client' = [client EXCEPT ![l] = "done"]
  /\ UNCHANGED <<saved, registryVars, listeners, lstate, lruntime, lsocket, lsession,
                 nextListener, start, job, failures>>

-----------------------------------------------------------------------------
\* Stopping tunnels

\* The map without the entry of runtime id r.
Forget(r) == [listeners EXCEPT ![r] = None]

\* stop_tunnel, of a local or dynamic tunnel.
StopTunnel(r) ==
  LET l == listeners[r] IN
  /\ listeners' = Forget(r)
  /\ lstate' = IF l = None \/ lstate[l] # "open" THEN lstate
               ELSE [lstate EXCEPT ![l] = "stopping"]

Goto(w, pc, kind, todo, session) ==
  job' = [job EXCEPT ![w] = [pc |-> pc, kind |-> kind, todo |-> todo, session |-> session]]

Return(w) == job' = [job EXCEPT ![w] = NoJob]

jobOnly == <<saved, registryVars, listeners, listenerVars, start, failures>>

\* tunnel_stop reads one saved tunnel, and stops it whether it runs or not.
Stop(c, t) ==
  /\ "stop" \in Calls
  /\ job[c].pc = "idle"
  /\ saved[t] # None
  /\ Goto(c, "stopping", "stop", {saved[t].runtime}, None)
  /\ UNCHANGED jobOnly

\* stop_tunnels_for_connections, of tunnel_reconcile_connection and, before
\* the handle is removed, of ssh_disconnect, ssh_transport_lost and
\* ssh_disconnect_vault_backed ("drop").
StopAll(c, kind) ==
  /\ job[c].pc = "idle"
  /\ kind \in Calls \cap {"drop", "reconcile"}
  /\ Goto(c, "collect", kind, Saved, None)
  /\ UNCHANGED jobOnly

\* The watcher takes the next message.
Receive ==
  /\ job[Watcher].pc = "idle"
  /\ failures > 0
  /\ failures' = failures - 1
  /\ Goto(Watcher, "collect", "failure", Saved, None)
  /\ UNCHANGED <<saved, registryVars, listeners, listenerVars, start>>

\* tunnel_list and tunnel_get_all.
List(c) ==
  /\ "list" \in Calls
  /\ job[c].pc = "idle"
  /\ Goto(c, "judge", "list", Saved, None)
  /\ UNCHANGED jobOnly

\* reconcile_stale_tunnel_runtime: only without a session is there anything
\* to stop.
Judge(c) ==
  /\ job[c].pc = "judge"
  /\ Goto(c, IF installed = None THEN "collect" ELSE "look", "list", job[c].todo, None)
  /\ UNCHANGED jobOnly

\* apply_runtime_tunnel_status: the session is cloned, in order to be probed.
Look(c) ==
  /\ job[c].pc = "look"
  /\ Goto(c, "count", "list", {}, installed)
  /\ UNCHANGED jobOnly

\* Only for active tunnels is it probed; without a session they are stopped.
\* (The file is read once for the listing; here it is read again.)
Count(c) ==
  /\ job[c].pc = "count"
  /\ IF Active(Saved) = {} THEN Return(c)
     ELSE IF job[c].session = None THEN Goto(c, "collect", "probed", Saved, None)
     ELSE Goto(c, "probe", "list", {}, job[c].session)
  /\ UNCHANGED jobOnly

\* The probe takes up to eight seconds.
Probe(c) ==
  /\ job[c].pc = "probe"
  /\ \/ MaySeemUnusable(job[c].session) /\ Goto(c, "collect", "probed", Saved, None)
     \/ ~Unusable(job[c].session) /\ Return(c)
  /\ UNCHANGED jobOnly

\* The keys of the map are read, some time after the file.
Collect(w) ==
  /\ job[w].pc = "collect"
  /\ Goto(w, "stopping", job[w].kind, Active(job[w].todo), None)
  /\ UNCHANGED jobOnly

StopOne(w, r) ==
  /\ job[w].pc = "stopping"
  /\ r \in job[w].todo
  /\ StopTunnel(r)
  /\ Goto(w, "stopping", job[w].kind, job[w].todo \ {r}, None)
  /\ UNCHANGED <<saved, registryVars, lruntime, lsocket, lsession, client, nextListener,
                 start, failures>>

\* All are stopped: the handle is removed, the listing goes on with its
\* second half, anything else returns.
Finish(w) ==
  /\ job[w].pc = "stopping"
  /\ job[w].todo = {}
  /\ IF job[w].kind = "list" THEN Goto(w, "look", "list", {}, None) ELSE Return(w)
  /\ installed' = IF job[w].kind = "drop" THEN None ELSE installed
  /\ UNCHANGED <<saved, nextSession, dead, listeners, listenerVars, start, failures>>

-----------------------------------------------------------------------------
StartSteps(p) == Check(p) \/ Bind(p) \/ BindFails(p) \/ Insert(p)

ListenerSteps(l) ==
  ProbeFails(l) \/ AbortLands(l) \/ Accept(l) \/ ClientFails(l) \/ ClientEnds(l)

JobSteps(w) == Collect(w) \/ Finish(w) \/ \E r \in Runtime : StopOne(w, r)

CallSteps(c) == Judge(c) \/ Look(c) \/ Count(c) \/ Probe(c)

Next ==
  \/ Install \/ ClearSession \/ \E s \in Session : TransportDies(s)
  \/ \E t \in Tunnel : Delete(t) \/ \E endpoints \in Edits : Save(t, endpoints)
  \/ \E p \in Start : StartSteps(p) \/ \E t \in Tunnel : Begin(p, t)
  \/ \E l \in Listener : ListenerSteps(l)
  \/ Receive
  \/ \E w \in Worker : JobSteps(w)
  \/ \E c \in Call :
       \/ CallSteps(c) \/ List(c)
       \/ \E t \in Tunnel : Stop(c, t)
       \/ \E kind \in Kind : StopAll(c, kind)

Spec == Init /\ [][Next]_vars

\* Timers fire and the runtime drops what was aborted: a listener probes its
\* session every 15 seconds, and a probe of a dead one fails.  Nothing else is
\* needed for the ports: commands, clients and the watcher may hang for ever.
Fairness ==
  \A l \in Listener :
    /\ WF_vars(Unusable(lsession[l]) /\ ProbeFails(l))
    /\ WF_vars(AbortLands(l))

FairSpec == Spec /\ Fairness

-----------------------------------------------------------------------------
\* Properties

\* Every variable stays in its domain.
TypeOK ==
  /\ saved \in [Tunnel -> Endpoints \cup {None}]
  /\ installed \in Session \cup {None}
  /\ nextSession \in 1 .. MaxSessions + 1
  /\ dead \subseteq Session
  /\ listeners \in [Runtime -> Listener \cup {None}]
  /\ lstate \in [Listener -> ListenerState]
  /\ lruntime \in [Listener -> Runtime \cup {None}]
  /\ lsocket \in [Listener -> Socket \cup {None}]
  /\ lsession \in [Listener -> Session \cup {None}]
  /\ client \in [Listener -> ClientState]
  /\ nextListener \in 1 .. MaxListeners + 1
  /\ start \in [Start -> StartCall]
  /\ job \in [Worker -> Job]
  /\ failures \in Nat

\* Something refers to listener l: the map, or the start that spawned it.
HasHandle(l) ==
  \/ listeners[lruntime[l]] = l
  \/ \E p \in Start : start[p].pc = "insert" /\ start[p].listener = l

\* The map has another listener for l's runtime id now, one that had already
\* ended by itself or that has bound another socket.
Displaced(l) ==
  LET m == listeners[lruntime[l]] IN
  /\ m \notin {None, l}
  /\ lstate[m] = "lost" \/ lsocket[m] # lsocket[l]

\* A listening port keeps what it can be closed with.  Checking the map,
\* binding and entering the map are three steps, so one start may displace the
\* listener of another; it never does while both have bound one socket and
\* listen.
PortsKeepTheirHandle ==
  [][\A l \in Listener :
       /\ lstate'[l] = "open"
       /\ lstate[l] = "open" => HasHandle(l)
       => HasHandle(l)' \/ Displaced(l)']_vars

\* A listener that was stopped is not in the map, so no later start takes its
\* tunnel for active.
NoStoppedEntry ==
  \A r \in Runtime : listeners[r] # None => lstate[listeners[r]] \in {"open", "lost"}

\* Whatever becomes of the commands and the watcher, no port stays bound by a
\* listener whose session is gone.
DeadSessionsReleasePorts ==
  \A l \in Listener :
    lstate[l] \in {"open", "stopping"} /\ lsession[l] \in dead
      ~> lstate[l] \in {"stopped", "lost"}

=============================================================================
