------------------------- MODULE LocalTunnelsProofs -------------------------
(***************************************************************************)
(* Proofs about LocalTunnels: the types, and that a listening port keeps a  *)
(* handle through which it can be closed.  HandleInv is what that rests on: *)
(* what the map refers to, what a start knows of the listener it has spawned *)
(* and has not entered in the map yet, and that no two listeners bind one   *)
(* socket.                                                                 *)
(***************************************************************************)
EXTENDS LocalTunnels, TLAPS

LEMMA TypeInit == Init => TypeOK
BY InitialAssumption, BoundsAssumption
   DEF Init, TypeOK, Session, Listener, ListenerState, ClientState, StartCall, NoStart,
       Job, NoJob, Kind

LEMMA TypeStart == TypeOK /\ (\E p \in Start : StartSteps(p) \/ \E t \in Tunnel : Begin(p, t))
                   => TypeOK'
<1> SUFFICES ASSUME TypeOK, NEW p \in Start, StartSteps(p) \/ \E t \in Tunnel : Begin(p, t)
             PROVE  TypeOK'
  OBVIOUS
<1>1. start[p] \in StartCall
  BY DEF TypeOK
<1>n. NoStart \in StartCall
  BY DEF NoStart, StartCall
<1>2. CASE \E t \in Tunnel : Begin(p, t)
  BY <1>2 DEF Begin, TypeOK, StartCall, Endpoints, registryVars, listenerVars
<1>3. CASE Check(p)
  BY <1>1, <1>3 DEF Check, TypeOK, StartCall, NoStart, registryVars, listenerVars
<1>4. CASE Bind(p)
  <2>1. /\ nextListener \in Listener /\ nextListener + 1 \in 1 .. MaxListeners + 1
    BY <1>4, BoundsAssumption DEF Bind, TypeOK, Listener
  <2>2. start' \in [Start -> StartCall]
    BY <1>1, <1>4, <2>1 DEF Bind, TypeOK, StartCall
  <2>3. QED
    BY <1>1, <1>4, <2>1, <2>2
       DEF Bind, TypeOK, StartCall, ListenerState, registryVars
<1>5. CASE BindFails(p)
  BY <1>n, <1>5 DEF BindFails, TypeOK, registryVars, listenerVars
<1>6. CASE Insert(p)
  BY <1>1, <1>n, <1>6 DEF Insert, TypeOK, StartCall, registryVars, listenerVars
<1>7. QED
  BY <1>2, <1>3, <1>4, <1>5, <1>6 DEF StartSteps

LEMMA TypeListener == TypeOK /\ (\E l \in Listener : ListenerSteps(l)) => TypeOK'
<1> SUFFICES ASSUME TypeOK, NEW l \in Listener, ListenerSteps(l) PROVE TypeOK'
  OBVIOUS
<1>1. QED
  BY DEF ListenerSteps, ProbeFails, AbortLands, Accept, ClientFails, ClientEnds, TypeOK,
         ListenerState, ClientState, registryVars

LEMMA GotoTypes ==
  ASSUME TypeOK, NEW w \in Worker, NEW pc \in {"judge", "look", "count", "probe", "collect", "stopping"},
         NEW kind \in Kind, NEW todo \in SUBSET Runtime, NEW session \in Session \cup {None},
         Goto(w, pc, kind, todo, session)
  PROVE  job' \in [Worker -> Job]
BY DEF TypeOK, Goto, Job

LEMMA ReturnTypes ==
  ASSUME TypeOK, NEW w \in Worker, Return(w) PROVE job' \in [Worker -> Job]
BY DEF TypeOK, Return, Job, NoJob, Kind

LEMMA SavedRuntime == TypeOK => Saved \in SUBSET Runtime
BY DEF TypeOK, Saved, Endpoints

LEMMA TypeCall ==
  ASSUME TypeOK, NEW c \in Call,
         \/ CallSteps(c) \/ List(c)
         \/ \E t \in Tunnel : Stop(c, t)
         \/ \E kind \in Kind : StopAll(c, kind)
  PROVE  TypeOK'
<1>1. c \in Worker /\ job[c] \in Job
  BY DEF Worker, TypeOK
<1>2. UNCHANGED jobOnly
  BY DEF CallSteps, Judge, Look, Count, Probe, List, Stop, StopAll
<1>3. job' \in [Worker -> Job]
  <2>1. CASE Judge(c)
    <3>1. \E pc \in {"collect", "look"} : Goto(c, pc, "list", job[c].todo, None)
      BY <2>1 DEF Judge
    <3>2. job[c].todo \in SUBSET Runtime
      BY <1>1 DEF Job
    <3>3. PICK pc \in {"collect", "look"} : Goto(c, pc, "list", job[c].todo, None)
      BY <3>1
    <3>4. QED
      BY <1>1, <3>2, <3>3, GotoTypes DEF Kind
  <2>2. CASE Look(c)
    <3>1. installed \in Session \cup {None}
      BY DEF TypeOK
    <3>2. QED
      BY <1>1, <2>2, <3>1, GotoTypes DEF Look, Kind
  <2>3. CASE Count(c)
    <3>1. \/ Return(c)
          \/ Goto(c, "collect", "probed", Saved, None)
          \/ Goto(c, "probe", "list", {}, job[c].session)
      BY <2>3 DEF Count
    <3>2. job[c].session \in Session \cup {None}
      BY <1>1 DEF Job
    <3>3. CASE Goto(c, "probe", "list", {}, job[c].session)
      BY <1>1, <3>2, <3>3, GotoTypes DEF Kind
    <3>4. CASE Goto(c, "collect", "probed", Saved, None)
      BY <1>1, <3>4, GotoTypes, SavedRuntime DEF Kind
    <3>5. QED
      BY <1>1, <3>1, <3>3, <3>4, ReturnTypes
  <2>4. CASE Probe(c)
    BY <1>1, <2>4, GotoTypes, ReturnTypes, SavedRuntime DEF Probe, Kind
  <2>5. CASE List(c)
    BY <1>1, <2>5, GotoTypes, SavedRuntime DEF List, Kind
  <2>6. ASSUME NEW t \in Tunnel, Stop(c, t) PROVE job' \in [Worker -> Job]
    <3>1. {saved[t].runtime} \in SUBSET Runtime
      BY <2>6 DEF Stop, TypeOK, Endpoints
    <3>2. QED
      BY <1>1, <2>6, <3>1, GotoTypes DEF Stop, Kind
  <2>7. ASSUME NEW kind \in Kind, StopAll(c, kind) PROVE job' \in [Worker -> Job]
    BY <1>1, <2>7, GotoTypes, SavedRuntime DEF StopAll
  <2>8. QED
    BY <2>1, <2>2, <2>3, <2>4, <2>5, <2>6, <2>7 DEF CallSteps
<1>4. QED
  BY <1>2, <1>3 DEF TypeOK, jobOnly, registryVars, listenerVars

LEMMA TypeWorker ==
  TypeOK /\ (Receive \/ \E w \in Worker : JobSteps(w)) => TypeOK'
<1> SUFFICES ASSUME TypeOK PROVE (Receive \/ \E w \in Worker : JobSteps(w)) => TypeOK'
  OBVIOUS
<1>1. ASSUME Receive PROVE TypeOK'
  <2>1. job' \in [Worker -> Job]
    BY <1>1, GotoTypes, SavedRuntime DEF Receive, Worker, Kind
  <2>2. failures' \in Nat
    BY <1>1 DEF Receive, TypeOK
  <2>3. QED
    BY <1>1, <2>1, <2>2 DEF Receive, TypeOK, registryVars, listenerVars
<1>2. ASSUME NEW w \in Worker, Collect(w) PROVE TypeOK'
  <2>1. job[w].kind \in Kind /\ Active(job[w].todo) \in SUBSET Runtime
    BY DEF TypeOK, Job, Active
  <2>2. job' \in [Worker -> Job]
    BY <1>2, <2>1, GotoTypes DEF Collect
  <2>3. QED
    BY <1>2, <2>2 DEF Collect, TypeOK, jobOnly, registryVars, listenerVars
<1>3. ASSUME NEW w \in Worker, Finish(w) PROVE TypeOK'
  <2>1. job' \in [Worker -> Job]
    BY <1>3, GotoTypes, ReturnTypes DEF Finish, Kind
  <2>2. QED
    BY <1>3, <2>1 DEF Finish, TypeOK, registryVars, listenerVars
<1>4. ASSUME NEW w \in Worker, NEW r \in Runtime, StopOne(w, r) PROVE TypeOK'
  <2>1. job[w].kind \in Kind /\ job[w].todo \ {r} \in SUBSET Runtime
    BY DEF TypeOK, Job
  <2>2. job' \in [Worker -> Job]
    BY <1>4, <2>1, GotoTypes DEF StopOne
  <2>3. QED
    BY <1>4, <2>2 DEF StopOne, StopTunnel, Forget, TypeOK, ListenerState, registryVars
<1>5. QED
  BY <1>1, <1>2, <1>3, <1>4 DEF JobSteps

LEMMA TypeStep == TypeOK /\ [Next]_vars => TypeOK'
<1> SUFFICES ASSUME TypeOK, [Next]_vars PROVE TypeOK'
  OBVIOUS
<1>1. CASE UNCHANGED vars
  BY <1>1 DEF TypeOK, vars
<1>2. CASE Install
  BY <1>2, BoundsAssumption DEF Install, TypeOK, Session, listenerVars
<1>3. CASE ClearSession
  BY <1>3 DEF ClearSession, TypeOK, listenerVars
<1>4. ASSUME NEW s \in Session, TransportDies(s) PROVE TypeOK'
  BY <1>4 DEF TransportDies, TypeOK, listenerVars
<1>5. ASSUME NEW t \in Tunnel, Delete(t) \/ \E endpoints \in Edits : Save(t, endpoints) PROVE TypeOK'
  BY <1>5, EditsAssumption DEF Delete, Save, TypeOK, registryVars, listenerVars
<1>6. QED
  BY <1>1, <1>2, <1>3, <1>4, <1>5, TypeStart, TypeListener, TypeCall, TypeWorker DEF Next

\* Every variable stays in its domain.
THEOREM TunnelTypesCorrect == Spec => []TypeOK
<1>1. QED
  BY TypeInit, TypeStep, PTL DEF Spec

-----------------------------------------------------------------------------
\* The inductive invariant

\* What the map refers to.
EntriesInv ==
  \A r \in Runtime : listeners[r] # None =>
    /\ lruntime[listeners[r]] = r
    /\ lstate[listeners[r]] \in {"open", "lost"}

\* Listener tasks are numbered as they are spawned.
SpawnedInv ==
  \A l \in Listener :
    /\ l >= nextListener => lstate[l] = "none"
    /\ lstate[l] # "none" => lruntime[l] \in Runtime

\* The listener a start has spawned is its own until it is in the map.
PendingInv ==
  \A p \in Start : start[p].pc = "insert" =>
    LET l == start[p].listener IN
      /\ l \in Listener
      /\ lruntime[l] = start[p].runtime
      /\ lstate[l] \in {"open", "lost"}
      /\ \A r \in Runtime : listeners[r] # l
      /\ \A q \in Start \ {p} : start[q].pc = "insert" => start[q].listener # l

\* A start that goes on has a runtime id.
StartsInv == \A p \in Start : start[p].pc # "idle" => start[p].runtime \in Runtime

\* Two listeners never bind one socket at a time.
PortsInv ==
  \A l, m \in Listener :
    /\ lstate[l] \in {"open", "stopping"} /\ lstate[m] \in {"open", "stopping"}
    /\ lsocket[l] = lsocket[m]
    => l = m

HandleInv ==
  TypeOK /\ EntriesInv /\ SpawnedInv /\ PendingInv /\ StartsInv /\ PortsInv

handleVars == <<listeners, lstate, lruntime, lsocket, nextListener, start>>

LEMMA HandleStutter ==
  ASSUME HandleInv, TypeOK', UNCHANGED handleVars PROVE HandleInv'
BY DEF HandleInv, handleVars, EntriesInv, SpawnedInv, PendingInv, StartsInv, PortsInv

\* The steps that change none of these variables.
LEMMA QuietFrame ==
  ASSUME \/ Install \/ ClearSession \/ Receive \/ UNCHANGED vars
         \/ \E s \in Session : TransportDies(s)
         \/ \E t \in Tunnel : Delete(t) \/ \E endpoints \in Edits : Save(t, endpoints)
         \/ \E l \in Listener : Accept(l) \/ ClientEnds(l)
         \/ \E w \in Worker : Collect(w) \/ Finish(w)
         \/ \E c \in Call : \/ CallSteps(c) \/ List(c)
                            \/ \E t \in Tunnel : Stop(c, t)
                            \/ \E kind \in Kind : StopAll(c, kind)
  PROVE  UNCHANGED handleVars
BY DEF Install, ClearSession, Receive, TransportDies, Delete, Save, Accept, ClientEnds,
       Collect, Finish, CallSteps, Judge, Look, Count, Probe, List, Stop, StopAll, jobOnly, vars,
       handleVars, listenerVars

LEMMA HandleInit == Init => HandleInv
<1>1. Init => TypeOK
  BY TypeInit
<1>2. QED
  BY <1>1 DEF Init, HandleInv, EntriesInv, SpawnedInv, PendingInv, StartsInv, PortsInv,
              NoStart

\* A start that spawns nothing and enters nothing.
LEMMA HandleStart ==
  ASSUME HandleInv, TypeOK', NEW p \in Start,
         Check(p) \/ BindFails(p) \/ \E t \in Tunnel : Begin(p, t)
  PROVE  HandleInv'
<1>1. /\ UNCHANGED <<listeners, lstate, lruntime, lsocket, nextListener>>
      /\ \A q \in Start \ {p} : start'[q] = start[q]
      /\ start[p].pc # "insert" /\ start'[p].pc # "insert"
      /\ start'[p].pc # "idle" => start'[p].runtime \in Runtime
  <2>1. CASE Check(p)
    BY <2>1 DEF Check, HandleInv, TypeOK, StartsInv, NoStart, listenerVars
  <2>2. CASE BindFails(p)
    BY <2>2 DEF BindFails, HandleInv, TypeOK, NoStart, listenerVars
  <2>3. ASSUME NEW t \in Tunnel, Begin(p, t)
        PROVE  /\ UNCHANGED <<listeners, lstate, lruntime, lsocket, nextListener>>
               /\ \A q \in Start \ {p} : start'[q] = start[q]
               /\ start[p].pc # "insert" /\ start'[p].pc # "insert"
               /\ start'[p].pc # "idle" => start'[p].runtime \in Runtime
    <3>1. saved[t].runtime \in Runtime
      BY <2>3 DEF Begin, HandleInv, TypeOK, Endpoints
    <3>2. QED
      BY <2>3, <3>1 DEF Begin, HandleInv, TypeOK, listenerVars
  <2>4. QED
    BY <2>1, <2>2, <2>3
<1>2. QED
  BY <1>1 DEF HandleInv, EntriesInv, SpawnedInv, PendingInv, StartsInv, PortsInv

\* Spawning a listener: its number is new and its port was free.
LEMMA HandleBind ==
  ASSUME HandleInv, TypeOK', NEW p \in Start, Bind(p) PROVE HandleInv'
<1> DEFINE n == nextListener
           r == start[p].runtime
<1>1. /\ n \in Listener /\ lstate[n] = "none" /\ r \in Runtime
      /\ start[p].pc = "bind"
  BY BoundsAssumption
     DEF Bind, HandleInv, TypeOK, SpawnedInv, StartsInv, Listener
<1>2. /\ listeners' = listeners
      /\ lstate'[n] = "open" /\ lruntime'[n] = r /\ lsocket'[n] = start[p].socket
      /\ \A l \in Listener \ {n} :
           lstate'[l] = lstate[l] /\ lruntime'[l] = lruntime[l] /\ lsocket'[l] = lsocket[l]
      /\ nextListener' = n + 1
  BY <1>1 DEF Bind, HandleInv, TypeOK
<1>3. /\ \A q \in Start \ {p} : start'[q] = start[q]
      /\ start'[p].pc = "insert" /\ start'[p].runtime = r /\ start'[p].listener = n
  BY DEF Bind, HandleInv, TypeOK
<1>4. \A s \in Runtime : listeners[s] # n
  BY <1>1, NoneAssumption DEF HandleInv, EntriesInv, Listener
<1>5. \A q \in Start : start[q].pc = "insert" => start[q].listener # n
  BY <1>1 DEF HandleInv, PendingInv
<1>6. \A l \in Listener :
        lstate[l] \in {"open", "stopping"} => lsocket[l] # start[p].socket
  BY DEF Bind, PortFree, Binds
<1>7. \A l \in Listener : l >= n + 1 => l # n /\ l >= n
  BY <1>1 DEF Listener
<1>8. \A s \in Runtime : listeners[s] \in Listener \cup {None}
  BY DEF HandleInv, TypeOK
<1> HIDE DEF n, r
<1>9. EntriesInv'
  BY <1>2, <1>4, <1>8 DEF HandleInv, EntriesInv
<1>10. SpawnedInv'
  BY <1>1, <1>2, <1>7 DEF HandleInv, SpawnedInv, n
<1>11. PendingInv'
  <2>1. ASSUME NEW q \in Start \ {p}, start[q].pc = "insert"
        PROVE  /\ start[q].listener \in Listener \ {n}
               /\ lruntime[start[q].listener] = start[q].runtime
               /\ lstate[start[q].listener] \in {"open", "lost"}
               /\ \A s \in Runtime : listeners[s] # start[q].listener
               /\ \A o \in Start \ {q} :
                    start[o].pc = "insert" => start[o].listener # start[q].listener
    BY <1>5, <2>1 DEF HandleInv, PendingInv
  <2>2. QED
    BY <1>1, <1>2, <1>3, <1>4, <1>5, <2>1 DEF PendingInv
<1>12. StartsInv'
  BY <1>1, <1>3 DEF HandleInv, StartsInv
<1>13. PortsInv'
  BY <1>1, <1>2, <1>6 DEF HandleInv, PortsInv
<1>14. QED
  BY <1>9, <1>10, <1>11, <1>12, <1>13 DEF HandleInv

\* Entering the map.
LEMMA HandleInsert ==
  ASSUME HandleInv, TypeOK', NEW p \in Start, Insert(p) PROVE HandleInv'
<1> DEFINE n == start[p].listener
           r == start[p].runtime
<1>1. /\ n \in Listener /\ lruntime[n] = r /\ lstate[n] \in {"open", "lost"}
      /\ r \in Runtime
      /\ \A s \in Runtime : listeners[s] # n
      /\ \A q \in Start \ {p} : start[q].pc = "insert" => start[q].listener # n
  BY DEF Insert, HandleInv, PendingInv, StartsInv
<1>2. /\ UNCHANGED <<lstate, lruntime, lsocket, nextListener>>
      /\ listeners'[r] = n
      /\ \A s \in Runtime \ {r} : listeners'[s] = listeners[s]
  BY <1>1 DEF Insert, HandleInv, TypeOK, listenerVars
<1>3. /\ \A q \in Start \ {p} : start'[q] = start[q]
      /\ start'[p].pc = "idle"
  BY DEF Insert, HandleInv, TypeOK, NoStart
<1> HIDE DEF n, r
<1>4. EntriesInv'
  BY <1>1, <1>2 DEF HandleInv, EntriesInv
<1>5. SpawnedInv'
  BY <1>2 DEF HandleInv, SpawnedInv
<1>6. PendingInv'
  <2>1. ASSUME NEW q \in Start \ {p}, start[q].pc = "insert"
        PROVE  /\ start[q].listener \in Listener
               /\ lruntime[start[q].listener] = start[q].runtime
               /\ lstate[start[q].listener] \in {"open", "lost"}
               /\ start[q].listener # n
               /\ \A s \in Runtime : listeners[s] # start[q].listener
               /\ \A o \in Start \ {q} :
                    start[o].pc = "insert" => start[o].listener # start[q].listener
    BY <1>1, <2>1 DEF HandleInv, PendingInv
  <2>2. QED
    BY <1>1, <1>2, <1>3, <2>1 DEF PendingInv
<1>7. StartsInv' /\ PortsInv'
  BY <1>2, <1>3 DEF HandleInv, StartsInv, PortsInv
<1>8. QED
  BY <1>4, <1>5, <1>6, <1>7 DEF HandleInv

\* A listener that ends: nothing else changes.
LEMMA HandleEnds ==
  ASSUME HandleInv, TypeOK', NEW l \in Listener,
         UNCHANGED <<listeners, lruntime, lsocket, nextListener, start>>,
         \A m \in Listener \ {l} : lstate'[m] = lstate[m],
         \/ lstate'[l] = lstate[l]
         \/ lstate[l] = "open" /\ lstate'[l] = "lost"
         \/ lstate[l] = "stopping" /\ lstate'[l] = "stopped"
  PROVE  HandleInv'
<1>1. EntriesInv'
  BY DEF HandleInv, EntriesInv, TypeOK
<1>2. SpawnedInv'
  BY DEF HandleInv, SpawnedInv
<1>3. PendingInv'
  BY DEF HandleInv, PendingInv
<1>4. StartsInv' /\ PortsInv'
  BY DEF HandleInv, StartsInv, PortsInv
<1>5. QED
  BY <1>1, <1>2, <1>3, <1>4 DEF HandleInv

\* Stopping takes the entry out of the map together with the listener.
LEMMA HandleStop ==
  ASSUME HandleInv, TypeOK', NEW w \in Worker, NEW r \in Runtime, StopOne(w, r)
  PROVE  HandleInv'
<1>1. /\ UNCHANGED <<lruntime, lsocket, nextListener, start>>
      /\ listeners'[r] = None
      /\ \A s \in Runtime \ {r} : listeners'[s] = listeners[s]
      /\ \A m \in Listener : m # listeners[r] => lstate'[m] = lstate[m]
      /\ \A m \in Listener : m = listeners[r] =>
           lstate'[m] = IF lstate[m] = "open" THEN "stopping" ELSE lstate[m]
  BY NoneAssumption DEF StopOne, StopTunnel, Forget, HandleInv, TypeOK, Listener
<1>2. /\ \A s \in Runtime : listeners[s] \in Listener \cup {None}
      /\ \A l \in Listener : l # None
  BY NoneAssumption DEF HandleInv, TypeOK, Listener
<1>3. EntriesInv'
  <2>1. \A s \in Runtime \ {r} : listeners[s] # None => listeners[s] # listeners[r]
    BY DEF HandleInv, EntriesInv
  <2>2. QED
    BY <1>1, <1>2, <2>1 DEF HandleInv, EntriesInv
<1>4. SpawnedInv'
  BY <1>1 DEF HandleInv, SpawnedInv
<1>5. PendingInv'
  <2>1. ASSUME NEW q \in Start, start[q].pc = "insert"
        PROVE  start[q].listener \in Listener /\ start[q].listener # listeners[r]
    BY <2>1 DEF HandleInv, PendingInv
  <2>2. QED
    BY <1>1, <1>2, <2>1 DEF HandleInv, PendingInv
<1>6. StartsInv' /\ PortsInv'
  BY <1>1 DEF HandleInv, StartsInv, PortsInv
<1>7. QED
  BY <1>3, <1>4, <1>5, <1>6 DEF HandleInv

LEMMA HandleStep == HandleInv /\ [Next]_vars => HandleInv'
<1> SUFFICES ASSUME HandleInv, [Next]_vars PROVE HandleInv'
  OBVIOUS
<1>1. TypeOK'
  BY TypeStep DEF HandleInv
<1>2. ASSUME NEW l \in Listener, ProbeFails(l) \/ AbortLands(l) \/ ClientFails(l)
      PROVE  HandleInv'
  <2>1. /\ UNCHANGED <<listeners, lruntime, lsocket, nextListener, start>>
        /\ \A m \in Listener \ {l} : lstate'[m] = lstate[m]
        /\ \/ lstate'[l] = lstate[l]
           \/ lstate[l] = "open" /\ lstate'[l] = "lost"
           \/ lstate[l] = "stopping" /\ lstate'[l] = "stopped"
    BY <1>2 DEF ProbeFails, AbortLands, ClientFails, HandleInv, TypeOK
  <2>2. QED
    BY <1>1, <2>1, HandleEnds
<1>3. QED
  BY <1>1, <1>2, HandleStart, HandleBind, HandleInsert, HandleStop, HandleStutter, QuietFrame
     DEF Next, StartSteps, ListenerSteps, JobSteps

-----------------------------------------------------------------------------
\* What a step does to the handle of a listener that stays open

KeepsHandle(l) ==
  /\ lstate'[l] = "open"
  /\ lstate[l] = "open" => HasHandle(l)
  => HasHandle(l)' \/ Displaced(l)'

\* A step that leaves the map and the pending listeners as they are.
LEMMA KeepsFrame ==
  ASSUME UNCHANGED <<listeners, lruntime>>,
         \A p \in Start : start[p].pc = "insert" => start'[p] = start[p],
         NEW l \in Listener, lstate'[l] = "open" => lstate[l] = "open"
  PROVE  KeepsHandle(l)
BY DEF KeepsHandle, HasHandle

\* A new listener is in the hands of its start.
LEMMA KeepsBind ==
  ASSUME HandleInv, NEW p \in Start, Bind(p), NEW l \in Listener PROVE KeepsHandle(l)
<1>1. /\ nextListener \in Listener /\ start[p].pc = "bind"
      /\ lstate[nextListener] = "none"
  BY BoundsAssumption DEF Bind, HandleInv, TypeOK, SpawnedInv, Listener
<1>2. /\ listeners' = listeners
      /\ start'[p].pc = "insert" /\ start'[p].listener = nextListener
      /\ \A q \in Start \ {p} : start'[q] = start[q]
      /\ \A m \in Listener \ {nextListener} :
           lstate'[m] = lstate[m] /\ lruntime'[m] = lruntime[m]
  BY <1>1 DEF Bind, HandleInv, TypeOK
<1>3. CASE l = nextListener
  BY <1>2, <1>3 DEF KeepsHandle, HasHandle
<1>4. CASE l # nextListener
  BY <1>1, <1>2, <1>4 DEF KeepsHandle, HasHandle
<1>5. QED
  BY <1>3, <1>4

\* A start that enters the map displaces what is there: either its own listener
\* has ended by then, or the two have different sockets.
LEMMA KeepsInsert ==
  ASSUME HandleInv, NEW p \in Start, Insert(p), NEW l \in Listener PROVE KeepsHandle(l)
<1> DEFINE n == start[p].listener
           r == start[p].runtime
<1>1. /\ n \in Listener /\ lruntime[n] = r /\ lstate[n] \in {"open", "lost"}
      /\ r \in Runtime
  BY DEF Insert, HandleInv, PendingInv, StartsInv
<1>2. /\ UNCHANGED <<lstate, lruntime, lsocket>>
      /\ listeners'[r] = n
      /\ \A s \in Runtime \ {r} : listeners'[s] = listeners[s]
      /\ \A q \in Start \ {p} : start'[q] = start[q]
  BY <1>1 DEF Insert, HandleInv, TypeOK, listenerVars
<1> HIDE DEF r
<1>3. SUFFICES ASSUME lstate[l] = "open", HasHandle(l)
               PROVE  HasHandle(l)' \/ Displaced(l)'
  BY <1>2 DEF KeepsHandle
<1>4. lruntime[l] \in Runtime
  BY <1>3 DEF HandleInv, SpawnedInv
<1>5. CASE l = n
  BY <1>1, <1>2, <1>5 DEF HasHandle
<1>6. CASE l # n /\ listeners[lruntime[l]] = l
  <2>1. CASE lruntime[l] # r
    BY <1>2, <1>4, <1>6, <2>1 DEF HasHandle
  <2>2. CASE lruntime[l] = r
    <3>1. lstate[n] = "lost" \/ lsocket[n] # lsocket[l]
      BY <1>1, <1>3, <1>6 DEF HandleInv, PortsInv
    <3>2. n # None
      BY <1>1, NoneAssumption DEF Listener
    <3>3. QED
      BY <1>2, <1>6, <2>2, <3>1, <3>2 DEF Displaced
  <2>3. QED
    BY <2>1, <2>2
<1>7. CASE l # n /\ listeners[lruntime[l]] # l
  BY <1>2, <1>3, <1>7 DEF HasHandle
<1>8. QED
  BY <1>5, <1>6, <1>7

\* Stopping takes an entry out of the map together with its listener.
LEMMA KeepsStop ==
  ASSUME HandleInv, NEW w \in Worker, NEW r \in Runtime, StopOne(w, r), NEW l \in Listener
  PROVE  KeepsHandle(l)
<1>1. /\ UNCHANGED <<lruntime, start>>
      /\ \A s \in Runtime \ {r} : listeners'[s] = listeners[s]
      /\ listeners[r] = l => lstate'[l] # "open"
      /\ lstate'[l] = "open" => lstate[l] = "open"
  BY NoneAssumption DEF StopOne, StopTunnel, Forget, HandleInv, TypeOK, Listener
<1>2. lstate[l] = "open" => lruntime[l] \in Runtime
  BY DEF HandleInv, SpawnedInv
<1>3. QED
  BY <1>1, <1>2 DEF KeepsHandle, HasHandle

LEMMA HandlesKept ==
  HandleInv /\ [Next]_vars => [\A l \in Listener : KeepsHandle(l)]_vars
<1> SUFFICES ASSUME HandleInv, Next, NEW l \in Listener PROVE KeepsHandle(l)
  BY DEF KeepsHandle
<1>1. CASE handleVars' = handleVars
  BY <1>1, KeepsFrame DEF handleVars
<1>2. ASSUME NEW p \in Start, Check(p) \/ BindFails(p) \/ \E t \in Tunnel : Begin(p, t)
      PROVE  KeepsHandle(l)
  <2>1. /\ UNCHANGED <<listeners, lstate, lruntime>>
        /\ start[p].pc # "insert"
        /\ \A q \in Start \ {p} : start'[q] = start[q]
    BY <1>2 DEF Check, BindFails, Begin, HandleInv, TypeOK, listenerVars
  <2>2. QED
    BY <2>1, KeepsFrame
<1>3. ASSUME NEW m \in Listener, ProbeFails(m) \/ AbortLands(m) \/ ClientFails(m)
      PROVE  KeepsHandle(l)
  <2>1. /\ UNCHANGED <<listeners, lruntime, start>>
        /\ lstate'[l] = "open" => lstate[l] = "open"
    BY <1>3 DEF ProbeFails, AbortLands, ClientFails, HandleInv, TypeOK
  <2>2. QED
    BY <2>1, KeepsFrame
<1>4. QED
  BY <1>1, <1>2, <1>3, KeepsBind, KeepsInsert, KeepsStop, QuietFrame
     DEF Next, StartSteps, ListenerSteps, JobSteps

\* However starts, stops and failures interleave, a listening port keeps what it
\* can be closed with, the map's entry or the start that opened it, until it is
\* stopped; only a listener that has ended, or one on another address, takes
\* its place in the map.
THEOREM ListenersKeepTheirHandle == Spec => PortsKeepTheirHandle
<1>1. HandleInv /\ [Next]_vars =>
        [\A l \in Listener :
           /\ lstate'[l] = "open"
           /\ lstate[l] = "open" => HasHandle(l)
           => HasHandle(l)' \/ Displaced(l)']_vars
  BY HandlesKept DEF KeepsHandle
<1>2. QED
  BY <1>1, HandleInit, HandleStep, PTL DEF Spec, PortsKeepTheirHandle

\* A stopped listener is never what a start finds in the map.
THEOREM StoppedTunnelsCanStart == Spec => []NoStoppedEntry
<1>1. HandleInv => NoStoppedEntry
  BY DEF HandleInv, EntriesInv, NoStoppedEntry
<1>2. QED
  BY <1>1, HandleInit, HandleStep, PTL DEF Spec
=============================================================================
