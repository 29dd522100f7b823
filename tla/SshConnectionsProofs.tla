------------------------ MODULE SshConnectionsProofs ------------------------
(***************************************************************************)
(* Proofs about SshConnections, for any number of connections, attempts,   *)
(* callers and sessions.                                                   *)
(***************************************************************************)
EXTENDS SshConnections, TLAPS

-----------------------------------------------------------------------------
\* Type correctness.  The types alone are not inductive: Publish, Install and
\* TornDown use a session that only the way to that step provides.

AttemptInv ==
  /\ AttemptTypes
  /\ \A a \in Attempt : task[a] = "ready" => dialled[a] \in Session
  /\ \A a \in Attempt : apc[a] = "publish" => task[a] = "ready"

CallerInv ==
  /\ CallerTypes
  /\ \A c \in Caller : cpc[c] # "idle" => call[c].host \in Host
  /\ \A c \in Caller : cpc[c] \in {"lock", "dial", "install"} =>
                         wait[c].lock \in Session /\ wait[c].lineage \in Session
  /\ \A c \in Caller : cpc[c] = "install" => fresh[c] \in Session

TypeInv == AttemptInv /\ CallerInv /\ RegistryTypes

LEMMA TypeInit == Init => TypeInv
<1> SUFFICES ASSUME Init PROVE TypeInv
  OBVIOUS
<1> USE HostOfAssumption, MaxSessionsAssumption DEF Init
<1>1. AttemptInv
  BY DEF AttemptInv, AttemptTypes, AttemptPC, TaskState
<1>2. CallerInv
  BY DEF CallerInv, CallerTypes, CallerPC, Kind, Request, Wait, Reading, NoRequest,
         NoWait, NoReading
<1>3. RegistryTypes
  BY DEF RegistryTypes
<1>4. QED
  BY <1>1, <1>2, <1>3 DEF TypeInv

\* Whatever changes none of its variables keeps each part.
LEMMA AttemptStutter == AttemptInv /\ UNCHANGED attemptVars => AttemptInv'
BY DEF AttemptInv, AttemptTypes, attemptVars

LEMMA CallerStutter ==
  ASSUME CallerInv, UNCHANGED keptVars, removed' \subseteq Caller
  PROVE  CallerInv'
BY DEF CallerInv, CallerTypes, keptVars

\* A caller that starts over, or returns, has well-typed locals.
LEMMA EnterTypes ==
  ASSUME CallerInv, NEW c \in Caller, NEW pc \in {"idle", "lookup"},
         NEW request \in Request, pc = "lookup" => request.host \in Host,
         Enter(c, pc, request)
  PROVE  CallerInv'
BY DEF CallerInv, CallerTypes, Enter, Goto, Wait, Reading, NoWait, NoReading, CallerPC

LEMMA ReturnTypes ==
  ASSUME CallerInv, NEW c \in Caller, Return(c)
  PROVE  CallerInv'
<1>1. NoRequest \in Request
  BY DEF NoRequest, Request, Kind
<1>2. QED
  BY <1>1, EnterTypes DEF Return

\* A step that only moves a caller on, to where it needs no more locals.
LEMMA GotoTypes ==
  ASSUME CallerInv, NEW c \in Caller,
         NEW pc \in {"config", "relookup", "use", "clear", "clearAndFail"},
         cpc[c] # "idle", Goto(c, pc), held' \in [Caller -> Session \cup {None}],
         UNCHANGED <<call, wait, read, fresh, removed>>
  PROVE  CallerInv'
BY DEF CallerInv, CallerTypes, Goto, CallerPC

LEMMA TakeTypes ==
  ASSUME CallerInv, RegistryTypes, NEW c \in Caller, cpc[c] # "idle", Take(c)
  PROVE  CallerInv'
<1>1. Live(c) \in Session \cup {None}
  BY DEF Live, CallerInv, RegistryTypes, Handle
<1>2. held' \in [Caller -> Session \cup {None}]
  BY <1>1 DEF Take, CallerInv, CallerTypes
<1>3. QED
  BY <1>2, GotoTypes DEF Take

LEMMA AbortTypes ==
  ASSUME NEW tasks \in [Attempt -> TaskState], NEW a \in Attempt
  PROVE  /\ Abort(tasks, a) \in [Attempt -> TaskState]
         /\ \A b \in Attempt : Abort(tasks, a)[b] = "ready" <=> tasks[b] = "ready"
BY DEF Abort, TaskState

\* The steps of an attempt.
LEMMA TypeAttempt ==
  ASSUME TypeInv, NEW a \in Attempt, Begin(a) \/ AttemptSteps(a)
  PROVE  TypeInv'
<1>1. CallerInv'
  <2>1. UNCHANGED callerVars
    BY DEF AttemptSteps, Begin, PrepareEnds, PrepareError, Gate, Register, TaskFinishes,
           AbortLands, Discard, Settle, Publish
  <2>2. QED
    BY <2>1 DEF TypeInv, CallerInv, CallerTypes, callerVars
<1>2. AttemptInv' /\ RegistryTypes'
  <2> USE HostOfAssumption, MaxSessionsAssumption
          DEF TypeInv, AttemptInv, AttemptTypes, RegistryTypes, callerVars, netVars,
              Entry, AttemptPC, Returned, TaskState, Session
  <2> HIDE DEF Entry
  <2>e. /\ [phase |-> "preparing", attempt |-> a, cancel |-> FALSE] \in Entry
        /\ [phase |-> "connecting", attempt |-> a, cancel |-> FALSE] \in Entry
    BY DEF Entry
  <2>1. CASE Begin(a)
    BY <2>1, <2>e DEF Begin, Predecessor, Abort, Entry
  <2>2. CASE PrepareEnds(a)
    BY <2>2 DEF PrepareEnds
  <2>3. CASE PrepareError(a)
    BY <2>3 DEF PrepareError
  <2>4. CASE Gate(a)
    <3>1. /\ \E entries \in {connectTasks, [connectTasks EXCEPT ![HostOf[a]] = None]} :
               connectTasks' = entries
          /\ \E pc \in {"superseded", "cancelled", "register"} : apc' = [apc EXCEPT ![a] = pc]
          /\ \E tasks \in {task, [task EXCEPT ![a] = "running"]} : task' = tasks
          /\ apc[a] = "gate"
          /\ UNCHANGED <<dialled, connections, lockHolder, nextSession, dead, sweep, accepted,
                         superseded>>
      BY <2>4 DEF Gate
    <3>2. connectTasks' \in [Host -> Entry \cup {None}]
      BY <3>1
    <3>3. task' \in [Attempt -> TaskState] /\ \A b \in Attempt \ {a} : task'[b] = task[b]
      BY <3>1
    <3>4. apc' \in [Attempt -> AttemptPC] /\ apc'[a] # "publish"
          /\ \A b \in Attempt \ {a} : apc'[b] = apc[b]
      BY <3>1
    <3>5. task'[a] = "ready" => task[a] = "ready"
      BY <3>1
    <3>6. QED
      BY <3>1, <3>2, <3>3, <3>4, <3>5
  <2>5. CASE Register(a)
    <3>0. /\ \E entry \in {connectTasks[HostOf[a]], None,
                          [phase |-> "connecting", attempt |-> a, cancel |-> FALSE]} :
               connectTasks' = [connectTasks EXCEPT ![HostOf[a]] = entry]
          /\ \E pc \in {"discardSuperseded", "discardCancelled", "await"} :
               apc' = [apc EXCEPT ![a] = pc]
      BY <2>5 DEF Register
    <3>1. connectTasks' \in [Host -> Entry \cup {None}]
      <4>1. HostOf[a] \in Host
        OBVIOUS
      <4>2. PICK entry \in Entry \cup {None} :
              connectTasks' = [connectTasks EXCEPT ![HostOf[a]] = entry]
        BY <3>0, <2>e, <4>1
      <4>3. QED
        BY <4>1, <4>2
    <3>4. /\ apc' \in [Attempt -> AttemptPC]
          /\ apc'[a] # "publish" /\ \A b \in Attempt \ {a} : apc'[b] = apc[b]
      BY <3>0
    <3>2. /\ task' \in [Attempt -> TaskState]
          /\ \A b \in Attempt : task'[b] = "ready" <=> task[b] = "ready"
      BY <2>5, AbortTypes DEF Register
    <3>3. QED
      BY <2>5, <3>1, <3>2, <3>4 DEF Register
  <2>6. CASE TaskFinishes(a)
    <3>1. /\ UNCHANGED <<connectTasks, apc, connections, lockHolder, dead, sweep, accepted,
                         superseded>>
          /\ task[a] \in {"running", "aborting"}
      BY <2>6 DEF TaskFinishes
    <3>2. CASE task' = [task EXCEPT ![a] = "error"] /\ UNCHANGED <<dialled, nextSession>>
      BY <3>1, <3>2
    <3>3. CASE /\ Established
               /\ task' = [task EXCEPT ![a] = "ready"]
               /\ dialled' = [dialled EXCEPT ![a] = nextSession]
               /\ nextSession' = nextSession + 1
      <4>1. nextSession \in Session /\ nextSession' \in 1 .. MaxSessions + 1
        BY <3>3 DEF Established
      <4>2. /\ task' \in [Attempt -> TaskState] /\ dialled' \in [Attempt -> Session \cup {None}]
            /\ task'[a] = "ready" /\ dialled'[a] \in Session
            /\ \A b \in Attempt \ {a} : task'[b] = task[b] /\ dialled'[b] = dialled[b]
        BY <3>3, <4>1
      <4>3. QED
        BY <3>1, <4>1, <4>2
    <3>4. QED
      BY <2>6, <3>2, <3>3 DEF TaskFinishes
  <2>7. CASE AbortLands(a)
    BY <2>7 DEF AbortLands
  <2>8. CASE Discard(a)
    BY <2>8 DEF Discard, TornDown
  <2>9. CASE Settle(a)
    BY <2>9 DEF Settle, TornDown, ConnectingBy
  <2>10. CASE Publish(a)
    BY <2>10 DEF Publish, PublishedGeneration, Handle
  <2>11. QED
    BY <2>1, <2>2, <2>3, <2>4, <2>5, <2>6, <2>7, <2>8, <2>9, <2>10 DEF AttemptSteps
<1>3. QED
  BY <1>1, <1>2 DEF TypeInv

\* What a caller does without the lock reads the registry at most.
ReadingStep(c) ==
  \/ \E h \in Host, kind \in Kind : Call(c, kind, h)
  \/ Lookup(c) \/ ReadLock(c) \/ Relookup(c) \/ UseEnds(c) \/ UseFails(c) \/ UseTimeout(c)

LEMMA CallerReads ==
  ASSUME NEW c \in Caller, ReadingStep(c)
  PROVE  UNCHANGED <<connections, lockHolder, nextSession, dead, sweep>>
BY DEF ReadingStep, Call, Lookup, ReadLock, Relookup, UseEnds, UseFails, UseTimeout, netVars

LEMMA AcquireFrame ==
  ASSUME NEW c \in Caller, AcquireLock(c)
  PROVE  /\ UNCHANGED <<connections, nextSession, dead, sweep>>
         /\ \E holder \in {lockHolder, [lockHolder EXCEPT ![wait[c].lock] = c]} :
              lockHolder' = holder
BY DEF AcquireLock, netVars

\* The steps of a caller.
LEMMA TypeCaller ==
  ASSUME TypeInv, NEW c \in Caller,
         CallerSteps(c) \/ \E h \in Host, kind \in Kind : Call(c, kind, h)
  PROVE  TypeInv'
<1>1. AttemptInv'
  <2>1. UNCHANGED attemptVars
    BY DEF CallerSteps, Call, Lookup, ReadLock, AcquireLock, Dial, Install, Relookup,
           ReconnectTimeout, UseEnds, UseFails, UseTimeout, Clear
  <2>2. QED
    BY <2>1, AttemptStutter DEF TypeInv
<1>2. CallerInv'
  <2> USE DEF TypeInv
  <2>1. CASE \E h \in Host, kind \in Kind : Call(c, kind, h)
    BY <2>1, EnterTypes DEF Call, Request
  <2>2. CASE Lookup(c)
    BY <2>2, TakeTypes, GotoTypes, ReturnTypes DEF Lookup, localVars, CallerInv, CallerTypes
  <2>3. CASE ReadLock(c)
    <3>1. CASE Return(c)
      BY <3>1, ReturnTypes
    <3>2. CASE ~Return(c)
      <4> DEFINE conn == connections[call[c].host]
                 w == [lock |-> conn.lock, lineage |-> conn.connect]
      <4>1. conn.lock \in Session /\ conn.connect \in Session /\ w \in Wait
        BY <2>3, <3>2 DEF ReadLock, CallerInv, CallerTypes, RegistryTypes, Handle, Wait
      <4>2. /\ cpc' = [cpc EXCEPT ![c] = "lock"] /\ wait' = [wait EXCEPT ![c] = w]
            /\ UNCHANGED <<call, held, read, fresh, removed>> /\ cpc[c] = "config"
        BY <2>3, <3>2 DEF ReadLock, Goto
      <4> HIDE DEF conn
      <4>3. QED
        BY <4>1, <4>2 DEF CallerInv, CallerTypes, CallerPC
    <3>3. QED
      BY <3>1, <3>2
  <2>4. CASE AcquireLock(c)
    <3>1. CASE Return(c)
      BY <3>1, ReturnTypes
    <3>2. CASE ~Return(c)
      <4> DEFINE conn == connections[call[c].host]
                 r == [generation |-> conn.generation, basis |-> conn.origin]
      <4>1. r \in Reading
        BY <2>4, <3>2 DEF AcquireLock, CallerInv, CallerTypes, RegistryTypes, Handle, Reading
      <4>2. /\ cpc' = [cpc EXCEPT ![c] = "dial"] /\ read' = [read EXCEPT ![c] = r]
            /\ UNCHANGED <<call, held, wait, fresh, removed>> /\ cpc[c] = "lock"
        BY <2>4, <3>2 DEF AcquireLock, Goto
      <4> HIDE DEF r
      <4>3. QED
        BY <4>1, <4>2 DEF CallerInv, CallerTypes, CallerPC
    <3>3. QED
      BY <3>1, <3>2
  <2>5. CASE Dial(c)
    <3>1. CASE Return(c)
      BY <3>1, ReturnTypes
    <3>2. CASE ~Return(c)
      <4>1. nextSession \in Session
        BY <2>5, <3>2, MaxSessionsAssumption DEF Dial, Established, RegistryTypes, Session
      <4>2. /\ cpc' = [cpc EXCEPT ![c] = "install"]
            /\ fresh' = [fresh EXCEPT ![c] = nextSession]
            /\ UNCHANGED <<call, held, wait, read, removed>> /\ cpc[c] = "dial"
        BY <2>5, <3>2 DEF Dial, Goto
      <4>3. QED
        BY <4>1, <4>2 DEF CallerInv, CallerTypes, CallerPC
    <3>3. QED
      BY <3>1, <3>2
  <2>6. CASE Install(c)
    BY <2>6, GotoTypes, ReturnTypes DEF Install, localVars, CallerInv, CallerTypes
  <2>7. CASE Relookup(c)
    BY <2>7, TakeTypes, ReturnTypes DEF Relookup
  <2>8. CASE ReconnectTimeout(c)
    BY <2>8, ReturnTypes DEF ReconnectTimeout
  <2>9. CASE UseEnds(c) \/ UseFails(c) \/ UseTimeout(c)
    BY <2>9, GotoTypes, ReturnTypes
       DEF UseEnds, UseFails, UseTimeout, GiveUp, localVars, CallerInv, CallerTypes
  <2>10. CASE Clear(c)
    BY <2>10, EnterTypes, ReturnTypes DEF Clear, Request, CallerInv, CallerTypes
  <2>11. QED
    BY <2>1, <2>2, <2>3, <2>4, <2>5, <2>6, <2>7, <2>8, <2>9, <2>10 DEF CallerSteps
<1>3. RegistryTypes'
  <2> USE MaxSessionsAssumption
          DEF TypeInv, RegistryTypes, CallerInv, CallerTypes, netVars, Session
  <2>1. CASE ReadingStep(c)
    <3>1. UNCHANGED <<connections, lockHolder, nextSession, dead, sweep>>
      BY <2>1, CallerReads
    <3>2. QED
      BY <3>1
  <2>2. CASE AcquireLock(c)
    <3>1. /\ UNCHANGED <<connections, nextSession, dead, sweep>>
          /\ \E holder \in {lockHolder, [lockHolder EXCEPT ![wait[c].lock] = c]} :
               lockHolder' = holder
      BY <2>2, AcquireFrame
    <3>2. lockHolder' \in [Session -> Caller \cup {None}]
      BY <3>1, SMTT(30)
    <3>3. QED
      BY <3>1, <3>2
  <2>3. CASE Dial(c)
    BY <2>3 DEF Dial, Established, Release
  <2>4. CASE Install(c)
    <3>1. /\ fresh[c] \in Session /\ wait[c].lock \in Session /\ wait[c].lineage \in Session
          /\ call[c].host \in Host /\ read[c].generation + 1 \in Nat
      BY <2>4 DEF Install, Reading
    <3>2. connections' \in [Host -> Handle \cup {None}]
      <4>1. CASE UNCHANGED connections
        BY <4>1
      <4>2. ASSUME NEW sftp \in {fresh[c], None},
                   connections' = [connections EXCEPT ![call[c].host] =
                     [session |-> fresh[c], sftp |-> sftp,
                      generation |-> read[c].generation + 1, lock |-> wait[c].lock,
                      vault |-> call[c].host \in VaultHost,
                      origin |-> fresh[c], connect |-> wait[c].lineage]]
            PROVE  connections' \in [Host -> Handle \cup {None}]
        <5>1. (call[c].host \in VaultHost) \in BOOLEAN
          OBVIOUS
        <5>2. QED
          BY <3>1, <4>2, <5>1 DEF Handle
      <4>3. QED
        BY <2>4, <4>1, <4>2 DEF Install, InstalledLock
    <3>3. QED
      BY <2>4, <3>2 DEF Install, Release
  <2>5. CASE ReconnectTimeout(c)
    BY <2>5 DEF ReconnectTimeout, Release
  <2>6. CASE Clear(c)
    BY <2>6 DEF Clear, WithSessions, Handle
  <2>7. QED
    BY <2>1, <2>2, <2>3, <2>4, <2>5, <2>6 DEF CallerSteps, ReadingStep
<1>4. QED
  BY <1>1, <1>2, <1>3 DEF TypeInv

\* Cancelling, removal and the network.
LEMMA TypeOthers ==
  ASSUME TypeInv,
         \/ \E h \in Host : \/ Disconnect(h)
                            \/ \E wanted \in Attempt \cup {None} : CancelConnect(h, wanted)
         \/ SweepCollect \/ SweepRemove
         \/ \E s \in Session : TransportDies(s)
         \/ UNCHANGED vars
  PROVE  TypeInv'
<1> USE DEF TypeInv
<1>1. ASSUME NEW h \in Host, Disconnect(h) PROVE TypeInv'
  BY <1>1, AttemptStutter, CallerStutter
     DEF Disconnect, Bereft, RegistryTypes, CallerInv, CallerTypes, netVars, keptVars
<1>2. ASSUME NEW h \in Host, NEW wanted \in Attempt \cup {None}, CancelConnect(h, wanted)
      PROVE  TypeInv'
  <2>1. CallerInv' /\ RegistryTypes'
    BY <1>2, CallerStutter DEF CancelConnect, RegistryTypes, CallerInv, CallerTypes,
                               callerVars, netVars, keptVars
  <2>2. AttemptInv'
    <3>1. /\ connectTasks[h] \in Entry
          /\ connectTasks[h].attempt \in Attempt
          /\ [phase |-> "preparing", attempt |-> connectTasks[h].attempt, cancel |-> TRUE] \in Entry
      BY <1>2 DEF CancelConnect, AttemptInv, AttemptTypes, Entry
    <3>2. /\ task' \in [Attempt -> TaskState]
          /\ \A b \in Attempt : task'[b] = "ready" <=> task[b] = "ready"
      BY <1>2, <3>1, AbortTypes DEF CancelConnect, CancelDial, AttemptInv, AttemptTypes
    <3>3. /\ connectTasks' \in [Host -> Entry \cup {None}]
          /\ accepted' \subseteq Attempt
          /\ UNCHANGED <<apc, dialled, superseded>>
      BY <1>2, <3>1 DEF CancelConnect, AttemptInv, AttemptTypes
    <3>4. QED
      BY <3>2, <3>3 DEF AttemptInv, AttemptTypes
  <2>3. QED
    BY <2>1, <2>2
<1>3. CASE SweepCollect
  BY <1>3, AttemptStutter, CallerStutter
     DEF SweepCollect, RegistryTypes, CallerInv, CallerTypes, callerVars, netVars, keptVars
<1>4. CASE SweepRemove
  BY <1>4, AttemptStutter, CallerStutter
     DEF SweepRemove, Bereft, RegistryTypes, CallerInv, CallerTypes, netVars, keptVars
<1>5. ASSUME NEW s \in Session, TransportDies(s) PROVE TypeInv'
  BY <1>5, AttemptStutter, CallerStutter
     DEF TransportDies, RegistryTypes, CallerInv, CallerTypes, callerVars, keptVars
<1>6. CASE UNCHANGED vars
  BY <1>6, AttemptStutter, CallerStutter
     DEF vars, attemptVars, RegistryTypes, CallerInv, CallerTypes, keptVars
<1>7. QED
  BY <1>1, <1>2, <1>3, <1>4, <1>5, <1>6

LEMMA TypeStep == TypeInv /\ [Next]_vars => TypeInv'
<1> SUFFICES ASSUME TypeInv, [Next]_vars PROVE TypeInv'
  OBVIOUS
<1>1. QED
  BY TypeAttempt, TypeCaller, TypeOthers DEF Next

\* Every reachable state is well-typed: no step publishes, installs or tears
\* down a session that is not there, nor waits for a lock that is not there.
THEOREM TypeCorrect == Spec => []TypeOK
<1>1. TypeInv => TypeOK
  BY DEF TypeInv, AttemptInv, CallerInv, TypeOK
<1>2. QED
  BY <1>1, TypeInit, TypeStep, PTL DEF Spec

-----------------------------------------------------------------------------
\* What cancelling and superseding an attempt achieve.  The safety properties
\* become inductive once an attempt that was given up is known to have no
\* Connecting entry, and no Preparing entry whose flag is clear: those are the
\* two things Settle and Register look for.

GivenUpInv ==
  \A a \in accepted \cup superseded :
    /\ apc[a] \notin {"idle", "publish", "connected"}
    /\ ~ConnectingBy(a)
    /\ PreparingBy(a) => connectTasks[HostOf[a]].cancel

SafetyInv == EntryHasLiveOwner /\ GivenUpInv /\ DialStaysCancellable

\* The steps of everybody else leave connect_tasks and the attempts alone.
LEMMA OthersLeaveAttempts ==
  ASSUME [Next]_vars,
         ~ \E a \in Attempt : Begin(a) \/ AttemptSteps(a),
         ~ \E h \in Host, wanted \in Attempt \cup {None} : CancelConnect(h, wanted)
  PROVE  UNCHANGED attemptVars
<1>1. CASE UNCHANGED vars
  BY <1>1 DEF vars, attemptVars
<1>2. CASE SweepCollect \/ SweepRemove \/ (\E h \in Host : Disconnect(h))
           \/ \E s \in Session : TransportDies(s)
  BY <1>2 DEF SweepCollect, SweepRemove, Disconnect, TransportDies
<1>3. ASSUME NEW c \in Caller,
             CallerSteps(c) \/ \E h \in Host, kind \in Kind : Call(c, kind, h)
      PROVE  UNCHANGED attemptVars
  BY <1>3 DEF CallerSteps, Call, Lookup, ReadLock, AcquireLock, Dial, Install, Relookup,
              ReconnectTimeout, UseEnds, UseFails, UseTimeout, Clear
<1>4. QED
  BY <1>1, <1>2, <1>3 DEF Next

LEMMA SafetyStutter == SafetyInv /\ UNCHANGED attemptVars => SafetyInv'
BY DEF SafetyInv, EntryHasLiveOwner, GivenUpInv, DialStaysCancellable, ConnectingBy,
       PreparingBy, attemptVars

LEMMA SafetyInit == Init => SafetyInv
BY DEF Init, SafetyInv, EntryHasLiveOwner, GivenUpInv, DialStaysCancellable

LEMMA EntryPresent ==
  ASSUME NEW a \in Attempt
  PROVE  [phase |-> "connecting", attempt |-> a, cancel |-> FALSE] # None
<1>1. [phase |-> "connecting", attempt |-> a, cancel |-> FALSE] \in Entry
  BY DEF Entry
<1>2. QED
  BY <1>1, NoneAssumption

LEMMA SafetyAttempt ==
  ASSUME TypeInv, SafetyInv, NEW a \in Attempt, Begin(a) \/ AttemptSteps(a)
  PROVE  SafetyInv'
<1> USE HostOfAssumption
        DEF TypeInv, AttemptInv, AttemptTypes, SafetyInv, EntryHasLiveOwner, GivenUpInv,
            DialStaysCancellable, ConnectingBy, PreparingBy, Entry
<1>1. CASE Begin(a)
  <2>1. EntryHasLiveOwner'
    BY <1>1 DEF Begin
  <2>2. GivenUpInv'
    BY <1>1 DEF Begin
  <2>3. DialStaysCancellable'
    BY <1>1 DEF Begin, Predecessor, Abort
  <2>4. QED
    BY <2>1, <2>2, <2>3 DEF SafetyInv
<1>2. CASE PrepareEnds(a)
  BY <1>2 DEF PrepareEnds
<1>3. CASE PrepareError(a)
  BY <1>3 DEF PrepareError
<1>4. CASE Gate(a)
  BY <1>4 DEF Gate
<1>5. CASE Register(a)
  <2>1. CASE ~PreparingBy(a)
    BY <1>5, <2>1 DEF Register, Abort
  <2>2. CASE PreparingBy(a) /\ connectTasks[HostOf[a]].cancel
    BY <1>5, <2>2 DEF Register, Abort
  <2>3. CASE PreparingBy(a) /\ ~connectTasks[HostOf[a]].cancel
    <3>1. a \notin accepted \cup superseded
      BY <2>3
    <3>2. /\ apc' = [apc EXCEPT ![a] = "await"]
          /\ connectTasks' = [connectTasks EXCEPT ![HostOf[a]] =
               [phase |-> "connecting", attempt |-> a, cancel |-> FALSE]]
          /\ UNCHANGED <<task, accepted, superseded>>
      BY <1>5, <2>3 DEF Register
    <3>3. EntryHasLiveOwner'
      BY <2>3, <3>2
    <3>4. GivenUpInv'
      BY <2>3, <3>1, <3>2
    <3>5. DialStaysCancellable'
      <4>1. ASSUME NEW b \in Attempt, task'[b] = "running"
            PROVE  apc'[b] = "register" \/ ConnectingBy(b)'
        <5>1. CASE b = a
          <6>1. [phase |-> "connecting", attempt |-> a, cancel |-> FALSE] # None
            BY EntryPresent
          <6>2. QED
            BY <3>2, <5>1, <6>1
        <5>2. CASE b # a
          <6>1. apc'[b] = apc[b] /\ (apc[b] = "register" \/ ConnectingBy(b))
            BY <3>2, <4>1, <5>2
          <6>2. CASE ConnectingBy(b)
            <7>1. HostOf[b] # HostOf[a]
              BY <2>3, <6>2
            <7>2. connectTasks'[HostOf[b]] = connectTasks[HostOf[b]]
              BY <3>2, <7>1
            <7>3. QED
              BY <6>2, <7>2
          <6>3. QED
            BY <6>1, <6>2
        <5>3. QED
          BY <5>1, <5>2
      <4>2. QED
        BY <4>1
    <3>6. QED
      BY <3>3, <3>4, <3>5
  <2>4. QED
    BY <2>1, <2>2, <2>3
<1>6. CASE TaskFinishes(a)
  BY <1>6 DEF TaskFinishes
<1>7. CASE AbortLands(a)
  BY <1>7 DEF AbortLands
<1>8. CASE Discard(a)
  BY <1>8 DEF Discard
<1>9. CASE Settle(a)
  BY <1>9 DEF Settle
<1>10. CASE Publish(a)
  BY <1>10 DEF Publish
<1>11. QED
  BY <1>1, <1>2, <1>3, <1>4, <1>5, <1>6, <1>7, <1>8, <1>9, <1>10 DEF AttemptSteps

LEMMA SafetyCancel ==
  ASSUME TypeInv, SafetyInv, NEW h \in Host, NEW wanted \in Attempt \cup {None},
         CancelConnect(h, wanted)
  PROVE  SafetyInv'
BY HostOfAssumption
   DEF TypeInv, AttemptInv, AttemptTypes, SafetyInv, EntryHasLiveOwner, GivenUpInv,
       DialStaysCancellable, ConnectingBy, PreparingBy, Entry, CancelConnect, CancelDial, Abort

LEMMA SafetyStep == TypeInv /\ SafetyInv /\ [Next]_vars => SafetyInv'
<1> SUFFICES ASSUME TypeInv, SafetyInv, [Next]_vars PROVE SafetyInv'
  OBVIOUS
<1>1. QED
  BY SafetyAttempt, SafetyCancel, OthersLeaveAttempts, SafetyStutter

\* A cancelled or superseded attempt never puts a handle into the registry, a
\* dial in progress can always be cancelled, and no entry outlives its call.
THEOREM AttemptsSafe ==
  Spec => [](CancelledNeverPublishes /\ SupersededNeverPublishes
             /\ DialStaysCancellable /\ EntryHasLiveOwner)
<1>1. SafetyInv => /\ CancelledNeverPublishes /\ SupersededNeverPublishes
                   /\ DialStaysCancellable /\ EntryHasLiveOwner
  BY DEF SafetyInv, GivenUpInv, CancelledNeverPublishes, SupersededNeverPublishes
<1>2. Init => TypeInv /\ SafetyInv
  BY TypeInit, SafetyInit
<1>3. TypeInv /\ SafetyInv /\ [Next]_vars => (TypeInv /\ SafetyInv)'
  BY TypeStep, SafetyStep
<1>4. QED
  BY <1>1, <1>2, <1>3, PTL DEF Spec

\* An attempt another connect took the place of never puts a handle into the
\* registry (register_prepared_connection, the generation it looks for).
THEOREM SupersededStaysOut == Spec => []SupersededNeverPublishes
  BY AttemptsSafe, PTL

\* Whoever dials is in connect_tasks, where a cancel finds it (ssh_connect).
THEOREM DialsCanBeCancelled == Spec => []DialStaysCancellable
  BY AttemptsSafe, PTL

-----------------------------------------------------------------------------
\* What reconnects do to the registry.

\* A reconnect holds the lock it cloned, and locks go with connects.
LocksInv ==
  /\ \A h \in Host : connections[h] # None => connections[h].lock = connections[h].connect
  /\ \A c \in Caller : cpc[c] \in {"lock", "dial", "install"} =>
                         wait[c].lock = wait[c].lineage
  /\ \A c \in Caller : Reconnecting(c) => lockHolder[wait[c].lock] = c

\* As long as the connection is not removed, the installed handle is the one
\* whose generation was read, or has a greater generation.
ReadInv ==
  \A c \in Caller : Reconnecting(c) /\ c \notin removed =>
    LET conn == connections[call[c].host] IN
      /\ conn # None
      /\ conn.generation >= read[c].generation
      /\ conn.generation = read[c].generation => conn.origin = read[c].basis

\* The steps that change neither the registry nor a caller.
LEMMA RegistryFrame ==
  ASSUME \/ \E a \in Attempt :
              \/ Begin(a) \/ PrepareEnds(a) \/ PrepareError(a) \/ Gate(a) \/ Register(a)
              \/ TaskFinishes(a) \/ AbortLands(a) \/ Discard(a) \/ Settle(a)
         \/ \E h \in Host, wanted \in Attempt \cup {None} : CancelConnect(h, wanted)
         \/ SweepCollect
         \/ \E s \in Session : TransportDies(s)
         \/ UNCHANGED vars
  PROVE  UNCHANGED <<connections, callerVars>>
BY DEF Begin, PrepareEnds, PrepareError, Gate, Register, TaskFinishes, AbortLands, Discard,
       Settle, CancelConnect, SweepCollect, TransportDies, vars, callerVars

\* The handle Publish installs.
LEMMA PublishHandle ==
  ASSUME TypeInv, NEW a \in Attempt, Publish(a)
  PROVE  LET h == HostOf[a] IN
         /\ h \in Host
         /\ UNCHANGED callerVars
         /\ \A g \in Host \ {h} : connections'[g] = connections[g]
         /\ connections'[h].lock = connections'[h].connect
         /\ connections'[h] \in Handle
         /\ connections'[h].generation = PublishedGeneration(h)
<1>1. PICK sftp \in {dialled[a], None} :
        connections' = [connections EXCEPT ![HostOf[a]] =
          [session |-> dialled[a], sftp |-> sftp,
           generation |-> PublishedGeneration(HostOf[a]), lock |-> dialled[a],
           vault |-> HostOf[a] \in VaultHost, origin |-> dialled[a], connect |-> dialled[a]]]
  BY DEF Publish
<1>2. HostOf[a] \in Host /\ dialled[a] \in Session
  BY HostOfAssumption DEF TypeInv, AttemptInv, Publish
<1>3. PublishedGeneration(HostOf[a]) \in Nat
  BY <1>2 DEF PublishedGeneration, TypeInv, RegistryTypes, Handle
<1>4. (HostOf[a] \in VaultHost) \in BOOLEAN
  OBVIOUS
<1>5. UNCHANGED callerVars
  BY DEF Publish
<1>6. connections \in [Host -> Handle \cup {None}]
  BY DEF TypeInv, RegistryTypes
<1>7. QED
  BY <1>1, <1>2, <1>3, <1>4, <1>5, <1>6 DEF Handle

\* The handle Install installs, when it does.
LEMMA InstallHandle ==
  ASSUME TypeInv, LocksInv, NEW c \in Caller, Install(c)
  PROVE  LET h == call[c].host IN
         /\ h \in Host
         /\ \A g \in Host \ {h} : connections'[g] = connections[g]
         /\ \/ /\ UNCHANGED connections
               /\ Return(c)
            \/ /\ StillCurrent(c)
               /\ cpc' = [cpc EXCEPT ![c] = "relookup"]
               /\ UNCHANGED localVars
               /\ connections'[h] \in Handle
               /\ connections'[h].lock = connections'[h].connect
               /\ connections'[h].generation = connections[h].generation + 1
<1>1. /\ call[c].host \in Host /\ fresh[c] \in Session
      /\ wait[c].lock \in Session /\ wait[c].lineage = wait[c].lock
  BY DEF Install, TypeInv, CallerInv, LocksInv
<1>2. CASE ~StillCurrent(c)
  BY <1>1, <1>2 DEF Install
<1>3. CASE StillCurrent(c)
  <2>1. PICK sftp \in {fresh[c], None} :
          connections' = [connections EXCEPT ![call[c].host] =
            [session |-> fresh[c], sftp |-> sftp,
             generation |-> read[c].generation + 1, lock |-> wait[c].lock,
             vault |-> call[c].host \in VaultHost, origin |-> fresh[c],
             connect |-> wait[c].lineage]]
    BY <1>3 DEF Install, InstalledLock
  <2>2. read[c].generation + 1 \in Nat
    BY DEF TypeInv, CallerInv, CallerTypes, Reading
  <2>3. (call[c].host \in VaultHost) \in BOOLEAN
    OBVIOUS
  <2>4. connections \in [Host -> Handle \cup {None}]
    BY DEF TypeInv, RegistryTypes
  <2>5. cpc' = [cpc EXCEPT ![c] = "relookup"] /\ UNCHANGED localVars
    BY <1>3 DEF Install, Goto
  <2>6. read[c].generation = connections[call[c].host].generation
    BY <1>3 DEF StillCurrent
  <2>7. QED
    BY <1>1, <1>3, <2>1, <2>2, <2>3, <2>4, <2>5, <2>6 DEF Handle
<1>4. QED
  BY <1>2, <1>3

\* Clear keeps everything of a handle but its session.
LEMMA ClearHandle ==
  ASSUME TypeInv, NEW c \in Caller, Clear(c), NEW h \in Host
  PROVE  /\ connections[h] = None <=> connections'[h] = None
         /\ connections[h] # None =>
              /\ connections'[h].lock = connections[h].lock
              /\ connections'[h].connect = connections[h].connect
              /\ connections'[h].origin = connections[h].origin
              /\ connections'[h].generation = connections[h].generation
<1>1. connections \in [Host -> Handle \cup {None}]
  BY DEF TypeInv, RegistryTypes
<1>2. CASE connections[call[c].host] = None \/ h # call[c].host
  BY <1>1, <1>2 DEF Clear
<1>3. CASE connections[call[c].host] # None /\ h = call[c].host
  <2>1. connections[h] \in Handle
    BY <1>1, <1>3
  <2>2. PICK session \in Session \cup {None}, sftp \in Session \cup {None} :
          connections'[h] = WithSessions(connections[h], session, sftp)
    BY <1>1, <1>3, <2>1 DEF Clear, Handle
  <2>3. connections'[h] \in Handle
    BY <2>1, <2>2 DEF WithSessions, Handle
  <2>4. connections'[h] # None
    BY <2>3, NoneAssumption
  <2>5. QED
    BY <1>3, <2>2, <2>4 DEF WithSessions
<1>4. QED
  BY <1>2, <1>3

\* Entering or returning touches the locals of no other caller.
LEMMA EnterFrame ==
  ASSUME CallerTypes, NEW c \in Caller, NEW pc, NEW request, Enter(c, pc, request)
  PROVE  /\ cpc'[c] = pc
         /\ \A d \in Caller \ {c} : /\ cpc'[d] = cpc[d] /\ call'[d] = call[d]
                                    /\ wait'[d] = wait[d] /\ read'[d] = read[d]
                                    /\ d \in removed' <=> d \in removed
BY DEF CallerTypes, Enter, Goto

LEMMA ReturnFrame ==
  ASSUME CallerTypes, NEW c \in Caller, Return(c)
  PROVE  /\ cpc'[c] = "idle"
         /\ \A d \in Caller \ {c} : /\ cpc'[d] = cpc[d] /\ call'[d] = call[d]
                                    /\ wait'[d] = wait[d] /\ read'[d] = read[d]
                                    /\ d \in removed' <=> d \in removed
BY EnterFrame DEF Return

\* The steps of a caller outside the lock: they read the registry at most, and
\* leave the caller where it is not reconnecting.
QuietStep(c) ==
  \/ \E h \in Host, kind \in Kind : Call(c, kind, h)
  \/ Lookup(c) \/ Relookup(c) \/ UseEnds(c) \/ UseFails(c) \/ UseTimeout(c)

LEMMA QuietFrame ==
  ASSUME CallerTypes, NEW c \in Caller, QuietStep(c)
  PROVE  /\ UNCHANGED <<connections, lockHolder>>
         /\ cpc'[c] \notin {"lock", "dial", "install"}
         /\ \A d \in Caller \ {c} : /\ cpc'[d] = cpc[d] /\ call'[d] = call[d]
                                    /\ wait'[d] = wait[d] /\ read'[d] = read[d]
                                    /\ d \in removed' <=> d \in removed
<1>1. CASE \E h \in Host, kind \in Kind : Call(c, kind, h)
  BY <1>1, EnterFrame DEF Call
<1>2. CASE Return(c)
  BY <1>2, ReturnFrame DEF QuietStep, Call, Lookup, Relookup, UseEnds, UseFails, UseTimeout
<1>3. CASE ~Return(c) /\ ~ \E h \in Host, kind \in Kind : Call(c, kind, h)
  <2>1. /\ UNCHANGED <<connections, lockHolder, call, wait, read, removed>>
        /\ \E pc \in {"config", "use", "clear", "clearAndFail"} : Goto(c, pc)
    BY <1>3 DEF QuietStep, Lookup, Relookup, Take, UseEnds, UseFails, UseTimeout, GiveUp,
                localVars
  <2>2. QED
    BY <2>1 DEF Goto, CallerTypes
<1>4. QED
  BY <1>1, <1>2, <1>3

LEMMA LocksStep == TypeInv /\ LocksInv /\ [Next]_vars => LocksInv'
<1> SUFFICES ASSUME TypeInv, LocksInv, [Next]_vars PROVE LocksInv'
  OBVIOUS
<1>t. CallerTypes
  BY DEF TypeInv, CallerInv
<1>1. CASE UNCHANGED <<connections, callerVars>>
  BY <1>1 DEF LocksInv, callerVars, Reconnecting
<1>2. ASSUME NEW a \in Attempt, Publish(a) PROVE LocksInv'
  BY <1>2, PublishHandle DEF LocksInv, callerVars, Reconnecting
<1>3. ASSUME NEW h \in Host, Disconnect(h) PROVE LocksInv'
  BY <1>3 DEF LocksInv, Disconnect, keptVars, Reconnecting, TypeInv, RegistryTypes
<1>4. CASE SweepRemove
  BY <1>4 DEF LocksInv, SweepRemove, keptVars, Reconnecting
<1>5. ASSUME NEW c \in Caller, QuietStep(c) PROVE LocksInv'
  BY <1>t, <1>5, QuietFrame DEF LocksInv, Reconnecting
<1>6. ASSUME NEW c \in Caller, ReadLock(c) PROVE LocksInv'
  <2>1. CASE Return(c)
    BY <1>t, <1>6, <2>1, ReturnFrame DEF ReadLock, LocksInv, Reconnecting
  <2>2. CASE ~Return(c)
    <3>1. /\ UNCHANGED <<connections, lockHolder>>
          /\ cpc' = [cpc EXCEPT ![c] = "lock"]
          /\ wait'[c].lock = wait'[c].lineage
          /\ \A d \in Caller \ {c} : wait'[d] = wait[d]
      BY <1>t, <1>6, <2>2 DEF ReadLock, Goto, CallerTypes, TypeInv, CallerInv, LocksInv
    <3>2. QED
      BY <1>t, <3>1 DEF LocksInv, Reconnecting, CallerTypes
  <2>3. QED
    BY <2>1, <2>2
<1>7. ASSUME NEW c \in Caller, AcquireLock(c) PROVE LocksInv'
  <2>1. CASE Return(c) /\ UNCHANGED lockHolder
    BY <1>t, <1>7, <2>1, ReturnFrame DEF AcquireLock, LocksInv, Reconnecting
  <2>2. CASE ~(Return(c) /\ UNCHANGED lockHolder)
    <3>1. /\ UNCHANGED <<connections, wait>>
          /\ cpc[c] = "lock" /\ cpc' = [cpc EXCEPT ![c] = "dial"]
          /\ lockHolder[wait[c].lock] = None
          /\ lockHolder' = [lockHolder EXCEPT ![wait[c].lock] = c]
      BY <1>7, <2>2 DEF AcquireLock, Goto
    <3>2. wait[c].lock \in Session
      BY <3>1 DEF TypeInv, CallerInv
    <3>3. QED
      BY <1>t, <3>1, <3>2, NoneAssumption
         DEF LocksInv, Reconnecting, CallerTypes, TypeInv, RegistryTypes
  <2>3. QED
    BY <2>1, <2>2
<1>8. ASSUME NEW c \in Caller, Dial(c) \/ Install(c) \/ ReconnectTimeout(c) PROVE LocksInv'
  <2>1. \A h \in Host : connections'[h] # None =>
          connections'[h].lock = connections'[h].connect
    BY <1>8, InstallHandle DEF LocksInv, Dial, ReconnectTimeout
  <2>2. \A d \in Caller \ {c} : cpc'[d] = cpc[d] /\ wait'[d] = wait[d]
    BY <1>t, <1>8, ReturnFrame DEF Dial, Install, ReconnectTimeout, Goto, localVars, CallerTypes
  <2>3. CASE cpc'[c] \in {"lock", "dial", "install"}
    BY <1>t, <1>8, <2>1, <2>2, <2>3, ReturnFrame
       DEF Dial, Install, ReconnectTimeout, Goto, LocksInv, Reconnecting, CallerTypes
  <2>4. CASE cpc'[c] \notin {"lock", "dial", "install"}
    <3>1. UNCHANGED lockHolder \/ (Reconnecting(c) /\ Release(c))
      BY <1>8 DEF Dial, Install, ReconnectTimeout, Reconnecting
    <3>2. ASSUME NEW d \in Caller \ {c}, Reconnecting(d)
          PROVE  lockHolder'[wait[d].lock] = d
      BY <3>1, <3>2 DEF Release, LocksInv, Reconnecting, TypeInv, RegistryTypes, CallerInv
    <3>3. QED
      BY <2>1, <2>2, <2>4, <3>2 DEF LocksInv, Reconnecting
  <2>5. QED
    BY <2>3, <2>4
<1>9. ASSUME NEW c \in Caller, Clear(c) PROVE LocksInv'
  <2>1. \A h \in Host : connections'[h] # None =>
          connections'[h].lock = connections'[h].connect
    BY <1>9, ClearHandle DEF LocksInv
  <2>2. /\ UNCHANGED lockHolder
        /\ cpc'[c] \in {"lookup", "idle"}
        /\ \A d \in Caller \ {c} : cpc'[d] = cpc[d] /\ wait'[d] = wait[d]
    BY <1>t, <1>9, EnterFrame, ReturnFrame DEF Clear
  <2>3. QED
    BY <2>1, <2>2 DEF LocksInv, Reconnecting
<1>10. QED
  BY <1>1, <1>2, <1>3, <1>4, <1>5, <1>6, <1>7, <1>8, <1>9, RegistryFrame
     DEF Next, AttemptSteps, CallerSteps, QuietStep

\* A caller that is not reconnecting now, and has touched no other caller, may
\* change handles as long as it keeps their identity and generation.
LEMMA ReadKept ==
  ASSUME ReadInv, NEW c \in Caller, cpc'[c] \notin {"dial", "install"},
         \A d \in Caller \ {c} : /\ cpc'[d] = cpc[d] /\ call'[d] = call[d]
                                 /\ read'[d] = read[d]
                                 /\ d \in removed' <=> d \in removed,
         \A d \in Caller \ {c} : Reconnecting(d) =>
           LET old == connections[call[d].host]
               new == connections'[call[d].host]
           IN  /\ old = None <=> new = None
               /\ old # None => new.origin = old.origin /\ new.generation = old.generation
  PROVE  ReadInv'
<1> SUFFICES ASSUME NEW d \in Caller, Reconnecting(d)', d \notin removed'
             PROVE  LET conn == connections'[call'[d].host] IN
                      /\ conn # None
                      /\ conn.generation >= read'[d].generation
                      /\ conn.generation = read'[d].generation => conn.origin = read'[d].basis
  BY DEF ReadInv
<1>1. d # c
  BY DEF Reconnecting
<1>2. /\ Reconnecting(d) /\ d \notin removed
      /\ call'[d] = call[d] /\ read'[d] = read[d]
  BY <1>1 DEF Reconnecting
<1> DEFINE old == connections[call[d].host]
           new == connections'[call[d].host]
<1>3. /\ old # None
      /\ old.generation >= read[d].generation
      /\ old.generation = read[d].generation => old.origin = read[d].basis
  BY <1>2 DEF ReadInv
<1>4. new # None /\ new.origin = old.origin /\ new.generation = old.generation
  BY <1>1, <1>2, <1>3
<1> HIDE DEF old, new
<1>5. /\ new # None
      /\ new.generation >= read[d].generation
      /\ new.generation = read[d].generation => new.origin = read[d].basis
  BY <1>3, <1>4
<1>6. QED
  BY <1>2, <1>5 DEF new

LEMMA ReadStep == TypeInv /\ LocksInv /\ ReadInv /\ [Next]_vars => ReadInv'
<1> SUFFICES ASSUME TypeInv, LocksInv, ReadInv, [Next]_vars PROVE ReadInv'
  OBVIOUS
<1>t. /\ CallerTypes
      /\ connections \in [Host -> Handle \cup {None}]
      /\ \A c \in Caller : Reconnecting(c) => call[c].host \in Host
      /\ \A c \in Caller : read[c].generation \in Nat
  BY DEF TypeInv, CallerInv, CallerTypes, RegistryTypes, Reconnecting, Reading
<1>1. CASE UNCHANGED <<connections, callerVars>>
  BY <1>1 DEF ReadInv, callerVars, Reconnecting
<1>2. ASSUME NEW a \in Attempt, Publish(a) PROVE ReadInv'
  <2> DEFINE h == HostOf[a]
  <2>1. /\ h \in Host /\ UNCHANGED callerVars
        /\ \A g \in Host \ {h} : connections'[g] = connections[g]
        /\ connections'[h] \in Handle
        /\ connections'[h].generation = PublishedGeneration(h)
    BY <1>2, PublishHandle
  <2>2. connections'[h] # None
    BY <2>1, NoneAssumption
  <2> HIDE DEF h
  <2>3. connections[h] # None => connections'[h].generation = connections[h].generation + 1
                                 /\ connections[h].generation \in Nat
    BY <1>t, <2>1 DEF PublishedGeneration, Handle
  <2>4. ASSUME NEW c \in Caller, Reconnecting(c), c \notin removed, call[c].host = h
        PROVE  connections'[h].generation > read[c].generation
    <3>1. connections[h] # None /\ connections[h].generation >= read[c].generation
      BY <2>4 DEF ReadInv
    <3>2. QED
      BY <1>t, <2>3, <3>1
  <2>5. ASSUME NEW c \in Caller, Reconnecting(c), c \notin removed, call[c].host # h
        PROVE  connections'[call[c].host] = connections[call[c].host]
    BY <1>t, <2>1, <2>5
  <2>6. ASSUME NEW c \in Caller, Reconnecting(c)', c \notin removed'
        PROVE  LET conn == connections'[call'[c].host] IN
                 /\ conn # None
                 /\ conn.generation >= read'[c].generation
                 /\ conn.generation = read'[c].generation => conn.origin = read'[c].basis
    <3>1. /\ Reconnecting(c) /\ c \notin removed
          /\ call'[c] = call[c] /\ read'[c] = read[c]
      BY <2>1, <2>6 DEF callerVars, Reconnecting
    <3>2. CASE call[c].host = h
      <4>1. connections'[h].generation \in Nat /\ read[c].generation \in Nat
        BY <1>t, <2>1 DEF Handle
      <4>2. QED
        BY <2>2, <2>4, <3>1, <3>2, <4>1
    <3>3. CASE call[c].host # h
      BY <2>5, <3>1, <3>3 DEF ReadInv
    <3>4. QED
      BY <3>2, <3>3
  <2>7. QED
    BY <2>6 DEF ReadInv
<1>3. ASSUME NEW h \in Host, Disconnect(h) PROVE ReadInv'
  BY <1>t, <1>3 DEF ReadInv, Disconnect, Bereft, keptVars, Reconnecting
<1>4. CASE SweepRemove
  BY <1>t, <1>4 DEF ReadInv, SweepRemove, Bereft, keptVars, Reconnecting
<1>5. ASSUME NEW c \in Caller, QuietStep(c) PROVE ReadInv'
  BY <1>t, <1>5, QuietFrame DEF ReadInv, Reconnecting
<1>6. ASSUME NEW c \in Caller, ReadLock(c) \/ ReconnectTimeout(c) PROVE ReadInv'
  <2>1. /\ UNCHANGED connections /\ cpc'[c] \in {"idle", "lock"}
        /\ \A d \in Caller \ {c} : /\ cpc'[d] = cpc[d] /\ call'[d] = call[d]
                                   /\ read'[d] = read[d] /\ (d \in removed' <=> d \in removed)
    BY <1>t, <1>6, ReturnFrame DEF ReadLock, ReconnectTimeout, Goto, CallerTypes
  <2>2. QED
    BY <2>1, ReadKept
<1>7. ASSUME NEW c \in Caller, AcquireLock(c) PROVE ReadInv'
  <2>1. CASE Return(c)
    BY <1>t, <1>7, <2>1, ReturnFrame DEF AcquireLock, ReadInv, Reconnecting
  <2>2. CASE ~Return(c)
    <3>1. /\ UNCHANGED <<connections, call, removed>>
          /\ connections[call[c].host] # None
          /\ cpc[c] = "lock" /\ cpc' = [cpc EXCEPT ![c] = "dial"]
          /\ read'[c].generation = connections[call[c].host].generation
          /\ read'[c].basis = connections[call[c].host].origin
          /\ \A d \in Caller \ {c} : read'[d] = read[d]
      BY <1>t, <1>7, <2>2 DEF AcquireLock, Goto, CallerTypes
    <3>2. connections[call[c].host].generation \in Nat
      BY <1>t, <3>1 DEF TypeInv, CallerInv, Handle
    <3>3. QED
      BY <1>t, <3>1, <3>2 DEF ReadInv, Reconnecting, CallerTypes
  <2>3. QED
    BY <2>1, <2>2
<1>8. ASSUME NEW c \in Caller, Dial(c) PROVE ReadInv'
  <2>1. /\ UNCHANGED connections /\ cpc[c] = "dial"
        /\ \/ Return(c)
           \/ UNCHANGED <<call, read, removed>> /\ cpc' = [cpc EXCEPT ![c] = "install"]
    BY <1>8 DEF Dial, Goto
  <2>2. QED
    BY <1>t, <2>1, ReturnFrame DEF ReadInv, Reconnecting, CallerTypes
<1>9. ASSUME NEW c \in Caller, Install(c) PROVE ReadInv'
  <2> DEFINE h == call[c].host
  <2>1. /\ h \in Host
        /\ \A g \in Host \ {h} : connections'[g] = connections[g]
        /\ \/ UNCHANGED connections /\ Return(c)
           \/ /\ StillCurrent(c)
              /\ cpc' = [cpc EXCEPT ![c] = "relookup"]
              /\ UNCHANGED localVars
              /\ connections'[h] \in Handle
              /\ connections'[h].generation = connections[h].generation + 1
    BY <1>9, InstallHandle
  <2>2. CASE Return(c) /\ UNCHANGED connections
    BY <1>t, <2>2, ReturnFrame DEF ReadInv, Reconnecting
  <2>3. CASE ~(Return(c) /\ UNCHANGED connections)
    <3>1. connections[h] # None /\ connections'[h] # None
      BY <2>1, <2>3, NoneAssumption DEF StillCurrent
    <3> HIDE DEF h
    <3>2. connections[h].generation \in Nat
      BY <1>t, <2>1, <3>1 DEF Handle
    <3>3. QED
      BY <1>t, <2>1, <2>3, <3>1, <3>2 DEF ReadInv, Reconnecting, CallerTypes, localVars
  <2>4. QED
    BY <2>2, <2>3
<1>10. ASSUME NEW c \in Caller, Clear(c) PROVE ReadInv'
  <2>1. /\ cpc'[c] \in {"lookup", "idle"}
        /\ \A d \in Caller \ {c} : /\ cpc'[d] = cpc[d] /\ call'[d] = call[d]
                                   /\ read'[d] = read[d] /\ (d \in removed' <=> d \in removed)
    BY <1>t, <1>10, EnterFrame, ReturnFrame DEF Clear
  <2>2. QED
    <3>1. ASSUME NEW d \in Caller \ {c}, Reconnecting(d)
          PROVE  LET old == connections[call[d].host]
                     new == connections'[call[d].host]
                 IN  /\ old = None <=> new = None
                     /\ old # None => new.origin = old.origin /\ new.generation = old.generation
      BY <1>t, <1>10, <3>1, ClearHandle
    <3>2. QED
      BY <2>1, <3>1, ReadKept
<1>11. QED
  BY <1>1, <1>2, <1>3, <1>4, <1>5, <1>6, <1>7, <1>8, <1>9, <1>10, RegistryFrame
     DEF Next, AttemptSteps, CallerSteps, QuietStep

RegistryInv == TypeInv /\ LocksInv /\ ReadInv

LEMMA RegistryAlways == Spec => []RegistryInv
<1>1. Init => LocksInv /\ ReadInv
  BY DEF Init, LocksInv, ReadInv, Reconnecting
<1>2. Init => RegistryInv
  BY <1>1, TypeInit DEF RegistryInv
<1>3. RegistryInv /\ [Next]_vars => RegistryInv'
  BY TypeStep, LocksStep, ReadStep DEF RegistryInv
<1>4. QED
  BY <1>2, <1>3, PTL DEF Spec

\* Two reconnects that cloned their lock from handles of one connect are never
\* inside reconnect_stored_connection's critical section together.
THEOREM ReconnectsSerialized == Spec => []SerializedPerConnect
<1>1. RegistryInv => SerializedPerConnect
  BY DEF RegistryInv, LocksInv, SerializedPerConnect, Reconnecting
<1>2. QED
  BY <1>1, RegistryAlways, PTL

\* A reconnect replaces the handle whose generation it read, or one that was
\* installed after the connection had been removed.
THEOREM ReconnectReplacesWhatItRead == Spec => ReplacesWhatItRead
<1>1. ASSUME RegistryInv, NEW c \in Caller, Install(c), cpc'[c] = "relookup", c \notin removed
      PROVE  connections[call[c].host].origin = read[c].basis
  <2>1. StillCurrent(c) /\ Reconnecting(c)
    <3>1. CallerTypes
      BY <1>1 DEF RegistryInv, TypeInv, CallerInv
    <3>2. cpc'[c] # "idle"
      BY <1>1
    <3>3. ~Return(c)
      BY <3>1, <3>2, ReturnFrame
    <3>4. QED
      BY <1>1, <3>3 DEF Install, Reconnecting
  <2>2. QED
    BY <1>1, <2>1 DEF RegistryInv, ReadInv, StillCurrent
<1>2. RegistryInv =>
        [\A c \in Caller :
           Install(c) /\ cpc'[c] = "relookup" /\ c \notin removed
             => connections[call[c].host].origin = read[c].basis]_vars
  BY <1>1
<1>3. QED
  BY <1>2, RegistryAlways, PTL DEF ReplacesWhatItRead

\* Only an attempt's Publish puts a handle where there is none.
LEMMA OnlyPublishRevives ==
  ASSUME RegistryInv, [Next]_vars, NEW h \in Host,
         connections[h] = None, connections'[h] # None
  PROVE  \E a \in Attempt : HostOf[a] = h /\ Publish(a)
<1>1. ASSUME NEW c \in Caller, Install(c) PROVE FALSE
  BY <1>1, InstallHandle DEF RegistryInv, StillCurrent
<1>2. ASSUME NEW c \in Caller, Clear(c) PROVE FALSE
  BY <1>2, ClearHandle DEF RegistryInv
<1>3. ASSUME NEW c \in Caller,
             ReadLock(c) \/ AcquireLock(c) \/ Dial(c) \/ ReconnectTimeout(c) PROVE FALSE
  BY <1>3 DEF ReadLock, AcquireLock, Dial, ReconnectTimeout
<1>4. ASSUME NEW c \in Caller, QuietStep(c) PROVE FALSE
  BY <1>4, QuietFrame DEF RegistryInv, TypeInv, CallerInv
<1>5. ASSUME SweepRemove \/ \E g \in Host : Disconnect(g) PROVE FALSE
  BY <1>5 DEF SweepRemove, Disconnect, RegistryInv, TypeInv, RegistryTypes
<1>6. ASSUME NEW a \in Attempt, Publish(a) PROVE HostOf[a] = h
  BY <1>6, PublishHandle DEF RegistryInv
<1>7. ~ UNCHANGED <<connections, callerVars>>
  OBVIOUS
<1>8. QED
  BY <1>1, <1>2, <1>3, <1>4, <1>5, <1>6, <1>7, RegistryFrame
     DEF Next, AttemptSteps, CallerSteps, QuietStep

\* A removed connection comes back only through a connect: no reconnect that
\* was under way when it was removed can bring it back.
THEOREM RemovedStaysRemoved == Spec => OnlyConnectRevives
<1>1. ASSUME RegistryInv, [Next]_vars, NEW h \in Host,
             connections[h] = None, connections'[h] # None
      PROVE  \E a \in Attempt : HostOf[a] = h /\ apc[a] = "publish" /\ apc'[a] = "connected"
  <2>1. PICK a \in Attempt : HostOf[a] = h /\ Publish(a)
    BY <1>1, OnlyPublishRevives
  <2>2. apc \in [Attempt -> AttemptPC]
    BY <1>1 DEF RegistryInv, TypeInv, AttemptInv, AttemptTypes
  <2>3. apc[a] = "publish" /\ apc' = [apc EXCEPT ![a] = "connected"]
    BY <2>1 DEF Publish
  <2>4. QED
    BY <2>1, <2>2, <2>3
<1>2. RegistryInv /\ [Next]_vars =>
        [\A h \in Host : connections[h] = None /\ connections'[h] # None =>
           \E a \in Attempt : HostOf[a] = h /\ apc[a] = "publish" /\ apc'[a] = "connected"]_vars
  BY <1>1
<1>3. QED
  BY <1>2, RegistryAlways, PTL DEF OnlyConnectRevives, Spec

\* What a step does to the handle of a host that stays in the registry: it
\* keeps the handle's identity, or installs the next generation.
LEMMA ReplacementStep ==
  ASSUME RegistryInv, [Next]_vars, NEW h \in Host,
         connections[h] # None, connections'[h] # None
  PROVE  \/ connections'[h].origin = connections[h].origin
         \/ connections'[h].generation = connections[h].generation + 1
<1>1. ASSUME NEW c \in Caller, Install(c)
      PROVE  connections'[h].generation = connections[h].generation + 1
             \/ connections'[h] = connections[h]
  BY <1>1, InstallHandle DEF RegistryInv
<1>2. ASSUME NEW c \in Caller, Clear(c) PROVE connections'[h].origin = connections[h].origin
  BY <1>2, ClearHandle DEF RegistryInv
<1>3. ASSUME NEW c \in Caller,
             ReadLock(c) \/ AcquireLock(c) \/ Dial(c) \/ ReconnectTimeout(c)
      PROVE  UNCHANGED connections
  BY <1>3 DEF ReadLock, AcquireLock, Dial, ReconnectTimeout
<1>4. ASSUME NEW c \in Caller, QuietStep(c) PROVE UNCHANGED connections
  BY <1>4, QuietFrame DEF RegistryInv, TypeInv, CallerInv
<1>5. ASSUME SweepRemove \/ \E g \in Host : Disconnect(g)
      PROVE  connections'[h] = connections[h]
  BY <1>5 DEF SweepRemove, Disconnect, RegistryInv, TypeInv, RegistryTypes
<1>6. ASSUME NEW a \in Attempt, Publish(a)
      PROVE  connections'[h].generation = connections[h].generation + 1
             \/ connections'[h] = connections[h]
  BY <1>6, PublishHandle DEF RegistryInv, PublishedGeneration
<1>7. CASE UNCHANGED <<connections, callerVars>>
  BY <1>7
<1>8. QED
  BY <1>1, <1>2, <1>3, <1>4, <1>5, <1>6, <1>7, RegistryFrame
     DEF Next, AttemptSteps, CallerSteps, QuietStep

\* While a connection stays in the registry its generation grows with every
\* handle, so no reconnect can mistake a later handle for the one it read.
THEOREM GenerationsGrow == Spec => ReplacementBumpsGeneration
<1>1. ASSUME RegistryInv, [Next]_vars, NEW h \in Host,
             connections[h] # None, connections'[h] # None,
             connections'[h].origin # connections[h].origin
      PROVE  connections'[h].generation > connections[h].generation
  <2>1. connections[h].generation \in Nat
    BY <1>1 DEF RegistryInv, TypeInv, RegistryTypes, Handle
  <2>2. connections'[h].generation = connections[h].generation + 1
    BY <1>1, ReplacementStep
  <2>3. QED
    BY <2>1, <2>2
<1>2. RegistryInv /\ [Next]_vars =>
        [\A h \in Host :
           connections[h] # None /\ connections'[h] # None
           /\ connections'[h].origin # connections[h].origin
             => connections'[h].generation > connections[h].generation]_vars
  BY <1>1
<1>3. QED
  BY <1>2, RegistryAlways, PTL DEF ReplacementBumpsGeneration, Spec
=============================================================================
