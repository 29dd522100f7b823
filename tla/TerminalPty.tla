------------------------------ MODULE TerminalPty ------------------------------
(***************************************************************************)
(* One shell tab of a remote host: the entry that terminalCache keeps of   *)
(* it, the processes (PTYs) the backend runs for it one after the other,   *)
(* and what starts, suspends and ends them: tabs that are shown, hosts     *)
(* that connect, are left or lost, hosts that idle in the background, and  *)
(* the user.  Every start and every stop takes a new generation.           *)
(*                                                                         *)
(* A call that only looks into the backend's map of sessions (kill, write, *)
(* resize) takes effect when it is sent.  A create takes four steps, of    *)
(* which each may be late: another create of the tab may overtake it, end  *)
(* the shell it started or put its own in the place of it.                 *)
(***************************************************************************)
EXTENDS Integers, Sequences

CONSTANTS MaxGen,         \* bound: the generations of the shell
          Sizes           \* the sizes of the terminal on the screen

ASSUME PtyAssumption == MaxGen \in Nat /\ 0 \notin Sizes

None == 0        \* no PTY, no size, no task, input that was queued for no shell

VARIABLES gen, spawned, starting, byIdle, blocked,  \* the cache entry
          pending,    \* pendingInput, as the generations it was typed for
          last,       \* lastResize
          closed      \* the tab was closed and its entry deleted
VARIABLES host,       \* "down", "up", or "leaving": connected but not marked live
          waking,     \* the connect that succeeded has not woken the shells yet
          mounted,    \* useTerminalLifecycle has bound the terminal to its element
          front       \* the tab is shown: active in the workspace of its host
VARIABLES session,    \* of the host, in the backend: "gone", "dead", "alive"
          pty,        \* the session in PtyManager: its generation, its size and the
                      \* task whose handle it holds, or NoPty
          tasks,      \* the tasks of the shells that run, by their generations
          creates,    \* the calls of terminal:create without an answer
          events,     \* terminal-ready and terminal-exit on their way
          lost        \* connection:transport-lost is on its way
VARIABLES shared,     \* history: when the last shell was asked for, another create
                      \* was under way or an older shell ran without a session
          drawn       \* history: the terminal was fitted, and the backend not told
VARIABLES term,       \* rows and columns of the xterm instance
          job,        \* idleSuspendJobs has the host
          probing,    \* the backend is asked whether its process is busy
          active      \* input or output since the job's baseline

cache   == <<gen, spawned, starting, byIdle, blocked, pending, last, closed>>
view    == <<host, waking, mounted, front>>
manager == <<pty, tasks>>
backend == <<session, manager, creates, events, lost>>
history == <<shared, drawn>>
idling  == <<job, probing, active>>
vars    == <<cache, view, backend, history, term, idling>>

Gens  == 1..MaxGen
NoPty == [gen |-> None, size |-> None, task |-> None]

\* A create, by what it has done, and whether its channel is one of a connection
\* that has dropped or was let go since.
Calls == [gen : Gens, size : Sizes, at : {"sent", "open", "closed", "published"},
          cut : BOOLEAN]
Step(c, at) == (creates \ {c}) \cup {[c EXCEPT !.at = at]}
Cut == {[c EXCEPT !.cut = (@ \/ c.at \in {"open", "closed"})] : c \in creates}

TypeOK ==
    /\ gen \in 0..MaxGen
    /\ {spawned, starting, byIdle, blocked, closed} \subseteq BOOLEAN
    /\ pending \subseteq 0..MaxGen /\ last \in Sizes \cup {None}
    /\ host \in {"down", "up", "leaving"}
    /\ {waking, mounted, front} \subseteq BOOLEAN
    /\ session \in {"gone", "dead", "alive"}
    /\ pty \in [gen : Gens, size : Sizes, task : 0..MaxGen] \cup {NoPty}
    /\ tasks \subseteq Gens /\ creates \subseteq Calls
    /\ {shared, drawn} \subseteq BOOLEAN
    /\ events \in Seq([kind : {"ready", "exit"}, gen : Gens]) /\ lost \in BOOLEAN
    /\ term \in Sizes /\ {job, probing, active} \subseteq BOOLEAN

\* A tab of a host that is not connected, as a restored session shows it.
Init == /\ gen = 0 /\ spawned = FALSE /\ starting = FALSE /\ byIdle = FALSE /\ blocked = FALSE
        /\ pending = {} /\ last = None /\ closed = FALSE
        /\ host = "down" /\ waking = FALSE /\ mounted = FALSE /\ front \in BOOLEAN
        /\ session = "gone" /\ pty = NoPty /\ tasks = {} /\ creates = {} /\ events = <<>>
        /\ lost = FALSE /\ shared = FALSE /\ drawn = FALSE
        /\ term \in Sizes /\ job = FALSE /\ probing = FALSE /\ active = FALSE

Connected == host # "down"
Live      == spawned /\ ~starting

-----------------------------------------------------------------------------
(* The building blocks of ptyLifecycle.ts *)

\* PtyManager::close: the session is forgotten and the task it holds aborted.
AfterKill == tasks \ {pty.task}
Kill == pty' = NoPty /\ tasks' = AfterKill

\* spawnTerminalSession: its guard, and what it does at generation g, in a terminal
\* of size s, when the tasks of older are left.
MaySpawn == host = "up" /\ ~spawned /\ ~starting /\ ~blocked
SpawnAt(g, s, older) ==
    /\ g <= MaxGen /\ gen' = g
    /\ spawned' = TRUE /\ starting' = TRUE
    /\ creates' = creates \cup {[gen |-> g, size |-> s, at |-> "sent", cut |-> FALSE]}
    /\ shared' = (creates # {} \/ older # {})
NoSpawn == UNCHANGED <<gen, spawned, starting, creates, shared>>

\* A variant of Suspend that keeps the size the backend was told.
SuspendSized(idle) ==
    IF spawned
    THEN /\ gen < MaxGen /\ gen' = gen + 1 /\ spawned' = FALSE /\ starting' = FALSE
         /\ byIdle' = (byIdle \/ idle) /\ pending' = {} /\ Kill
         /\ UNCHANGED last
    ELSE UNCHANGED <<gen, spawned, starting, byIdle, pending, last, manager>>

\* A variant of Suspend that keeps what was typed.
SuspendKeyed(idle) ==
    IF spawned
    THEN /\ gen < MaxGen /\ gen' = gen + 1 /\ spawned' = FALSE /\ starting' = FALSE
         /\ byIdle' = (byIdle \/ idle) /\ last' = None /\ Kill
         /\ UNCHANGED pending
    ELSE UNCHANGED <<gen, spawned, starting, byIdle, pending, last, manager>>

\* A variant of Suspend that keeps the generation.
SuspendSameGeneration(idle) ==
    IF spawned
    THEN /\ spawned' = FALSE /\ starting' = FALSE
         /\ byIdle' = (byIdle \/ idle) /\ pending' = {} /\ last' = None /\ Kill
         /\ UNCHANGED gen
    ELSE UNCHANGED <<gen, spawned, starting, byIdle, pending, last, manager>>

\* suspendTerminalPty
Suspend(idle) ==
    IF spawned
    THEN /\ gen < MaxGen /\ gen' = gen + 1 /\ spawned' = FALSE /\ starting' = FALSE
         /\ byIdle' = (byIdle \/ idle) /\ pending' = {} /\ last' = None
         /\ Kill
    ELSE UNCHANGED <<gen, spawned, starting, byIdle, pending, last, manager>>

\* flushTerminalResize of a live PTY, to size s.
Tell(s) == last' = s /\ pty' = IF pty = NoPty THEN NoPty ELSE [pty EXCEPT !.size = s]
Resize(s) == IF last # s THEN Tell(s) ELSE UNCHANGED <<last, pty>>

\* What is buffered and belongs to no shell that was started.
Unowned == IF pending = {} THEN {} ELSE {None}

-----------------------------------------------------------------------------
(* Tabs and hosts *)

\* The effects of useTerminalLifecycle that start a shell when its tab is bound
\* or shown: not one that idles.
Appear(s) == IF MaySpawn /\ ~byIdle THEN SpawnAt(gen + 1, s, tasks) ELSE NoSpawn

\* A tab that is bound is fitted first, if it is shown; the backend is not told.
Mount == /\ Connected /\ ~mounted /\ ~closed /\ mounted' = TRUE
         /\ IF front
            THEN \E s \in Sizes : term' = s /\ drawn' = (drawn \/ s # term) /\ Appear(s)
            ELSE UNCHANGED <<term, drawn>> /\ NoSpawn
         /\ UNCHANGED <<byIdle, blocked, pending, last, closed, host, waking, front,
                        session, manager, events, lost, idling>>

\* A variant of Show that leaves the job of the host running.
ShowIdling == /\ ~front /\ front' = TRUE
              /\ IF mounted THEN Appear(term) ELSE NoSpawn
              /\ UNCHANGED <<byIdle, blocked, pending, last, closed, host, waking, mounted,
                             session, manager, events, lost, drawn, term, idling>>

\* The effect of MainLayout with the setting suspendIdleHostPtys: a host that is
\* left gets a job and loses it when it is active again.  Another tab of the same
\* host may hide this one without a job.
Show == /\ ~front /\ front' = TRUE
        /\ job' = FALSE /\ probing' = FALSE /\ active' = FALSE
        /\ IF mounted THEN Appear(term) ELSE NoSpawn
        /\ UNCHANGED <<byIdle, blocked, pending, last, closed, host, waking, mounted,
                       session, manager, events, lost, drawn, term>>
Hide == /\ front /\ front' = FALSE
        /\ \E on \in BOOLEAN : job' = (on /\ ~closed)
        /\ UNCHANGED <<cache, host, waking, mounted, backend, history, term, probing,
                       active>>

\* connect: the host is marked live, then connected, and in a later turn the
\* shells are woken.
Connect == /\ host = "down" /\ host' = "up" /\ session' = "alive" /\ waking' = TRUE
           /\ UNCHANGED <<cache, mounted, front, manager, creates, events, lost,
                          history, term, idling>>

\* resetTerminalPtyForReconnect, and tryWakeTerminalOnReconnect where the tab is
\* bound and visible.
Wake == /\ waking /\ waking' = FALSE
        /\ IF closed THEN UNCHANGED <<cache, manager, creates, shared>>
           ELSE /\ byIdle' = FALSE /\ blocked' = FALSE /\ pending' = {} /\ last' = None
                /\ IF spawned THEN Kill ELSE UNCHANGED manager
                /\ IF mounted /\ front /\ host = "up" THEN SpawnAt(gen + 2, term, tasks')
                   ELSE /\ gen < MaxGen /\ gen' = gen + 1
                        /\ spawned' = FALSE /\ starting' = FALSE
                        /\ UNCHANGED <<creates, shared>>
                /\ UNCHANGED closed
        /\ UNCHANGED <<host, mounted, front, session, events, lost,
                       drawn, term, idling>>

\* disconnect marks the host offline first; handleConnectionTransportLost also
\* suspends its shells.
Disconnect == /\ host = "up" /\ host' = "leaving"
              /\ UNCHANGED <<cache, waking, mounted, front, backend, history, term,
                             idling>>
Lost == /\ lost /\ lost' = FALSE
        /\ Suspend(FALSE)
        /\ host' = IF host = "up" THEN "leaving" ELSE host
        /\ UNCHANGED <<blocked, closed, waking, mounted, front, session,
                       creates, events, history, term, idling>>

\* The backend has let the session go, after a disconnect with the shells it has of
\* the host: the tab is unmounted, and what was typed for no shell is dropped.
Left == /\ host = "leaving" /\ host' = "down" /\ session' = "gone"
        /\ mounted' = FALSE /\ creates' = Cut
        /\ IF spawned THEN Suspend(FALSE)
           ELSE /\ pending' = {} /\ UNCHANGED <<gen, spawned, starting, byIdle, last>>
                /\ Kill \/ UNCHANGED manager
        /\ UNCHANGED <<blocked, closed, waking, front, events, lost,
                       history, term, idling>>

-----------------------------------------------------------------------------
(* The user *)

\* Entry deleted, and the kill sent with it.
Delete == /\ closed' = TRUE /\ spawned' = FALSE /\ starting' = FALSE /\ byIdle' = FALSE
          /\ blocked' = FALSE /\ pending' = {} /\ last' = None /\ Kill

CloseTab == /\ ~closed /\ Delete /\ mounted' = FALSE
            /\ UNCHANGED <<gen, host, waking, front, session, creates, events,
                           lost, history, term, idling>>

\* A key, a snippet or a plugin; queueTerminalInput also buffers for a shell that
\* does not run.
Type == /\ ~closed /\ (mounted \/ gen > 0)
        /\ pending' = pending \cup {IF spawned THEN gen ELSE None} /\ active' = job
        /\ UNCHANGED <<gen, spawned, starting, byIdle, blocked, last, closed, view, backend,
                       history, term, job, probing>>

\* flushPendingInput, by its timer or at once: what is buffered is sent.
Flush == /\ Live /\ pending # {} /\ pending' = {}
         /\ UNCHANGED <<gen, spawned, starting, byIdle, blocked, last, closed, view, backend,
                        history, term, idling>>

\* Enter in a shell that ended, failed or idles starts it again.
Enter == /\ mounted /\ front /\ ~spawned /\ ~blocked
         /\ pending' = {} /\ last' = None
         /\ IF MaySpawn THEN SpawnAt(gen + 1, term, tasks) ELSE NoSpawn
         /\ UNCHANGED <<byIdle, blocked, closed, view, session, manager, events, lost,
                        drawn, term, idling>>

Fitted == UNCHANGED <<gen, spawned, starting, byIdle, blocked, pending, closed, view,
                      session, tasks, creates, events, lost, shared, idling>>

\* A fit and syncTerminalResize, after which a PTY that is not live waits for ready.
\* Some forget first what the backend was told.
Fit == /\ mounted /\ front
       /\ \E s \in Sizes :
            /\ term' = s /\ drawn' = FALSE
            /\ IF Live THEN Tell(s) \/ Resize(s)
               ELSE last' \in {last, None} /\ UNCHANGED pty
       /\ Fitted

\* A fit alone: a divider is dragged, the renderer changes, the tab comes back.
Draw == /\ mounted /\ front
        /\ \E s \in Sizes \ {term} : term' = s
        /\ drawn' = TRUE /\ UNCHANGED <<last, pty>> /\ Fitted

-----------------------------------------------------------------------------
(* The backend *)

\* open_ssh_channel_with_single_reconnect: a channel of the session that is there,
\* or of one that is dialled for it.
ChannelOpens(c) ==
    /\ c \in creates /\ c.at = "sent" /\ session # "gone"
    /\ session' = "alive" /\ creates' = Step(c, "open")
    /\ UNCHANGED <<cache, view, manager, events, lost, history, term, idling>>

\* create_remote_session ends the session of the tab, of whichever generation, and
\* asks the channel for its shell.
StaleCloses(c) ==
    /\ c \in creates /\ c.at = "open"
    /\ Kill /\ creates' = Step(c, "closed")
    /\ UNCHANGED <<cache, view, session, events, lost, history, term, idling>>

\* It enters its session, in the place of one that has come in meanwhile and whose
\* task runs on, publishes ready and starts the task of the shell.
Published(c) ==
    /\ c \in creates /\ c.at = "closed" /\ ~c.cut
    /\ creates' = Step(c, "published")
    /\ pty' = [gen |-> c.gen, size |-> c.size, task |-> None]
    /\ tasks' = tasks \cup {c.gen}
    /\ events' = Append(events, [kind |-> "ready", gen |-> c.gen])
    /\ UNCHANGED <<cache, view, session, lost, history, term, idling>>

\* The session of the tab, whichever it is by now, is given the handle of the task.
Answered(c) ==
    /\ c \in creates /\ c.at = "published" /\ creates' = creates \ {c}
    /\ pty' = IF pty = NoPty THEN NoPty ELSE [pty EXCEPT !.task = c.gen]
    /\ UNCHANGED <<cache, view, session, tasks, events, lost, history, term, idling>>

\* A variant of CreateFails that only reports the error.
CreateFailsSilently(c) ==
    /\ c \in creates /\ c.at # "published" /\ creates' = creates \ {c}
    /\ UNCHANGED <<cache, view, session, manager, events, lost, history, term, idling>>

\* It fails before it has its shell, and the entry of that generation may be started
\* again, unless the backend knows no such connection.  What was typed for it stays
\* buffered.
CreateFails(c) ==
    /\ c \in creates /\ c.at # "published" /\ creates' = creates \ {c}
    /\ IF gen = c.gen /\ ~closed
       THEN /\ spawned' = FALSE /\ starting' = FALSE
            /\ blocked' = (blocked \/ (session = "gone" /\ c.at = "sent"))
            /\ pending' = Unowned
       ELSE UNCHANGED <<spawned, starting, blocked, pending>>
    /\ UNCHANGED <<gen, byIdle, last, closed, view, session, manager, events, lost,
                   history, term, idling>>

\* A shell ends by itself, and its task forgets the session of the tab, whichever
\* that is; a connection that drops ends its shells without an exit.
ShellExits(g) == /\ g \in tasks /\ tasks' = tasks \ {g} /\ pty' = NoPty
                 /\ events' = Append(events, [kind |-> "exit", gen |-> g])
                 /\ UNCHANGED <<cache, view, session, creates, lost, history, term,
                                idling>>
TransportDrops == /\ session = "alive" /\ session' = "dead"
                  /\ tasks' = {} /\ lost' = TRUE /\ creates' = Cut
                  /\ pty' = IF tasks = {} THEN pty ELSE NoPty
                  /\ UNCHANGED <<cache, view, events, history, term, idling>>

\* Output of a running shell counts as activity when the entry is of its generation.
Output == /\ job /\ gen \in tasks /\ ~closed /\ ~active /\ active' = TRUE
          /\ UNCHANGED <<cache, view, backend, history, term, job, probing>>

\* handleTerminalReady; flushTerminalResize fits the terminal where it can be seen.
ReadyArrives ==
    /\ events # <<>> /\ Head(events).kind = "ready" /\ events' = Tail(events)
    /\ IF Head(events).gen = gen /\ ~closed
       THEN /\ spawned' = TRUE /\ starting' = FALSE /\ byIdle' = FALSE /\ blocked' = FALSE
            /\ pending' = {} /\ drawn' = FALSE
            /\ \E s \in IF mounted /\ front THEN Sizes ELSE {term} : term' = s /\ Resize(s)
       ELSE UNCHANGED <<spawned, starting, byIdle, blocked, pending, last, pty, drawn, term>>
    /\ UNCHANGED <<gen, closed, view, session, tasks, creates, lost, shared, idling>>

\* terminalExitGenerationMatches
ExitMatches(g) == g = gen \/ (byIdle /\ g = gen - 1)

\* The listener of terminal-exit closes the tab, unless the shell idles.
ExitArrives ==
    /\ events # <<>> /\ Head(events).kind = "exit" /\ events' = Tail(events)
    /\ IF ~closed /\ ExitMatches(Head(events).gen)
       THEN /\ IF byIdle
               THEN /\ starting' = FALSE /\ spawned' = FALSE /\ pending' = {} /\ last' = None
                    /\ UNCHANGED <<byIdle, blocked, closed, manager, mounted>>
               ELSE Delete /\ mounted' = FALSE
       ELSE UNCHANGED <<spawned, starting, byIdle, blocked, pending, last, closed,
                        manager, mounted>>
    /\ UNCHANGED <<gen, host, waking, front, session, creates, lost,
                   history, term, idling>>

-----------------------------------------------------------------------------
(* Idle hosts *)

\* runIdleSuspendAttempt: a shell with recent activity or buffered input is
\* deferred; for the others the backend is asked.
IdleAttempt ==
    /\ job /\ ~probing /\ ~closed
    /\ IF spawned /\ (active \/ pending # {})
       THEN active' = FALSE /\ UNCHANGED probing
       ELSE probing' = TRUE /\ UNCHANGED active
    /\ UNCHANGED <<cache, view, backend, history, term, job>>

\* The answer: a missing session counts as busy, and the job tries again.  The
\* answer for a job that was cancelled is dropped.
ProbeAnswers ==
    /\ probing /\ probing' = FALSE
    /\ \/ /\ active' = FALSE
          /\ UNCHANGED <<gen, spawned, starting, byIdle, pending, last, manager, job>>
       \/ /\ pty # NoPty /\ ~closed
          /\ Suspend(TRUE) /\ job' = FALSE /\ active' = FALSE
    /\ UNCHANGED <<blocked, closed, view, session, creates, events, lost, history,
                   term>>

-----------------------------------------------------------------------------
Tab     == Mount \/ Show \/ Hide
Host    == Connect \/ Wake \/ Disconnect \/ Lost \/ Left
User    == CloseTab \/ Type \/ Flush \/ Enter \/ Fit \/ Draw
Create  == \E c \in creates : \/ ChannelOpens(c) \/ StaleCloses(c) \/ Published(c)
                              \/ Answered(c) \/ CreateFails(c)
Backend == Create \/ (\E g \in Gens : ShellExits(g)) \/ TransportDrops \/ Output
Events  == ReadyArrives \/ ExitArrives
Idle    == IdleAttempt \/ ProbeAnswers

Next == Tab \/ Host \/ User \/ Backend \/ Events \/ Idle

\* The backend gets on with its creates and the webview handles events: creates and
\* events are finitely many for each start, so one condition is enough for both.
Fairness == WF_vars(Create \/ Events)

Spec == Init /\ [][Next]_vars /\ Fairness

-----------------------------------------------------------------------------
(* Properties *)

Exiting(g) == \E i \in DOMAIN events : events[i] = [kind |-> "exit", gen |-> g]

\* A shell that the tab shows as running has its process, or the news of its end
\* are on their way: whatever kills, exits, losses and reconnects came in between,
\* no tab takes keys for a shell that is gone.  Only a shell that was asked for
\* while an earlier one of the tab was not done with may lose its session to it: an
\* older create that was overtaken closes the younger session as a stale one.
LiveShellsRun == Live => pty.gen = gen \/ Exiting(gen) \/ lost \/ shared

\* The process of a running shell has the size the backend was told last, and that
\* is the size of the terminal, unless the terminal has been fitted alone since:
\* also when it was resized while the shell was started, suspended or woken.
LiveShellsFit == Live /\ pty.gen = gen => pty.size = last /\ (last = term \/ drawn)

\* Buffered keys wait for the shell they were typed to: none of them is sent to a
\* shell that was started after that one was suspended, ended or replaced.
KeysStayWithTheirShell == pending \subseteq {None, gen}

\* The idle timer never suspends a shell of the host the user works with.
ForegroundShellsStay == [][byIdle' /\ ~byIdle => ~front]_vars

\* A shell does not stay "starting": it runs, fails or is stopped, again and again.
StartsEnd == []<>~starting

=============================================================================
