# Zync, specified

Zync is a desktop SSH client: a Tauri backend in Rust (`src-tauri/src`) and a React frontend in
TypeScript (`src`). This directory holds TLA+ specifications of its stateful parts, the TLC
configurations that check them on small instances, and proofs, checked by TLAPS, of every safety property
for every instance.

    tlc -config HostSession.cfg MCHostSession.tla
    tlapm HostSessionProofs.tla

`PROJECT.json` lists the components, the runs, the theorems, the lines of the source each definition
stands for, and the hazards of the code with the properties that are about them.

## 1. The system

The frontend runs on one thread, so what interleaves there is what lies between two awaits: operations
of the user, answers of the backend, its events, and timers. Every backend command is an `async fn` that
runs as a task of its own; the state they share is a set of maps in `AppState`, each behind a mutex that is
held for single accesses and not across network I/O. So on either side what was read is old when it is
used after an await. Answers of commands and events take different ways to the frontend, and an event
that finds no listener is lost.

| Component | State | Operations | What makes it correct | Module |
|---|---|---|---|---|
| frontend: connections (`store/connectionSlice.ts`, `features/connections`, `features/tunnels`) | status, queue of operations, live and cancel marks, parked shells and tunnels of each host | connect, cancel, disconnect, loss of the transport, restart of tunnels, edit | the marks fit each other and the backend; a cancel ends what it was meant for; no spinner stays | `HostSession` |
| frontend: hosts, folders, tabs (`store/connectionSlice.ts`, `connectionService.ts`, `tabService.ts`) | hosts, folders, tabs, focus | add, edit, import, move, delete, load, restore | the file is what the store shows; hosts are in folders that exist; the focus is on a tab | `HostList`, `HostTabs` |
| frontend: terminals and panes (`store/terminalSlice.ts`, `lib/paneLayout`) | tabs, split trees, focus, synced shell | create, split, focus, unsplit, close, exit | every shell can be reached, in one place | `PaneLayout`, `ShellPanes` |
| session file (`store/sessionSlice.ts`, `sessionPersistence.ts`, `session.rs`) | `session.json`, a chain of saves, a timer | save at once or a second later, restore | what is restored is what was saved, in order and in whole splits | `ShellSession` |
| terminal processes (`lib/terminal`, `useTerminalLifecycle.ts`, `pty.rs`) | cache entry with a generation, the backend's sessions, buffered keys | spawn, suspend, wake, resize, write, exit | a shell shown as running runs, in the size the backend was told, and gets the keys typed for it | `TerminalPty` |
| files and transfers (`FileManager.tsx`, `transferSlice.ts`, `useTransferEvents.ts`, `commands.rs`) | rows, tasks, cancel tokens, timers; a file and its backup | start, cancel, report, overwrite | every row comes to its true end; an overwrite loses no file | `Transfers`, `FileConflicts` |
| AI agent (`ai/agent_loop.rs`, `agent_planning.rs`, `components/ai`, `ai/store`) | runs, cancel flags, prompts, whitelist, conversation | start, plan, call, ask, execute, stop | once a plan is approved, no command that needs an approval starts without; a stopped run ends | `AgentRun` |
| connection registry (`commands.rs`) | attempts in progress, live handles with generation and reconnect lock | `ssh_connect`, `ssh_cancel_connect`, `ssh_disconnect`, the vault's sweep, reconnects on demand | what was given up never publishes; a reconnect replaces only what it read; calls return | `SshConnections` |
| local and dynamic forwards (`tunnels/`) | `local_listeners`, the listener tasks, `tunnels.json` | start, stop, list, save, delete, the failure watcher | of the listeners on one socket, the one that listens can be closed; a lost session frees its ports | `LocalTunnels` |
| durable files, snippets (`atomic_io.rs`, `snippets.rs`, `sync/domain_snippets.rs`) | a file, its temporary, its backup | `durable_replace`, list, save, delete, restore | after a crash the old or the new content is there, the new one once the call has answered | `AtomicFile`, `SavedFile` |
| remote forwards, hosts file in the backend, vault, sync, share agent, settings, plugins, ... | | | | not modelled, see 7 |

`HostSession` sees the backend's registry and tunnels as a session that is up, dead or gone; `SshConnections`
and `LocalTunnels` are that backend in detail. `ShellSession` runs over `ShellPanes`, `HostTabs` over `HostList`,
`FileConflicts` over `Transfers`: each of these compositions shares state, and the steps of one are steps of the other.
`SavedFile` is an implementation of `AtomicFile`.

The hard behaviours are listed one by one, at their lines, under `hazards` in `PROJECT.json`. They are
mostly of four kinds: state that is read, used over an await and stale by then; cancellation, aborts and timers
that race the end of what they cancel; two pieces of state that have to agree and are changed in separate
steps; and events that arrive late, crossed, twice or not at all.

## 2. The modules

A module `X` has its small instances in `MCX.tla` and the `.cfg` files; `XProofs.tla` holds its theorems, and those of what it runs over
(`HostTabsProofs` for `HostList`, `ShellSessionProofs` for `PaneLayout` and `ShellPanes`). `FileProofs` is about `SavedFile`, `Transfers` and `FileConflicts`.
Operators whose comment begins with "A variant of" are not part of the model: each states a plausible
slip in the code and stands beside the definition it would change. Every property of every passing run
is violated when one of them takes the place of its original.

### HostSession

One host. `queue` is its chain in `opChains`, whose head runs; `pc` says at which await of `connect`, `disconnect`
or `handleConnectionTransportLost` it is, and an operation starts before any event does (`Free`). `active`,
`cancelled` and `pending` are the three places where a cancel is kept, `handled` and `live` the marks
against repeated losses and for shells to spawn, `shells`, `parked`, `shown`, `remembered` what hangs from the session, and
`session`, `listening`, `dial` what the backend knows. `edits` counts the calls of `editConnection` whose save is under way, by the
status of the host they hold: the user edits (`EditHost`), and so does the pin of a feature when a tunnel starts, whose result
`TunnelsStart` does not wait for (`Save`). When its save has ended, `EditSaved` puts the whole host back. `Run` is the running operation,
`User` what the user asks, `Backend` the answers to a dial and a cancel on its way; a session may die at any time, and is reported once
or twice, late.

Abstractions: jump hosts, the texts of prompts and errors; one prompt of each kind stands for its repetitions; the
vault is a prompt that succeeds or does not. History: the `doomed` mark of a queued connect, `late` (the status on the screen is one that
an edit put back, until an operation sets it again) and `misled` (the recorded cancel was of such a status).

### HostList and HostTabs

`HostList` is the list of hosts and folders with `connections.json`. `saves` is the chain of `saveToMain` with the
snapshot each call took; `addConnection` and `editConnection` change the store when their save has ended, everything else
changes the store first. The backend may write or fail, and the program may stop. A restore from sync
(`domain_hosts.rs`) writes the host and the name of its folder, never the folder, and the list is loaded again. `HostTabs` adds the tabs, the one in front, the active connection, the welcome screen and what of it `session.json`
brings back. Ids are what is kept of a host; order, fields and the parsing of imports are left out, folders
are sequences of names.

`agree` is a ghost that says when the file has to be right: it falls when a save fails whose change is in the store already, when a
snapshot was taken while another host waited for its save or a load was under way, and rises with the next
undisturbed save. It makes explicit what the code does not promise: a snapshot overlapping with `addConnection` can drop that host from the
file until the next save. `strays` is a ghost too: the hosts that were once in a folder which the file did not have, because a restore put them
there or because the first file is from before folders (`connectionSlice.ts:218`).

### PaneLayout, ShellPanes and ShellSession

`PaneLayout` is `lib/paneLayout` as data: a split tree is the family of its nodes, each the set of shells below it, with the leaf
`firstLeaf` finds; `SplitPane`, `Drop` and `Detach` are the operations of that name. `ShellPanes` is `terminalSlice.ts` for one host: `seat` is the
list of tabs, `hidden` those the bar leaves out, `groups` the splits by owner, `active` and `synced` the marks. `ShellSession` adds the debounced
`timer`, the `chain` of `_pendingSave`, the snapshot that was saved last and the `file`. `Room` is the count of
`keepTerminalsForSession` down from its cap; `Whole` says what a file is that the program wrote itself, which the files to start from are
assumed to be. Directions and sizes of splits are left out.

Closing a shell does not wait for a navigation it is in: when the answer comes, `FileManager.tsx:1251` selects the shell that was navigated,
tab or not. `revived` (history) names the shells that got the focus like that and have not been closed again. Such a shell is in no list
of tabs, and a split made then has it for its owner; a restart leaves that split out.

### TerminalPty

One tab. `gen`, `spawned`, `starting`, `byIdle`, `blocked`, `pending`, `last`, `closed` are the cache entry; `pty` is the backend's
session of the tab with its generation, size and the handle of its task, `tasks` the tasks that run, `events` the ready and exit events on their
way. Commands that only look into the backend's map (kill, write, resize) take effect when they are sent. A create
takes four steps: the channel is opened, over a reconnect if the session is dead; what is in the map under the tab's id is closed; the new
session is entered, with its task, and shown as ready; the handle of the task is stored. Between any two of them creates of other
generations of the tab take theirs, a session or its task may go, and the task that ends removes what is in the map under the
tab's id, whosever it is. `Show`, `Wake`, suspends and resizes are the effects of `useTerminalLifecycle` and `MainLayout`. `Fit` is a fit that
tells the backend, `Draw` one that does not (after fonts, a restored panel, an attach). Keys are named by the generation they were typed for, a terminal has one
of two sizes. `shared` is history: when the shell was last asked for, an earlier create or shell of the tab was not done with; so is `drawn`:
the terminal was fitted since the backend was told a size.

### Transfers and FileConflicts

`row` is a row of the panel with the timers that `completeTransfer` and the panel run on it, `task`, `token`, `result` the
backend's side, `events` and `answer` what is on its way between them. `Start` has one kind per command and call site: they differ
in when they register their token, what they report and who takes the answer for the end. `FileConflicts` is
`resolveConflict`: rename to a backup, operate, delete or restore; a transfer from another host is one of `Transfers`, and its chunks
go under the file's name. `stray` is a `cp` of `fs_copy_batch` that took too long and was left behind when SFTP was tried instead
(`commands.rs:4484`): it writes, ends or is cut off whenever the host gets to it. Contents of files are old, new or partial.
A zip whose channel closes without an exit status is a success for its task (`commands.rs:7111`), and so for the model.

### AgentRun

Runs of one scope. `phase` is where the loop of a run is, `flag` its cancel flag, `asked` its prompts and `cards` what the
conversation shows of them; `answers` and `stops` are commands and `events` are events on their way. `thread` says whether the thread is on the screen and
`hearing` which run it listens to. `submitted` follows `handleSubmit` over its awaits. `Polled` is `poll_until_cancel`, beside every
wait. The planning runs tools too (`Propose`, `Looked`), commands among them, and asks for none of them; the loop behind the approved plan asks.
Texts, files and what tools do are left out: a command is one that needs an approval or not. `missed`, `since`, `late` are
history.

### SshConnections

`connectTasks` and `connections` are the two maps. A call of `ssh_connect` is an *attempt*: `apc` says
where it stands between two awaits (preparing under a watch channel, the check before the spawn, the
check after it, awaiting its task, publishing), `task` and `dialled` are the task it spawned. A command
that uses a stored connection is a *caller*: `cpc` and its locals `call`, `held`, `wait`, `read` and `fresh`
follow `get_live_ssh_session` / `get_sftp_or_reconnect` into `reconnect_stored_connection` and back.
`lockHolder` is who holds a reconnect lock; locks are named by the session of the connect that created
them, because a reconnect takes the lock of the handle it replaces into the new one.

Each action is what the code does between two points of suspension. `TaskFinishes`, `AbortLands` and
`TransportDies` are the runtime and the network; a Tokio abort only asks, so an aborted task may still finish.
The configuration, its secrets and host keys are left out, an attempt id is used once, and generations are
unbounded (`wrapping_add` on `u64`). `origin` and `connect` of a handle, `lineage` and `basis` of a caller, and
`removed`, `accepted`, `superseded` are history.

### LocalTunnels

`listeners` is the map `local_listeners`, `lstate` what a listener task does (an aborted task is
`stopping` and keeps its port until it is dropped), `saved` the tunnels in `tunnels.json`, each with its runtime id and the socket
it binds (`bind_address:local_port`), `start` the calls of `tunnel_start` between their four steps, `job` every call that walks over the
tunnels and the watcher, and `failures` the messages the watcher has not taken yet. The runtime id of a local forward leaves its bind address out, so
after an edit of the address two starts of one id bind different sockets, and the second insert displaces the handle of the first:
`Displaced` says that of a listener. `Check`, `Bind`, `Insert` are
`start_local_forwarding` and `start_dynamic_forwarding`, which differ only in what they do with a client; a client is
followed until its channel is open, because until then it holds the session's mutex, which a probe has to wait for (`Held`).
One connection; a listing reads `tunnels.json` again where the code keeps what it read (`Count`).

### AtomicFile and SavedFile

`AtomicFile` is the abstract specification: a set of records that is read or edited in one step per call,
where an answer "ok" vouches that no crash takes the edit back and an error vouches for nothing.
`SavedFile` is the code: `dir` holds the file and the siblings `.tmp` and `.bak` that older versions left,
`lock` is the mutation lock, `call` each call with its place among the steps of `durable_replace`. `recent` are the directories
a crash may leave: the current one and, until `Finalize` has synced it, its predecessors since the last sync. So the
order of renames is kept over a crash, as a journalling file system does, and nothing else is assumed of it.
The refinement maps `contents` to what a load would find, `stable` to what it would find in each of the
`recent` directories, and a call's edit to its rename. On Windows the directory is not synced (`atomic_io.rs:132`), so
there an answered edit outlives the end of the process but, as far as the code knows, not of the machine.

## 3. The runs

| Run | Instance | Distinct states | Shows |
|---|---|---|---|
| `host_session` | 1 host with 1 shell and 1 tunnel, 4 requests, edits among them, 1 death of a session, fair | 675,000 | in whatever order connects, disconnects, cancels, edits, prompts and losses come, the marks of a host fit each other and the backend, a cancel swallows only what was asked before it, and every operation ends |
| `host_list` | 1 host that is saved, 1 that is not, 4 folders, 3 tabs without host, 3 operations | 1,605,000 | only a restore or the first file puts a host in a folder that is not there, the file becomes what the store shows, only a load takes the host from under a tab |
| `shell_session` | 6 shells, 4 panes, a cap of 4 saved tabs, 4 operations, 2 files to start from | 292,500 | splits, bar and focus fit together, with answers after the close, and slow or failing saves and restarts bring back whole splits in order |
| `terminal_pty` | 3 generations, 2 sizes, fair | 1,535,000 | shells shown as running run in the right size and get their own keys, whatever creates and events cross; no start stays under way |
| `transfers` | 1 transfer of every kind, alone or as an overwrite's, 2 events on their way, fair | 315,700 | rows come to their true end; overwriting within a host loses nothing, but for a copy the host goes on with |
| `agent_run` | 2 runs, 1 command that needs approval, 1 round with up to 2 tool calls, fair | 315,700 | once its plan is approved, a run starts no such command without approval; Stop ends a run after at most one more tool, whatever hangs |
| `connect_attempts` | 2 attempts, 1 caller, 3 sessions, symmetric | 613,000 | what was cancelled or superseded never publishes, a running dial can be cancelled, only a connect revives, and a reconnect replaces the handle it read |
| `reconnects` | 1 attempt, 2 callers, 2 sessions, fair | 72,600 | reconnects under locks of one connect are serialized; listings and given up attempts return |
| `tunnels` | 2 starts, 1 call, the watcher, 1 session, 2 listeners, 2 sockets, any edit, symmetric | 1,287,000 | a listening port can be closed, unless a start of the same key on another address displaced it |
| `tunnel_release` | the same without edits, 1 client, fair | 262,000 | a lost session's ports are freed |
| `saved_file` | 2 calls, 2 records, 27 directories to start from, symmetric | 232,000 | with failures and crashes at every step the store implements `AtomicFile` |
| `safe_overwrite` | 1 transfer, as an overwrite's | | **violated**: the backup is deleted before the transfer has ended |

*Bounds.* Hosts are kept apart by the code (chains, marks and maps are indexed by them), so one host and one connection are where
things collide. Four requests are a running operation, a queued one, a cancelled one and one asked since. An edit is a request too, and the pin of a
tunnel's start one more. Six shells with
four panes and a cap of four fill a split, overflow the cap and leave a second split; four operations are an open, a split, its close and a
late answer, from files that hold splits. Three generations are a shell, the suspended entry and its
successor, which is started while the create and the events of the first are under way. Two
events on their way are a progress report and the end behind it. Of two runs one does everything, and the other's start and end
come at every point of it. Three operations on the list are one under way, one that overlaps and one after; saves, failures, loads
and restarts are not counted. Two attempts give predecessor and successor; two callers a holder of the lock and one that waits;
three sessions the one that was read, the one that replaces it and the one dialled late. Two starts of one runtime id are
what can collide on map and port; two listeners give a lost one and its successor, and two sockets one that displaces
the other. Two records let the file, `.tmp` and `.bak` all
differ. The theorems below do without these bounds.

*Deadlock* is checked where the system cannot stop by itself. `CHECK_DEADLOCK FALSE` stands where it does:
`HostSession.cfg` (all requests made, the host at rest), `FileConflicts*.cfg` (the transfer over, its row gone) and `AgentRun.cfg`
(both runs over).

*Symmetry* is used in runs of safety properties only, which name no attempt or caller.

*Fairness* is that of the event loop and of timers, and never of the user.
`HostSession`: a running operation goes on, a dial is answered, a report is delivered. The calls behind it have timeouts,
or a connect that the user may cancel; prompts are answered or dismissed, since a dialog left open leaves the
operation open by design.
`TerminalPty`: a create gets on until it has landed or failed, its reconnect included, which has its timeouts (for the channel open there is none in
the code: it is answered, or ends with its session); events are delivered.
`Transfers`: events and answers are delivered, timers fire, and a task gets on or fails, because the SFTP session times its calls out. The
archive of a zip is read from a channel without a timeout (`commands.rs:7116`): there the assumption is that the remote `tar` goes on or the session ends.
`AgentRun`: the loop's own steps are taken and the flag is polled four times a second; nothing is assumed of providers, tools and the user.
`SshConnections`: what the runtime can poll it polls, and timers fire; a dial, a listing or the preparation of a
connect may take for ever unless it was cancelled, and mutexes are not fair.
`LocalTunnels`: the probe of a dead session fails within its timeout and aborted tasks are dropped. Commands, clients and
the watcher may hang.

## 4. The findings

`safe_overwrite` (`FileManager.tsx:452`): the commands of a transfer answer when its task is spawned. `resolveConflict` takes
that for the end and deletes the backup; a transfer that fails or is cancelled afterwards leaves neither file.

Deviations of the code that the properties make an exception of; each is in the model, and the property says what holds beside it:

- `commands.rs:1182`: a new handle has generation 0 when the registry has none, so the test that guards a reconnect's install
  (`commands.rs:2960`) is met again by the handle of a later connect, where the comment at `commands.rs:647` says that stale reconnects
  do not replace. `ReplacesWhatItRead` excepts connections that were removed meanwhile.
- `tunnels/manager.rs:52`: the runtime id of a local forward, "stable ... per connection + endpoints" (`manager.rs:37`), leaves the bind
  address out. After an edit of the address a start binds a second socket and its insert displaces the handle of the first listener, which
  goes on with nothing to stop it (`Displaced` in `PortsKeepTheirHandle`).
- `connectionSlice.ts:255`: an edit awaits its save and puts the whole host back, status included. A host can show connected without a
  session, or connecting without a connect, until the next operation; a cancel of that is recorded with no connect queued
  (`connectCancelState.ts:16` says for a queued one) and swallows the next one asked for. `late` and `misled` mark these in four properties.
- `pty.rs:773`: what a create closes as "dead/stale" may be younger than itself, when its channel was late because it reconnected: it
  ends the shell the tab shows and puts its own there, which the tab does not listen to. Likewise a session entered and not yet given
  its task's handle (`pty.rs:984`) can be replaced without its task being ended. `LiveShellsRun` excepts shells asked for while an earlier one was not done with
  (`shared`).
- `agent_planning.rs:192`: the planning runs `run_command` at once, held back by a short list of blocked commands only (`tools.rs:51`), where
  `agent_loop.rs:167` says that approval comes "before any mutations". `GatedCommandsAreApproved` is about the loop behind the plan.
- `FileManager.tsx:1251`: a navigation answered late gives the focus to a shell that was closed (`revived`).
- `domain_hosts.rs:131`: a restore leaves a host in a folder that does not exist (`strays`).
- `commands.rs:4484`: a `cp` that is left behind may write over what the overwrite has made of the file since (`stray`).

Visible in the models, and in no property:

- `commands.rs:801`: every connect makes its own reconnect lock, so reconnects are serialized for handles that descend from one
  connect only, which is what `SerializedPerConnect` states.
- `sessionSlice.ts:104`: a save is skipped if its snapshot equals the last one saved, also while the save of a different one is on its way:
  an arrangement changed and changed back is saved as changed, until the next save. `WritesLandInOrder` is about the saves that are made.
- `commands.rs:7111`: a zip whose channel closes without an exit status ends in success, whatever was written.
- `paneLayout/groups.ts:49`: when the first tab is split, a restart gives its split the focus, whichever unsplit tab had it (`RestoredFocus`).
- `ptyLifecycle.ts:146`: the kill of a suspend or a close finds nothing while the backend opens the channel; the shell starts afterwards and
  lives until its connection ends.
- `connectionSlice.ts:700`: the cancel of a connect over a live session leaves the old session in the backend until the next connect.
- `transferSlice.ts:101`, `commands.rs:5505`: an upload to this machine reports no progress, and the timer of its end leaves a row
  that is not transferring: it stays pending. `OutcomesAreShown` and `TransfersEnd` leave out this kind.
- `sidebarSubmit.ts:67`: a goal submitted twice starts two runs, of which the first can no longer be stopped; `agentRunStore.ts:198`: an approved plan goes
  along with whatever goal comes next. `AgentRun` has both (`StartRun`, `calledWithPlan`).
- `ConversationThread.tsx:289`: with another tab in front the prompts and the end of a run are lost, so that `EndsAreShown` has to except
  such runs (`missed`) and says nothing of that loss itself; a plan waits for an answer without a limit.
- `tunnels/session_failure.rs:53`, `tunnels/commands.rs:159`: loss messages and listings are judged against the session that is there later,
  so the tunnels of a session that works can be stopped. `tunnel_delete` leaves a running listener in the map.

## 5. The proofs

The theorems are of the form `Spec => []Inv` or `Spec => [][A]_vars`, or state a refinement, for every value of the constants that
meets the named assumptions: sets of tabs and tunnels of any size, queues and histories of any length, any number of shells, attempts, callers,
starts, listeners and records.

*HostSessionProofs.* The inductive invariant `Inv` adds `Control` to the properties: for every place where an operation can wait, which kind
is at the head of the queue (`HeadRuns`), that an attempt is registered exactly while its connect runs (`AttemptRuns`), what the store shows there
(`StatusThere`), and what the live mark and the backend say (`LiveThere`). What it says of the status holds until an edit has put an older one back (`late`). `ConnectingIsCancellable`, `OneLossAtATime` and
`SwallowsOnlyWhatWasAsked` are conjuncts of it; for the last one, lemmas say what an append and the end of the head do to the
connects that wait. `QuietHostAgrees` and `CancelledStaysOffline` follow from it.

*HostTabsProofs.* `ListInv` and `TabInv` are disjoint parts, and every step is a step of each. `ListInv` follows the saves through their
queue: `AllRight` says of each clean snapshot that no host waits before it and that it is what the store will hold unless the store was changed
after it, `Landed` that a write that made the file right was that of the first save, and `Settled` that the file is right already if all
saves that are left fail. `SettledListIsSaved` is `Settled` of an empty queue. `Holding` carries `FoldersHoldTheirHosts` through
snapshots, file and loads: a host that is in no folder of one of them is among `strays`. `TabInv` adds to
`FocusFollowsTheTab` that the session file focuses a tab it has; for tabs that are moved, lemmas say what taking out and inserting do to a
sequence. `OnlyLoadsOrphanTabs` follows from both.

*ShellSessionProofs.* First one tree: a family of nested sets with siblings (`Tree`) stays one under `SplitPane` and `Drop`, which add and take one leaf. Then
the groups: `Detach` and rekeying keep the trees apart (`Sound`). Then `HostInv`: hidden shells are the extra panes, the focus is on
a tab. The order of a finite set of places, which `FirstOf` and `LastOf` need, is `EndsExist`. Then the session.
`KeptFacts` is about the greedy count of `keepTerminalsForSession`: the room that is left and the shells that were taken add up to no more than the cap, an extra
pane is taken only with its whole split, and nothing is left out if the cap allows it; induction along the bar is done by its least
counterexample. `SnapshotIsWhole` and `RestoredIsArranged` lead from the store to a file and back. `SessionInv` is `HostInv` with places
of their own for all tabs (`Neat`), saves that wait in the order of their snapshots, none older than the file (`InTurn`), and files that are `Whole`,
written and to be written (`WholeFiles`): so a restart, which throws the store away, finds an arrangement again
(`SavesAreRestored`, `FilesHoldWholeSplits`, `WritesAreInOrder`, `RestartsKeepSplits`).
A shell that a late answer brought back is in no list of tabs, so `Sound` lets it own a split of tabs and be in no other, and what is restored is
what was saved without the splits of such an owner. Nothing is assumed of when navigations are answered.

*TerminalPtyProofs.* The invariant says which generations may still have a create, a session, a task or an event for every state of the entry: `Once` that a
generation is created once and never above the entry's, and that nothing is of it before its create is published; `Stopped` that nothing is on its way for an
entry that waits to be started; `Alone` that a shell asked for with nothing earlier about has the only creates and tasks; `Idling` what an
entry may hear that was suspended and started again. With them `Running` is inductive, of which `LiveShellsAreThere` is the first part: creates may overtake
each other, and only a shell that is not alone pays for it. `Sized` and `Keys` are inductive beside them (`SizesReachTheShell`,
`KeysAreNotMisdirected`).

*AgentRunProofs.* `Approvals` follows what the user said: from the card to the answer on its way and the whitelist (`Words`), to the reply of
the prompt the run waits on, which is its last, to the mark that lets it skip the next question. `GatedApproved` is what
is left of that at the start of a command of the loop; the planning is not gated and not meant. `Works` says where a run may be that has started a tool after its stop, namely where the next poll ends it
(`OneToolAfterStop`). `Mail` says that events on their way are of prompts nobody has seen, each once, or the end, behind which
nothing comes; with it `Ends` follows the end of a run to the sidebar (`OverIsShown`).

*SshConnectionsProofs.* `TypeOK` is not inductive: a published handle contains the session a task has dialled, so
`TypeInv` adds that a task that is ready has one, that an attempt that publishes has a ready task, and that
a caller with a lock has read one (`TypeCorrect`). For the attempts, `SafetyInv` adds `GivenUpInv`: an attempt that was cancelled
or superseded owns no Connecting entry, its Preparing entry if it still has one carries the cancel, and it is at none of the points
that only an owner reaches (`AttemptsSafe`, of which `SupersededStaysOut` is a case); `DialsCanBeCancelled` says that the task of an attempt not given up is the one the registry
would abort. For reconnects, `LocksInv` says that handles that descend from one connect share one lock and that a
caller that dials or installs holds the lock it read (`ReconnectsSerialized`); `ReadInv` says that as long as
the connection was not removed, the installed handle is the one whose generation was read or has a greater
generation (`ReconnectReplacesWhatItRead`). `RemovedStaysRemoved` and `GenerationsGrow` follow.

*LocalTunnelsProofs.* `HandleInv` says that what the map refers to is open or
lost and has that runtime id (`EntriesInv`), that a listener which a start has spawned and not yet entered is nobody
else's (`PendingInv`), and that no two listeners bind one socket at a time (`PortsInv`). An insert then displaces only a listener on another
socket, or follows the loss of one (`ListenersKeepTheirHandle`); `StoppedTunnelsCanStart` is about the other side of the map.

*FileProofs.* The refinement `SavedFileIsAtomic`. For it `GuardInv` says that a call past the lock is alone there,
that the text of a writer is the edit of what is on disk now, that by then either the file exists or no sibling
could stand in for it, that a temporary file is synced before its rename, and that the current directory is among `recent`. Under
it every step is one of `AtomicFile`'s or changes nothing it sees (`StepRefines`). For transfers `TransferInv` keeps an account of each:
`Reports` that the events on their way are reports of progress, and behind them, once the task is over, how it ended; `Rows` that
a row is failed or, outside the copy dialog, completed only once all is told; `Settled` that a row of which all is told has its end,
or gets it from a timer or an answer that is still to come; `Timers` that each of the two timers a row may have stands for something that was heard.
`RowsShowTheEnd` and `EndedRowsStay` follow, for any number of transfers and events. `Overwriting` says under which of the two names the old file or
a complete new one is at each step of `resolveConflict`, as long as no `cp` that was left behind writes (`OverwritesLoseNothing`).

The assumptions on constants are named, stand in the modules that declare them, and are evaluated by the runs: bounds are numbers, names of different kinds differ, and
files to start from are files the program writes. `Whole` is demanded of session files because `loadSession` takes the order and the tabs
of a file as they are, so that one edited by hand may name a tab twice.

Only model-checked: the liveness properties, which TLAPS does not handle (`EverythingSettles`, `StartsEnd`, `TransfersEnd`, `StoppedRunsEnd`,
`GivenUpAttemptsReturn`, `ListingsReturn`, `DeadSessionsReleasePorts`), and that each configuration has the behaviours meant, which the
violated variants show. `FocusFollowsTheTab` is proved and not run.

## 6. Plan

Modelled: the modules above; proved: their safety properties. To be proved next: that `HostSession`'s view of the backend, a session that is up, dead or gone, is what
`SshConnections` shows of one connection, as a refinement step by step.

To be modelled next: remote forwards (the map against the ports open on the server), the four writers of `connections.json` in the
backend, the vault's lock and transactions, the revisions of the sync, listings and navigation of the file manager.

## 7. What is not modelled, and why

- *Remote forwards, the backend's writers of `connections.json`, vault, sync, share agent, file listings*: stateful, with hazards of their own (three of them
  are in `PROJECT.json`, without a property); left for later behind what the user meets first. Other modules see them as environments: the
  vault is a prompt of `HostSession` and a sweep of `SshConnections`, a restore is a step of `HostList` and of `SavedFile`.
- *Cryptography, HTTP and OAuth, parsing of SSH configuration, imports and SOCKS messages, prompts of the AI, ghost suggestions, shell icons, latency*: libraries, pure
  functions or display, with no interleaving to get wrong.
- *React components, settings, plugins, updater, notifications*: presentation, or one writer and one file. What components do to shells,
  tabs, transfers and runs is in the modules of those.
- The SSH protocol below `russh` is external: a session works until its transport dies.
