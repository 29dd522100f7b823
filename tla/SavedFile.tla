------------------------------ MODULE SavedFile ------------------------------
(***************************************************************************)
(* A JSON store of records (snippets.json; tunnels.json as the sync and its *)
(* saves use it) on disk: the load that recovers a missing file from the    *)
(* siblings older versions left, and atomic_io::durable_replace, with the   *)
(* failures of every call to the file system and a crash at any moment.     *)
(* One mutation lock per file orders the calls of the process.             *)
(*                                                                         *)
(* The temporary file is private to its call, so it is part of the call's   *)
(* state; a copy that a crash or an error leaves behind is never read       *)
(* again.  A change of a directory (a rename, a removal) that has not been  *)
(* synced may be lost in a crash, the later ones before the earlier ones.   *)
(* A rename replaces an existing file, as std::fs::rename does on every     *)
(* platform, so the branch for AlreadyExists is not reached.               *)
(***************************************************************************)
CONSTANTS
  Caller,    \* calls that are under way at a time
  Item,      \* ids of records
  Missing,   \* no such file
  Corrupt,   \* a file that does not parse
  None,      \* the lock is free
  Found      \* the directories the first start may find

ASSUME FileAssumption ==
  /\ Missing # Corrupt
  /\ \A records \in SUBSET Item : records # Missing /\ records # Corrupt
ASSUME NoneAssumption == None \notin Caller

VARIABLES
  dir,       \* the directory: the file, and its siblings `.tmp` and `.bak`
  recent,    \* directories a crash may leave: those since the last sync
  lock,      \* SNIPPETS_MUTATION_LOCK, TUNNELS_MUTATION_LOCK
  call,      \* where each call stands, and its locals
  reply      \* the last answer each caller got

vars == <<dir, recent, lock, call, reply>>

-----------------------------------------------------------------------------
(* The file. *)

\* Listed one by one: TLC does not compare a model value with SUBSET Item.
Records == {records : records \in SUBSET Item}
File == Records \cup {Missing, Corrupt}
Directory == [main : File, tmp : File, bak : File]

Parses(f) == f \notin {Missing, Corrupt}

\* What a load finds in directory d: the file; if there is none, the first of
\* the siblings that parses; if neither does, no records.
Loaded(d) ==
  CASE d.main # Missing -> d.main
    [] d.main = Missing /\ Parses(d.tmp) -> d.tmp
    [] d.main = Missing /\ ~Parses(d.tmp) /\ Parses(d.bak) -> d.bak
    [] OTHER -> {}

\* The directory once the load has promoted the sibling it took.
Promoted(d) ==
  CASE d.main # Missing -> d
    [] d.main = Missing /\ Parses(d.tmp) -> [d EXCEPT !.main = d.tmp, !.tmp = Missing]
    [] d.main = Missing /\ ~Parses(d.tmp) /\ Parses(d.bak) ->
         [d EXCEPT !.main = d.bak, !.bak = Missing]
    [] OTHER -> d

\* What has become of a call in terms of the promise: its edit happens with the
\* rename.
Phase(pc) ==
  CASE pc = "idle" -> "idle"
    [] pc = "finalize" -> "applied"
    [] OTHER -> "pending"

Asked ==
  [c \in Caller |->
    [phase |-> Phase(call[c].pc), op |-> call[c].op, items |-> call[c].items]]

\* The promise, with what a load would find as its contents.
Atomic == INSTANCE AtomicFile WITH
  contents <- Loaded(dir), stable <- {Loaded(d) : d \in recent}, request <- Asked

-----------------------------------------------------------------------------
PC == {"idle", "wait", "load", "write", "clear", "rename", "finalize"}

\* data is the text the call has made; synced, that its temporary file holds it
\* for good.
Calls ==
  [pc : PC, op : Atomic!Reads \cup Atomic!Edits, items : Records, data : Records,
   synced : BOOLEAN]

NoCall == [pc |-> "idle", op |-> "list", items |-> {}, data |-> {}, synced |-> FALSE]

ASSUME FoundAssumption == Found \subseteq Directory

TypeOK ==
  /\ dir \in Directory
  /\ recent \in SUBSET Directory
  /\ lock \in Caller \cup {None}
  /\ call \in [Caller -> Calls]
  /\ reply \in [Caller -> [status : {"none", "ok", "error"}, seen : Records]]

Init ==
  /\ dir \in Found
  /\ recent = {dir}
  /\ lock = None
  /\ call = [c \in Caller |-> NoCall]
  /\ reply = [c \in Caller |-> Atomic!NoReply]

Goto(c, pc) == call' = [call EXCEPT ![c].pc = pc]

\* The call answers, and its guard lets the lock go.
Return(c, answer) ==
  /\ call' = [call EXCEPT ![c] = NoCall]
  /\ reply' = [reply EXCEPT ![c] = answer]
  /\ lock' = None

\* A change of the directory that no sync has made durable yet.
Becomes(d) ==
  /\ dir' = d
  /\ recent' = recent \cup {d}

Ask(c) ==
  /\ call[c].pc = "idle"
  /\ \E r \in Atomic!Requests :
       call' = [call EXCEPT
         ![c] = [NoCall EXCEPT !.pc = "wait", !.op = r.op, !.items = r.items]]
  /\ reply' = [reply EXCEPT ![c] = Atomic!NoReply]
  /\ UNCHANGED <<dir, recent, lock>>

\* A variant of Acquire that does not wait for the lock.
AcquireShared(c) ==
  /\ call[c].pc = "wait"
  /\ lock' = c
  /\ Goto(c, "load")
  /\ UNCHANGED <<dir, recent, reply>>

Acquire(c) ==
  /\ call[c].pc = "wait"
  /\ lock = None
  /\ lock' = c
  /\ Goto(c, "load")
  /\ UNCHANGED <<dir, recent, reply>>

\* The records are read and, for an edit, changed in memory.
Load(c) ==
  /\ call[c].pc = "load"
  /\ Loaded(dir) # Corrupt
  /\ Becomes(Promoted(dir))
  /\ \/ /\ call[c].op \in Atomic!Reads
        /\ Return(c, Atomic!Done(Loaded(dir)))
     \/ /\ call[c].op \in Atomic!Edits
        /\ call' = [call EXCEPT
             ![c].pc = "write",
             ![c].data = Atomic!Edited(call[c].op, call[c].items, Loaded(dir))]
        /\ UNCHANGED <<lock, reply>>

\* The temporary file is written and synced.
WriteTemp(c) ==
  /\ call[c].pc = "write"
  /\ call' = [call EXCEPT ![c].pc = "clear", ![c].synced = TRUE]
  /\ UNCHANGED <<dir, recent, lock, reply>>

ClearBackup(c) ==
  /\ call[c].pc = "clear"
  /\ Becomes([dir EXCEPT !.bak = Missing])
  /\ Goto(c, "rename")
  /\ UNCHANGED <<lock, reply>>

\* A crash may tear a file that is renamed before it is synced.
Rename(c) ==
  /\ call[c].pc = "rename"
  /\ dir' = [dir EXCEPT !.main = call[c].data]
  /\ recent' = recent \cup {dir'}
       \cup IF call[c].synced THEN {} ELSE {[dir EXCEPT !.main = Corrupt]}
  /\ Goto(c, "finalize")
  /\ UNCHANGED <<lock, reply>>

\* The file and its directory are synced.
Finalize(c) ==
  /\ call[c].pc = "finalize"
  /\ recent' = {dir}
  /\ Return(c, Atomic!Done({}))
  /\ UNCHANGED dir

\* The step of the file system that is next fails, or the file does not parse:
\* the call returns, and with it the guard is dropped.
Fail(c) ==
  /\ call[c].pc \notin {"idle", "wait"}
  /\ Return(c, Atomic!Failed)
  /\ UNCHANGED <<dir, recent>>

\* The process ends, with the machine or alone, and is started again.
Crash ==
  /\ dir' \in recent
  /\ recent' = {dir'}
  /\ lock' = None
  /\ call' = [c \in Caller |-> NoCall]
  /\ reply' = [c \in Caller |-> Atomic!NoReply]

Next ==
  \/ \E c \in Caller :
       \/ Ask(c) \/ Acquire(c) \/ Load(c) \/ WriteTemp(c) \/ ClearBackup(c)
       \/ Rename(c) \/ Finalize(c) \/ Fail(c)
  \/ Crash

Spec == Init /\ [][Next]_vars

-----------------------------------------------------------------------------
\* Whatever fails and whenever the process ends, calls behave as if the file
\* were read and edited in one step each: no edit is lost to another one, a
\* list shows what is saved, a missing file counts as what its siblings hold,
\* and an edit that was answered "ok" outlives every crash.
ImplementsAtomicFile == Atomic!Spec

=============================================================================
