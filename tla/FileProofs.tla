------------------------------ MODULE FileProofs ------------------------------
(*******************************************************************************)
(* Proofs about what happens to files.  SavedFile: its types, and that it       *)
(* implements AtomicFile; GuardInv strengthens the types for the second: what   *)
(* the lock's holder has read is still what is on disk, and its new text is     *)
(* made from it.  Transfers and FileConflicts: what the panel shows of a        *)
(* transfer follows from what was heard of it, and an overwrite within a host   *)
(* has the old file or a complete new one under one of the two names.           *)
(*******************************************************************************)
EXTENDS SavedFile, FileConflicts, SequenceTheorems, TLAPS


\* A call past the lock holds it; a writer's text is the edit of what is on
\* disk, where no sibling could stand in for the file any more; and the
\* directory of now is one of those a crash may leave.
Holds(c) ==
  /\ call[c].pc \notin {"idle", "wait"} => lock = c
  /\ call[c].pc = "idle" => call[c] = NoCall
  /\ call[c].pc \in {"write", "clear", "rename", "finalize"} => call[c].op \in Atomic!Edits
  /\ call[c].pc \in {"write", "clear", "rename"} =>
       /\ Loaded(dir) # Corrupt
       /\ call[c].data = Atomic!Edited(call[c].op, call[c].items, Loaded(dir))
       /\ dir.main = Missing => ~Parses(dir.tmp) /\ ~Parses(dir.bak)
  /\ call[c].pc \in {"clear", "rename"} => call[c].synced

GuardInv == dir \in recent /\ \A c \in Caller : Holds(c)

-----------------------------------------------------------------------------
(* The load. *)

\* What a load finds is a file's contents or a corrupt file, never nothing.
LEMMA LoadedType == ASSUME NEW d \in Directory PROVE Loaded(d) \in Records \cup {Corrupt}
BY FileAssumption DEF Directory, File, Records, Parses, Loaded

\* Promoting a sibling leaves a directory in which a load finds the same, and
\* no sibling stands in for a missing file.
LEMMA PromotedLoads ==
  ASSUME NEW d \in Directory
  PROVE  /\ Promoted(d) \in Directory
         /\ Loaded(Promoted(d)) = Loaded(d)
         /\ Promoted(d).main = Missing =>
              ~Parses(Promoted(d).tmp) /\ ~Parses(Promoted(d).bak)
BY FileAssumption DEF Directory, File, Records, Parses, Loaded, Promoted

\* An edit of records gives records.
LEMMA EditedType ==
  ASSUME NEW edit, NEW items \in Records, NEW records \in Records
  PROVE  Atomic!Edited(edit, items, records) \in Records
BY DEF Records, Atomic!Edited

\* Removing `.bak` changes nothing for a load that does not need it.
LEMMA ClearedLoads ==
  ASSUME NEW d \in Directory, d.main = Missing => ~Parses(d.tmp) /\ ~Parses(d.bak)
  PROVE  LET cleared == [d EXCEPT !.bak = Missing]
         IN  /\ cleared \in Directory
             /\ Loaded(cleared) = Loaded(d)
             /\ cleared.main = Missing => ~Parses(cleared.tmp) /\ ~Parses(cleared.bak)
BY FileAssumption DEF Directory, File, Parses, Loaded

\* After the rename a load finds the new text.
LEMMA RenamedLoads ==
  ASSUME NEW d \in Directory, NEW records \in Records
  PROVE  LET renamed == [d EXCEPT !.main = records]
         IN  renamed \in Directory /\ Loaded(renamed) = records
BY FileAssumption DEF Directory, File, Records, Loaded

-----------------------------------------------------------------------------
(* The types. *)

\* A request names an operation and records.
LEMMA RequestTypes ==
  ASSUME NEW r \in Atomic!Requests
  PROVE  r.op \in Atomic!Reads \cup Atomic!Edits /\ r.items \in Records
BY DEF Atomic!Requests, Atomic!Reads, Atomic!Edits, Records

\* The call of a caller that is idle is a call.
LEMMA NoCallType == NoCall \in Calls
BY DEF NoCall, Calls, PC, Records, Atomic!Reads

\* A call that returns leaves its types and the lock.
LEMMA ReturnTypes ==
  ASSUME TypeOK, NEW c \in Caller,
         NEW said \in [status : {"none", "ok", "error"}, seen : Records],
         Return(c, said)
  PROVE  /\ call' \in [Caller -> Calls]
         /\ reply' \in [Caller -> [status : {"none", "ok", "error"}, seen : Records]]
         /\ lock' = None
BY NoCallType DEF TypeOK, Return

\* An answer without records is an answer.
LEMMA EmptyAnswers ==
  /\ Atomic!NoReply \in [status : {"none", "ok", "error"}, seen : Records]
  /\ Atomic!Failed \in [status : {"none", "ok", "error"}, seen : Records]
  /\ Atomic!Done({}) \in [status : {"none", "ok", "error"}, seen : Records]
BY DEF Atomic!NoReply, Atomic!Failed, Atomic!Done, Records

\* Every step keeps the types.
LEMMA TypeStep == TypeOK /\ [Next]_vars => TypeOK'
<1> SUFFICES ASSUME TypeOK, Next PROVE TypeOK'
  BY DEF TypeOK, vars
<1> USE DEF TypeOK
<1>1. ASSUME NEW c \in Caller, Ask(c) PROVE TypeOK'
  <2>1. PICK r \in Atomic!Requests :
          call' = [call EXCEPT
                    ![c] = [NoCall EXCEPT !.pc = "wait", !.op = r.op, !.items = r.items]]
    BY <1>1 DEF Ask
  <2>2. [NoCall EXCEPT !.pc = "wait", !.op = r.op, !.items = r.items] \in Calls
    BY NoCallType, RequestTypes DEF Calls, PC
  <2>3. QED
    BY <1>1, <2>1, <2>2, EmptyAnswers DEF Ask
<1>2. ASSUME NEW c \in Caller, Acquire(c) PROVE TypeOK'
  BY <1>2 DEF Acquire, Goto, Calls, PC
<1>3. ASSUME NEW c \in Caller, Load(c) PROVE TypeOK'
  <2>1. dir' \in Directory /\ recent' \in SUBSET Directory
    BY <1>3, PromotedLoads DEF Load, Becomes
  <2>2. Loaded(dir) \in Records
    BY <1>3, LoadedType DEF Load
  <2>3. CASE Return(c, Atomic!Done(Loaded(dir)))
    <3>1. Atomic!Done(Loaded(dir)) \in [status : {"none", "ok", "error"}, seen : Records]
      BY <2>2 DEF Atomic!Done
    <3>2. QED
      BY <2>1, <2>3, <3>1, ReturnTypes
  <2>4. CASE /\ call' = [call EXCEPT
                   ![c].pc = "write",
                   ![c].data = Atomic!Edited(call[c].op, call[c].items, Loaded(dir))]
             /\ UNCHANGED <<lock, reply>>
    <3>1. call[c] \in Calls /\ call[c].items \in Records
      BY DEF Calls
    <3>2. Atomic!Edited(call[c].op, call[c].items, Loaded(dir)) \in Records
      BY <2>2, <3>1, EditedType
    <3>3. QED
      BY <2>1, <2>4, <3>1, <3>2 DEF Calls, PC
  <2>5. QED
    BY <1>3, <2>3, <2>4 DEF Load
<1>4. ASSUME NEW c \in Caller, WriteTemp(c) PROVE TypeOK'
  <2>1. [call[c] EXCEPT !.pc = "clear", !.synced = TRUE] \in Calls
    BY DEF Calls, PC
  <2>2. call' = [call EXCEPT ![c] = [call[c] EXCEPT !.pc = "clear", !.synced = TRUE]]
    BY <1>4 DEF WriteTemp
  <2>3. QED
    BY <1>4, <2>1, <2>2 DEF WriteTemp
<1>5. ASSUME NEW c \in Caller, ClearBackup(c) PROVE TypeOK'
  <2>1. [dir EXCEPT !.bak = Missing] \in Directory
    BY DEF Directory, File
  <2>2. QED
    BY <1>5, <2>1 DEF ClearBackup, Becomes, Goto, Calls, PC
<1>6. ASSUME NEW c \in Caller, Rename(c) PROVE TypeOK'
  <2>1. call[c].data \in Records
    BY DEF Calls
  <2>2. /\ [dir EXCEPT !.main = call[c].data] \in Directory
        /\ [dir EXCEPT !.main = Corrupt] \in Directory
    BY <2>1 DEF Directory, File
  <2>3. dir' \in Directory /\ recent' \in SUBSET Directory
    BY <1>6, <2>2 DEF Rename
  <2>4. call' \in [Caller -> Calls]
    BY SMTT(20), <1>6 DEF Rename, Goto, Calls, PC
  <2>5. QED
    BY <1>6, <2>3, <2>4 DEF Rename
<1>7. ASSUME NEW c \in Caller, Finalize(c) PROVE TypeOK'
  BY <1>7, ReturnTypes, EmptyAnswers DEF Finalize
<1>8. ASSUME NEW c \in Caller, Fail(c) PROVE TypeOK'
  BY <1>8, ReturnTypes, EmptyAnswers DEF Fail
<1>9. ASSUME Crash PROVE TypeOK'
  BY <1>9, NoCallType, EmptyAnswers DEF Crash
<1>10. QED
  BY <1>1, <1>2, <1>3, <1>4, <1>5, <1>6, <1>7, <1>8, <1>9 DEF Next

\* The first start finds a directory of the right type.
LEMMA TypeInit == Init => TypeOK
BY FoundAssumption, NoCallType, EmptyAnswers DEF Init, TypeOK

\* The types of the state, for any callers, records and leftovers of older versions.
THEOREM TypesAreKept == Spec => []TypeOK
BY TypeInit, TypeStep, PTL DEF Spec

-----------------------------------------------------------------------------
(* What the lock guards. *)

\* Whoever takes the lock, changes the file or returns is alone past the lock.
LEMMA AlonePastTheLock ==
  ASSUME GuardInv, NEW c \in Caller, NEW e \in Caller \ {c}, lock = c
  PROVE  call[e].pc \in {"idle", "wait"}
BY DEF GuardInv, Holds

\* While the lock is free nobody is past it.
LEMMA NobodyPastTheLock ==
  ASSUME GuardInv, NEW e \in Caller, lock = None
  PROVE  call[e].pc \in {"idle", "wait"}
BY NoneAssumption DEF GuardInv, Holds

\* A call that has not taken the lock owes nothing to the directory.
LEMMA WaitingHolds ==
  ASSUME NEW c \in Caller, Holds(c), call[c].pc \in {"idle", "wait"}, call'[c] = call[c]
  PROVE  Holds(c)'
BY DEF Holds

\* An idle call holds nothing.
LEMMA NoCallHolds ==
  ASSUME NEW c \in Caller, call'[c] = NoCall
  PROVE  Holds(c)'
BY DEF Holds, NoCall

\* A step of the holder that changes no other call keeps the invariant if it
\* keeps the holder's part of it.
LEMMA HolderSteps ==
  ASSUME TypeOK, GuardInv, NEW c \in Caller, call[c].pc \notin {"idle", "wait"},
         dir' \in recent', Holds(c)',
         \A e \in Caller \ {c} : call'[e] = call[e]
  PROVE  GuardInv'
<1>1. lock = c
  BY DEF GuardInv, Holds
<1>2. ASSUME NEW e \in Caller \ {c} PROVE Holds(e)'
  <2>1. call[e].pc \in {"idle", "wait"}
    BY <1>1, AlonePastTheLock
  <2>2. Holds(e)
    BY DEF GuardInv
  <2>3. QED
    BY <2>1, <2>2, WaitingHolds
<1>3. QED
  BY <1>2 DEF GuardInv

\* Every step keeps what the holder of the lock relies on.
LEMMA GuardStep == TypeOK /\ GuardInv /\ [Next]_vars => GuardInv'
<1> SUFFICES ASSUME TypeOK, GuardInv, [Next]_vars PROVE GuardInv'
  OBVIOUS
<1>1. ASSUME NEW c \in Caller, Ask(c) PROVE GuardInv'
  <2>1. PICK r \in Atomic!Requests :
          call' = [call EXCEPT
                    ![c] = [NoCall EXCEPT !.pc = "wait", !.op = r.op, !.items = r.items]]
    BY <1>1 DEF Ask
  <2>2. Holds(c)'
    BY <2>1 DEF Holds, NoCall, TypeOK
  <2>3. ASSUME NEW e \in Caller \ {c} PROVE Holds(e)'
    BY <1>1, <2>1 DEF Ask, Holds, GuardInv, TypeOK
  <2>4. QED
    BY <1>1, <2>2, <2>3 DEF GuardInv, Ask
<1>2. ASSUME NEW c \in Caller, Acquire(c) PROVE GuardInv'
  <2>1. Holds(c)'
    BY <1>2 DEF Acquire, Goto, Holds, TypeOK
  <2>2. ASSUME NEW e \in Caller \ {c} PROVE Holds(e)'
    <3>1. call[e].pc \in {"idle", "wait"} /\ call'[e] = call[e] /\ Holds(e)
      BY <1>2, NobodyPastTheLock DEF Acquire, Goto, TypeOK, GuardInv
    <3>2. QED
      BY <3>1, WaitingHolds
  <2>3. QED
    BY <1>2, <2>1, <2>2 DEF GuardInv, Acquire
<1>3. ASSUME NEW c \in Caller, Load(c) PROVE GuardInv'
  <2>1. /\ dir' = Promoted(dir) /\ dir' \in recent' /\ Loaded(dir') = Loaded(dir)
        /\ dir'.main = Missing => ~Parses(dir'.tmp) /\ ~Parses(dir'.bak)
    BY <1>3, PromotedLoads DEF Load, Becomes, TypeOK
  <2>2. \A e \in Caller \ {c} : call'[e] = call[e]
    BY <1>3 DEF Load, Return, TypeOK
  <2>3. CASE Return(c, Atomic!Done(Loaded(dir)))
    <3>1. Holds(c)'
      BY <2>3, NoCallHolds DEF Return, TypeOK
    <3>2. QED
      BY <1>3, <2>1, <2>2, <3>1, HolderSteps DEF Load
  <2>4. CASE /\ call[c].op \in Atomic!Edits
             /\ call' = [call EXCEPT
                   ![c].pc = "write",
                   ![c].data = Atomic!Edited(call[c].op, call[c].items, Loaded(dir))]
             /\ UNCHANGED <<lock, reply>>
    <3>1. call[c] \in Calls /\ lock = c /\ Loaded(dir) # Corrupt
      BY <1>3 DEF Load, TypeOK, GuardInv, Holds
    <3>2. /\ call'[c].pc = "write" /\ call'[c].op = call[c].op
          /\ call'[c].items = call[c].items
          /\ call'[c].data = Atomic!Edited(call[c].op, call[c].items, Loaded(dir))
      BY <2>4, <3>1 DEF TypeOK, Calls
    <3>3. Atomic!Edited(call'[c].op, call'[c].items, Loaded(dir'))
            = Atomic!Edited(call[c].op, call[c].items, Loaded(dir))
      BY <2>1, <3>2
    <3>4. Holds(c)'
      BY <2>1, <2>4, <3>1, <3>2, <3>3 DEF Holds
    <3>5. QED
      BY <1>3, <2>1, <2>2, <3>4, HolderSteps DEF Load
  <2>5. QED
    BY <1>3, <2>3, <2>4 DEF Load
<1>4. ASSUME NEW c \in Caller, WriteTemp(c) PROVE GuardInv'
  <2>1. Holds(c)'
    BY <1>4 DEF WriteTemp, GuardInv, Holds, TypeOK, Calls
  <2>2. QED
    BY <1>4, <2>1, HolderSteps DEF WriteTemp, TypeOK, GuardInv
<1>5. ASSUME NEW c \in Caller, ClearBackup(c) PROVE GuardInv'
  <2>1. /\ dir' = [dir EXCEPT !.bak = Missing] /\ dir' \in recent'
        /\ \A e \in Caller \ {c} : call'[e] = call[e]
    BY <1>5 DEF ClearBackup, Becomes, Goto, TypeOK
  <2>2. dir.main = Missing => ~Parses(dir.tmp) /\ ~Parses(dir.bak)
    BY <1>5 DEF ClearBackup, GuardInv, Holds
  <2>3. /\ Loaded(dir') = Loaded(dir)
        /\ dir'.main = Missing => ~Parses(dir'.tmp) /\ ~Parses(dir'.bak)
    BY <2>1, <2>2, ClearedLoads DEF TypeOK
  <2>4. /\ call'[c].pc = "rename" /\ call'[c].op = call[c].op
        /\ call'[c].items = call[c].items /\ call'[c].data = call[c].data
        /\ call'[c].synced = call[c].synced
    BY <1>5 DEF ClearBackup, Goto, TypeOK, Calls
  <2>5. Atomic!Edited(call'[c].op, call'[c].items, Loaded(dir'))
          = Atomic!Edited(call[c].op, call[c].items, Loaded(dir))
    BY <2>3, <2>4
  <2>6. Holds(c)'
    BY <1>5, <2>3, <2>4, <2>5 DEF ClearBackup, GuardInv, Holds
  <2>7. QED
    BY <1>5, <2>1, <2>6, HolderSteps DEF ClearBackup
<1>6. ASSUME NEW c \in Caller, Rename(c) PROVE GuardInv'
  <2>1. Holds(c)'
    BY <1>6 DEF Rename, Goto, GuardInv, Holds, TypeOK, Calls
  <2>2. QED
    BY <1>6, <2>1, HolderSteps DEF Rename, Goto, TypeOK
<1>7. ASSUME NEW c \in Caller, Finalize(c) PROVE GuardInv'
  <2>1. Holds(c)'
    BY <1>7, NoCallHolds DEF Finalize, Return, TypeOK
  <2>2. QED
    BY <1>7, <2>1, HolderSteps DEF Finalize, Return, TypeOK
<1>8. ASSUME NEW c \in Caller, Fail(c) PROVE GuardInv'
  <2>1. Holds(c)'
    BY <1>8, NoCallHolds DEF Fail, Return, TypeOK
  <2>2. QED
    BY <1>8, <2>1, HolderSteps DEF Fail, Return, TypeOK, GuardInv
<1>9. ASSUME Crash PROVE GuardInv'
  BY <1>9, NoCallHolds DEF Crash, GuardInv
<1>10. CASE UNCHANGED vars
  BY <1>10 DEF vars, GuardInv, Holds
<1>11. QED
  BY <1>1, <1>2, <1>3, <1>4, <1>5, <1>6, <1>7, <1>8, <1>9, <1>10 DEF Next

\* At the start nobody holds the lock.
LEMMA GuardInit == Init => GuardInv
BY NoCallHolds DEF Init, GuardInv, Holds, NoCall

\* Every call past the lock is alone there, and works on what is on disk.
THEOREM GuardIsKept == Spec => [](TypeOK /\ GuardInv)
BY TypeInit, TypeStep, GuardInit, GuardStep, PTL DEF Spec

-----------------------------------------------------------------------------
(* The refinement. *)

\* Phases and requests seen by the promise follow those of the one call that moves.
LEMMA AskedChanges ==
  ASSUME TypeOK, NEW c \in Caller, NEW call2 \in Calls, call' = [call EXCEPT ![c] = call2]
  PROVE  Asked' = [Asked EXCEPT
           ![c] = [phase |-> Phase(call2.pc), op |-> call2.op, items |-> call2.items]]
BY DEF Asked, TypeOK

\* What a call asks for, as AtomicFile sees it.
LEMMA AskedOf ==
  ASSUME TypeOK, NEW c \in Caller
  PROVE  /\ Asked[c].phase = Phase(call[c].pc)
         /\ Asked[c].op = call[c].op
         /\ Asked[c].items = call[c].items
BY DEF Asked

\* A change of the directory in which a load finds the same adds nothing that a
\* crash might leave.
LEMMA SameAfterCrash ==
  ASSUME GuardInv, NEW d, Loaded(d) = Loaded(dir), recent' = recent \cup {d}
  PROVE  {Loaded(e) : e \in recent'} = {Loaded(e) : e \in recent}
BY DEF GuardInv

\* The first start is one of AtomicFile.
LEMMA InitRefines == Init => Atomic!Init
<1> SUFFICES ASSUME Init PROVE Atomic!Init
  OBVIOUS
<1>1. Loaded(dir) \in Records \cup {Corrupt}
  BY FoundAssumption, LoadedType DEF Init
<1>2. {Loaded(d) : d \in recent} = {Loaded(dir)}
  BY DEF Init
<1>3. Asked = [c \in Caller |-> Atomic!Idle]
  BY DEF Init, Asked, NoCall, Phase, Atomic!Idle
<1>4. QED
  BY <1>1, <1>2, <1>3 DEF Init, Records, Atomic!Init

\* Every step is one of AtomicFile, or changes nothing that it sees.
LEMMA StepRefines ==
  ASSUME TypeOK, GuardInv, [Next]_vars
  PROVE  [Atomic!Next]_(Atomic!vars)
<1> USE DEF TypeOK
<1>1. ASSUME NEW c \in Caller, Ask(c) PROVE Atomic!Ask(c)
  <2>1. PICK r \in Atomic!Requests :
          call' = [call EXCEPT
                    ![c] = [NoCall EXCEPT !.pc = "wait", !.op = r.op, !.items = r.items]]
    BY <1>1 DEF Ask
  <2> DEFINE asking == [NoCall EXCEPT !.pc = "wait", !.op = r.op, !.items = r.items]
  <2>2. /\ asking \in Calls /\ Phase(asking.pc) = "pending"
        /\ asking.op = r.op /\ asking.items = r.items
    BY NoCallType, RequestTypes DEF Calls, PC, NoCall, Phase
  <2>3. Asked' = [Asked EXCEPT
          ![c] = [phase |-> "pending", op |-> r.op, items |-> r.items]]
    BY <2>1, <2>2, AskedChanges
  <2>4. Asked[c].phase = "idle"
    BY <1>1, AskedOf DEF Ask, Phase
  <2>5. QED
    BY <1>1, <2>3, <2>4 DEF Ask, Atomic!Ask
<1>2. ASSUME NEW c \in Caller, Acquire(c) PROVE UNCHANGED Atomic!vars
  <2>1. Asked' = Asked
    BY <1>2 DEF Acquire, Goto, Asked, Calls, Phase
  <2>2. QED
    BY <1>2, <2>1 DEF Acquire, Atomic!vars
<1>3. ASSUME NEW c \in Caller, Load(c) PROVE Atomic!Read(c) \/ UNCHANGED Atomic!vars
  <2>1. /\ Loaded(dir') = Loaded(dir)
        /\ {Loaded(d) : d \in recent'} = {Loaded(d) : d \in recent}
    BY <1>3, PromotedLoads, SameAfterCrash DEF Load, Becomes
  <2>2. CASE call[c].op \in Atomic!Reads /\ Return(c, Atomic!Done(Loaded(dir)))
    <3>1. Asked' = [Asked EXCEPT ![c] = Atomic!Idle]
      BY <2>2, NoCallType, AskedChanges DEF Return, NoCall, Phase, Atomic!Idle
    <3>2. Asked[c].phase = "pending" /\ Asked[c].op \in Atomic!Reads
      BY <1>3, <2>2, AskedOf DEF Load, Phase
    <3>3. QED
      BY <1>3, <2>1, <2>2, <3>1, <3>2 DEF Load, Return, Atomic!Read, Atomic!Answer
  <2>3. CASE /\ call' = [call EXCEPT
                   ![c].pc = "write",
                   ![c].data = Atomic!Edited(call[c].op, call[c].items, Loaded(dir))]
             /\ UNCHANGED <<lock, reply>>
    <3>1. Asked' = Asked
      BY <1>3, <2>3 DEF Load, Asked, Calls, Phase
    <3>2. QED
      BY <2>1, <2>3, <3>1 DEF Atomic!vars
  <2>4. QED
    BY <1>3, <2>2, <2>3 DEF Load
<1>4. ASSUME NEW c \in Caller, WriteTemp(c) PROVE UNCHANGED Atomic!vars
  <2>1. Asked' = Asked
    BY <1>4 DEF WriteTemp, Asked, Calls, Phase
  <2>2. QED
    BY <1>4, <2>1 DEF WriteTemp, Atomic!vars
<1>5. ASSUME NEW c \in Caller, ClearBackup(c) PROVE UNCHANGED Atomic!vars
  <2>1. Asked' = Asked
    BY <1>5 DEF ClearBackup, Goto, Asked, Calls, Phase
  <2>2. dir.main = Missing => ~Parses(dir.tmp) /\ ~Parses(dir.bak)
    BY <1>5 DEF ClearBackup, GuardInv, Holds
  <2>3. /\ Loaded(dir') = Loaded(dir)
        /\ {Loaded(d) : d \in recent'} = {Loaded(d) : d \in recent}
    BY <1>5, <2>2, ClearedLoads, SameAfterCrash DEF ClearBackup, Becomes
  <2>4. QED
    BY <1>5, <2>1, <2>3 DEF ClearBackup, Atomic!vars
<1>6. ASSUME NEW c \in Caller, Rename(c) PROVE Atomic!Apply(c)
  <2>1. /\ call[c].op \in Atomic!Edits /\ Loaded(dir) # Corrupt /\ call[c].synced
        /\ call[c].data = Atomic!Edited(call[c].op, call[c].items, Loaded(dir))
    BY <1>6 DEF Rename, GuardInv, Holds
  <2>2. Loaded(dir') = call[c].data
    <3>1. call[c].data \in Records
      BY DEF Calls
    <3>2. QED
      BY <1>6, <3>1, RenamedLoads DEF Rename
  <2>3. {Loaded(d) : d \in recent'} = {Loaded(d) : d \in recent} \cup {Loaded(dir')}
    BY <1>6, <2>1 DEF Rename
  <2>4. Asked' = [Asked EXCEPT ![c].phase = "applied"]
    <3> DEFINE renamed == [call[c] EXCEPT !.pc = "finalize"]
    <3>1. /\ renamed \in Calls /\ Phase(renamed.pc) = "applied"
          /\ renamed.op = call[c].op /\ renamed.items = call[c].items
          /\ call' = [call EXCEPT ![c] = renamed]
      BY <1>6 DEF Rename, Goto, Calls, PC, Phase
    <3>2. Asked' = [Asked EXCEPT
            ![c] = [phase |-> "applied", op |-> call[c].op, items |-> call[c].items]]
      BY <3>1, AskedChanges
    <3>3. [Asked[c] EXCEPT !.phase = "applied"]
            = [phase |-> "applied", op |-> call[c].op, items |-> call[c].items]
      BY DEF Asked
    <3>4. QED
      BY <3>2, <3>3
  <2>5. Asked[c].phase = "pending" /\ Asked[c].op = call[c].op /\ Asked[c].items = call[c].items
    BY <1>6, AskedOf DEF Rename, Phase
  <2>6. Loaded(dir') = Atomic!Edited(Asked[c].op, Asked[c].items, Loaded(dir))
    BY <2>1, <2>2, <2>5
  <2>7. QED
    BY <1>6, <2>1, <2>3, <2>4, <2>5, <2>6 DEF Rename, Atomic!Apply
<1>7. ASSUME NEW c \in Caller, Finalize(c) PROVE Atomic!Succeed(c)
  <2>1. Asked' = [Asked EXCEPT ![c] = Atomic!Idle] /\ Asked[c].phase = "applied"
    BY <1>7, NoCallType, AskedChanges, AskedOf DEF Finalize, Return, NoCall, Phase, Atomic!Idle
  <2>2. {Loaded(d) : d \in recent'} = {Loaded(dir)}
    BY <1>7 DEF Finalize
  <2>3. QED
    BY <1>7, <2>1, <2>2 DEF Finalize, Return, Atomic!Succeed, Atomic!Answer
<1>8. ASSUME NEW c \in Caller, Fail(c) PROVE Atomic!Fail(c)
  <2>1. Asked' = [Asked EXCEPT ![c] = Atomic!Idle]
    BY <1>8, NoCallType, AskedChanges DEF Fail, Return, NoCall, Phase, Atomic!Idle
  <2>2. Asked[c].phase # "idle"
    BY <1>8, AskedOf DEF Fail, Phase
  <2>3. QED
    BY <1>8, <2>1, <2>2 DEF Fail, Return, Atomic!Fail, Atomic!Answer
<1>9. ASSUME Crash PROVE Atomic!Crash
  <2>1. Asked' = [c \in Caller |-> Atomic!Idle]
    BY <1>9 DEF Crash, Asked, NoCall, Phase, Atomic!Idle
  <2>2. {Loaded(d) : d \in recent'} = {Loaded(dir')} /\ dir' \in recent
    BY <1>9 DEF Crash
  <2>3. QED
    BY <1>9, <2>1, <2>2 DEF Crash, Atomic!Crash
<1>10. CASE UNCHANGED vars
  BY <1>10 DEF vars, Atomic!vars, Asked
<1>11. QED
  BY <1>1, <1>2, <1>3, <1>4, <1>5, <1>6, <1>7, <1>8, <1>9, <1>10 DEF Next, Atomic!Next

\* The store keeps the promise of AtomicFile, for any number of callers, any
\* records and whatever older versions left.
THEOREM SavedFileIsAtomic == Spec => ImplementsAtomicFile
<1>1. Init /\ [][Next]_vars => [](TypeOK /\ GuardInv)
  BY GuardIsKept DEF Spec
<1>2. QED
  BY <1>1, InitRefines, StepRefines, PTL DEF Spec, ImplementsAtomicFile, Atomic!Spec

-----------------------------------------------------------------------------
(* Transfers: what was told of one. *)

\* The events on their way: reports of progress and, behind them, once the task is over,
\* how it ended.
Reports(t) ==
  /\ task[t] \notin {"open", "finished", "over"} => events[t] = <<>>
  /\ \A i \in 1 .. Len(events[t]) :
       events[t][i] = IF task[t] = "over" /\ i = Len(events[t]) THEN result[t] ELSE "progress"
  /\ task[t] \in {"none", "called", "sizing"} => answer[t] = "none"
  /\ answer[t] = "error" => task[t] = "over" /\ result[t] = "error" /\ events[t] = <<>>
  /\ result[t] = "none" <=> task[t] \notin {"finished", "over"}
  /\ task[t] = "open" => kind[t] # "putLocal"

\* The last event of the task was heard.
Told(t) == task[t] = "over" /\ events[t] = <<>>

\* What a row shows by what was heard of its transfer.
Rows(t) ==
  /\ row[t] = "absent" <=> task[t] = "none"
  /\ /\ row[t] = "pending" /\ kind[t] # "putLocal"
     /\ task[t] = "open" \/ result[t] = "success"
     => events[t] # <<>> /\ events[t][1] = "progress"
  /\ row[t] = "failed" => Told(t) /\ result[t] = "error"
  /\ row[t] = "completed" /\ kind[t] # "modalCopy" => Told(t) /\ result[t] = "success"

\* Once all is told the row has its end, or gets it from a timer or the answer.
Settled(t) ==
  Told(t) =>
    \/ row[t] \in {"cancelled", "removed"}
    \/ result[t] = "error" /\ (row[t] = "failed" \/ answer[t] = "error")
    \/ /\ result[t] = "success"
       /\ \/ row[t] = "completed" \/ kind[t] = "putLocal"
          \/ row[t] = "transferring" /\ completing[t] > 0

\* A timer of completeTransfer runs for the success that was heard, or for the answer
\* that the copy dialog took for it.
Timers(t) ==
  completing[t] <= (IF Told(t) /\ result[t] = "success" THEN 1 ELSE 0)
                     + (IF kind[t] = "modalCopy" /\ answer[t] = "heard" THEN 1 ELSE 0)

Account(t) == Reports(t) /\ Rows(t) /\ Settled(t) /\ Timers(t)

\* Only rows that are shown have a timer of the panel.
Armed == \A t \in armed : row[t] \in Shown

TransferInv == TransferTypes /\ Armed /\ \A t \in Transfer : Account(t)

-----------------------------------------------------------------------------
(* Facts for the steps *)

Word == {"progress", "success", "error"}

\* The events that are left when the first was heard.
LEMMA EventHeard ==
  ASSUME NEW e \in Seq(Word), e # <<>>
  PROVE  /\ Tail(e) \in Seq(Word) /\ Len(e) \in Nat \ {0} /\ Len(Tail(e)) = Len(e) - 1
         /\ Head(e) = e[1] /\ e[1] \in Word
         /\ \A i \in 1 .. Len(Tail(e)) : Tail(e)[i] = e[i + 1]
         /\ Tail(e) = <<>> <=> Len(e) = 1
<1>1. Len(e) \in Nat \ {0} BY EmptySeq, LenProperties
<1>2. Tail(e) \in Seq(Word) /\ Len(Tail(e)) = Len(e) - 1 /\ Head(e) = e[1]
      /\ \A i \in 1 .. Len(Tail(e)) : Tail(e)[i] = e[i + 1]
      BY <1>1, HeadTailProperties
<1>3. e[1] \in Word BY <1>1, ElementOfSeq
<1>4. Tail(e) = <<>> <=> Len(Tail(e)) = 0 BY <1>2, EmptySeq
<1> QED BY <1>1, <1>2, <1>3, <1>4

\* The events when others were emitted behind them.
LEMMA EventsEmitted ==
  ASSUME NEW e \in Seq(Word), NEW f \in Seq(Word), Len(f) \in {1, 2}
  PROVE  /\ e \o f \in Seq(Word) /\ e \o f # <<>> /\ Len(e) \in Nat
         /\ Len(e \o f) = Len(e) + Len(f)
         /\ \A i \in 1 .. Len(e) + Len(f) :
              (e \o f)[i] = IF i <= Len(e) THEN e[i] ELSE f[i - Len(e)]
<1>1. Len(e) \in Nat BY LenProperties
<1>2. e \o f \in Seq(Word) /\ Len(e \o f) = Len(e) + Len(f) BY ConcatProperties
<1>3. \A i \in 1 .. Len(e) + Len(f) :
        (e \o f)[i] = IF i <= Len(e) THEN e[i] ELSE f[i - Len(e)]
      BY ConcatProperties
<1>4. e \o f # <<>> BY <1>1, <1>2, EmptySeq
<1> QED BY <1>1, <1>2, <1>3, <1>4

\* Rendering removes the timers of rows that are gone.
LEMMA Rendered ==
  ASSUME TransferTypes, NEW rows, NEW open \in BOOLEAN, Render(rows, open),
         rows \in [Transfer -> Shown \cup {"absent", "removed"}]
  PROVE  /\ row' = rows /\ panel' \in BOOLEAN /\ armed' \in SUBSET Transfer
         /\ \A u \in armed' : rows[u] \in Shown
BY DEF TransferTypes, Render, Shown

\* A row that is shown gets a status, one that is not stays as it is.
LEMMA RowSet ==
  ASSUME TransferTypes, NEW t \in Transfer, NEW status \in Shown, Set(t, status)
  PROVE  /\ row' \in [Transfer -> Shown \cup {"absent", "removed"}]
         /\ row' = [row EXCEPT ![t] = IF row[t] \in Shown THEN status ELSE row[t]]
         /\ panel' \in BOOLEAN /\ armed' \in SUBSET Transfer /\ Armed'
<1> DEFINE rows == [row EXCEPT ![t] = IF row[t] \in Shown THEN status ELSE row[t]]
<1>1. rows \in [Transfer -> Shown \cup {"absent", "removed"}] /\ panel \in BOOLEAN
      BY DEF TransferTypes
<1>2. Render(rows, panel) BY DEF Set
<1> HIDE DEF rows
<1>3. /\ row' = rows /\ panel' \in BOOLEAN /\ armed' \in SUBSET Transfer
      /\ \A u \in armed' : rows[u] \in Shown
      BY <1>1, <1>2, Rendered
<1>4. Armed' BY <1>3 DEF Armed
<1> QED BY <1>1, <1>3, <1>4 DEF rows

\* Nothing changes for the transfers but t.
OnlyTouches(t) ==
  \A u \in Transfer \ {t} :
    /\ row'[u] = row[u] /\ kind'[u] = kind[u] /\ task'[u] = task[u] /\ result'[u] = result[u]
    /\ events'[u] = events[u] /\ answer'[u] = answer[u] /\ completing'[u] = completing[u]

\* A step that touches one transfer is judged by that one.
LEMMA OneTransfer ==
  ASSUME TransferInv, NEW t \in Transfer, OnlyTouches(t),
         TransferTypes', Armed', Account(t)'
  PROVE  TransferInv'
<1>1. ASSUME NEW u \in Transfer \ {t} PROVE Account(u)'
  <2>1. Account(u) BY DEF TransferInv
  <2>2. /\ row'[u] = row[u] /\ kind'[u] = kind[u] /\ task'[u] = task[u] /\ result'[u] = result[u]
        /\ events'[u] = events[u] /\ answer'[u] = answer[u] /\ completing'[u] = completing[u]
        BY DEF OnlyTouches
  <2>3. Told(u)' = Told(u) BY <2>2 DEF Told
  <2>4. Reports(u)' BY <2>1, <2>2 DEF Account, Reports
  <2>5. Rows(u)' BY <2>1, <2>2, <2>3 DEF Account, Rows
  <2>6. Settled(u)' BY <2>1, <2>2, <2>3 DEF Account, Settled
  <2>7. Timers(u)' BY <2>1, <2>2, <2>3 DEF Account, Timers
  <2> QED BY <2>4, <2>5, <2>6, <2>7 DEF Account
<1> QED BY <1>1 DEF TransferInv

\* What the types and the account say of one transfer.
LEMMA OfOne ==
  ASSUME TransferInv, NEW t \in Transfer
  PROVE  /\ row[t] \in Shown \cup {"absent", "removed"} /\ kind[t] \in Kind /\ task[t] \in Task
         /\ result[t] \in {"none", "success", "error"} /\ token[t] \in {"none", "live", "set"}
         /\ events[t] \in Seq(Word) /\ answer[t] \in {"none", "ok", "error", "heard"}
         /\ completing[t] \in 0 .. 2 /\ cancelling[t] \in {"no", "sent", "answered"}
         /\ Reports(t) /\ Rows(t) /\ Settled(t) /\ Timers(t)
         /\ Told(t) \in BOOLEAN
BY DEF TransferInv, TransferTypes, Account, Word, Told

\* A transfer starts with a pending row and a command that was called.
LEMMA StartKeeps ==
  ASSUME TransferInv, NEW t \in Transfer, NEW k \in Kind, Start(t, k) PROVE TransferInv'
<1> DEFINE rows == [row EXCEPT ![t] = "pending"]
<1>1. rows \in [Transfer -> Shown \cup {"absent", "removed"}] /\ panel \in BOOLEAN
      /\ TransferTypes /\ Render(rows, panel)
      BY DEF TransferInv, TransferTypes, Shown, Active, Start
<1> HIDE DEF rows
<1>2. /\ row' = rows /\ panel' \in BOOLEAN /\ armed' \in SUBSET Transfer
      /\ \A u \in armed' : rows[u] \in Shown
      BY <1>1, Rendered
<1>3. Armed' BY <1>2 DEF Armed
<1>4. TransferTypes'
  <2>1. kind' \in [Transfer -> Kind] /\ task' \in [Transfer -> Task]
        BY <1>1 DEF Start, TransferTypes, Task
  <2> QED BY <1>1, <1>2, <2>1 DEF Start, TransferTypes
<1>5. OnlyTouches(t) BY <1>1, <1>2 DEF Start, TransferTypes, OnlyTouches, rows
<1>6. Account(t)'
  <2>1. /\ row'[t] = "pending" /\ kind'[t] = k /\ task'[t] = "called" /\ result'[t] = result[t]
        /\ events'[t] = events[t] /\ answer'[t] = answer[t] /\ completing'[t] = completing[t]
        BY <1>1, <1>2 DEF Start, TransferTypes, rows
  <2>2. row[t] = "absent" BY DEF Start
  <2>3. task[t] = "none" /\ events[t] = <<>> /\ answer[t] = "none" /\ result[t] = "none"
        /\ completing[t] = 0
        BY <2>2, OfOne DEF Rows, Reports, Timers, Told
  <2>4. Len(events[t]) = 0 BY <2>3, EmptySeq
  <2> QED BY <2>1, <2>3, <2>4 DEF Account, Reports, Rows, Settled, Timers, Told
<1> QED BY <1>3, <1>4, <1>5, <1>6, OneTransfer

\* A report or the end of a task is heard.
LEMMA HearEventKeeps ==
  ASSUME TransferInv, NEW t \in Transfer, HearEvent(t) PROVE TransferInv'
<1> DEFINE e == events[t]
<1>1. TransferTypes /\ e \in Seq(Word) /\ e # <<>> BY DEF TransferInv, TransferTypes, HearEvent, Word
<1>2. /\ Tail(e) \in Seq(Word) /\ Len(e) \in Nat \ {0} /\ Len(Tail(e)) = Len(e) - 1
      /\ Head(e) = e[1] /\ e[1] \in Word
      /\ \A i \in 1 .. Len(Tail(e)) : Tail(e)[i] = e[i + 1]
      /\ Tail(e) = <<>> <=> Len(e) = 1
      BY <1>1, EventHeard
<1>3. /\ events' = [events EXCEPT ![t] = Tail(e)]
      /\ UNCHANGED <<kind, task, result, token, answer, cancelling>>
      BY DEF HearEvent, taskVars
<1>4. /\ events' \in [Transfer -> Seq(Word)] /\ events'[t] = Tail(e)
      /\ \A u \in Transfer \ {t} : events'[u] = events[u]
      BY <1>1, <1>2, <1>3 DEF TransferTypes, Word
<1>5. /\ kind'[t] = kind[t] /\ task'[t] = task[t] /\ result'[t] = result[t] /\ answer'[t] = answer[t]
      BY <1>3
<1>6. /\ row[t] \in Shown \cup {"absent", "removed"} /\ kind[t] \in Kind /\ task[t] \in Task
      /\ result[t] \in {"none", "success", "error"} /\ answer[t] \in {"none", "ok", "error", "heard"}
      /\ completing[t] \in 0 .. 2
      /\ Reports(t) /\ Rows(t) /\ Settled(t) /\ Timers(t)
      BY OfOne
<1>7. /\ task[t] \in {"open", "finished", "over"} /\ answer[t] # "error" /\ ~ Told(t)
      /\ task[t] # "over" => e[1] = "progress"
      /\ task[t] = "over" /\ Len(e) = 1 => e[1] = result[t]
      /\ task[t] = "over" /\ Len(e) # 1 => e[1] = "progress"
      BY <1>1, <1>2, <1>6 DEF Reports, Told
<1>8. Reports(t)'
  <2>1. \A i \in 1 .. Len(Tail(e)) : 
          Tail(e)[i] = IF task[t] = "over" /\ i = Len(Tail(e)) THEN result[t] ELSE "progress"
        BY <1>2, <1>6 DEF Reports
  <2> QED BY <1>4, <1>5, <1>6, <1>7, <2>1 DEF Reports
<1>9. Told(t)' <=> task[t] = "over" /\ Len(e) = 1 BY <1>2, <1>4, <1>5 DEF Told
<1>10. CASE Head(e) = "progress"
  <2>1. /\ Set(t, "transferring") /\ completing' = completing BY <1>10 DEF HearEvent
  <2>2. /\ row' \in [Transfer -> Shown \cup {"absent", "removed"}]
        /\ row' = [row EXCEPT ![t] = IF row[t] \in Shown THEN "transferring" ELSE row[t]]
        /\ panel' \in BOOLEAN /\ armed' \in SUBSET Transfer /\ Armed'
        BY <1>1, <2>1, RowSet DEF Shown, Active
  <2>3. TransferTypes' BY <1>1, <1>3, <1>4, <2>1, <2>2 DEF TransferTypes, Word
  <2>4. OnlyTouches(t) BY <1>1, <1>3, <1>4, <2>1, <2>2 DEF TransferTypes, OnlyTouches
  <2>5. row'[t] = IF row[t] \in Shown THEN "transferring" ELSE row[t]
        BY <1>1, <2>2 DEF TransferTypes
  <2>6. ~ Told(t)'
    <3>1. result[t] # "progress" BY <1>6
    <3> QED BY <1>2, <1>7, <1>9, <1>10, <3>1
  <2>7. row[t] # "absent" BY <1>6, <1>7 DEF Rows
  <2>8. Rows(t)' BY <1>5, <1>7, <1>6, <2>5, <2>7 DEF Rows, Shown, Active, Ended
  <2>9. Settled(t)' BY <2>6 DEF Settled
  <2>10. Timers(t)' BY <1>5, <1>6, <1>7, <2>1, <2>6 DEF Timers
  <2> QED BY <1>8, <2>3, <2>2, <2>4, <2>8, <2>9, <2>10, OneTransfer DEF Account
<1>11. CASE Head(e) = "error"
  <2>1. /\ Set(t, "failed") /\ completing' = completing BY <1>11 DEF HearEvent
  <2>2. /\ row' \in [Transfer -> Shown \cup {"absent", "removed"}]
        /\ row' = [row EXCEPT ![t] = IF row[t] \in Shown THEN "failed" ELSE row[t]]
        /\ panel' \in BOOLEAN /\ armed' \in SUBSET Transfer /\ Armed'
        BY <1>1, <2>1, RowSet DEF Shown, Ended
  <2>3. TransferTypes' BY <1>1, <1>3, <1>4, <2>1, <2>2 DEF TransferTypes, Word
  <2>4. OnlyTouches(t) BY <1>1, <1>3, <1>4, <2>1, <2>2 DEF TransferTypes, OnlyTouches
  <2>5. row'[t] = IF row[t] \in Shown THEN "failed" ELSE row[t]
        BY <1>1, <2>2 DEF TransferTypes
  <2>6. task[t] = "over" /\ Len(e) = 1 /\ result[t] = "error" /\ Told(t)'
        BY <1>2, <1>7, <1>9, <1>11
  <2>7. row[t] # "absent" BY <1>6, <1>7 DEF Rows
  <2>8. Rows(t)' BY <1>5, <1>6, <2>5, <2>6, <2>7 DEF Rows, Shown, Active, Ended
  <2>9. Settled(t)' BY <1>5, <1>6, <2>5, <2>6, <2>7 DEF Settled, Shown, Active, Ended
  <2>10. Timers(t)' BY <1>5, <1>6, <1>7, <2>1, <2>6 DEF Timers
  <2> QED BY <1>8, <2>3, <2>2, <2>4, <2>8, <2>9, <2>10, OneTransfer DEF Account
<1>12. CASE Head(e) = "success"
  <2>1. /\ completing' = [completing EXCEPT ![t] = @ + 1] /\ UNCHANGED <<row, panel, armed>>
        BY <1>12 DEF HearEvent, completeTransfer
  <2>2. task[t] = "over" /\ Len(e) = 1 /\ result[t] = "success" /\ Told(t)'
        BY <1>2, <1>7, <1>9, <1>12
  <2>3. completing[t] <= 1 BY <1>6, <1>7 DEF Timers
  <2>4. completing' \in [Transfer -> 0 .. 2] /\ completing'[t] = completing[t] + 1
        /\ \A u \in Transfer \ {t} : completing'[u] = completing[u]
        BY <1>1, <2>1, <2>3 DEF TransferTypes
  <2>5. TransferTypes' BY <1>1, <1>3, <1>4, <2>1, <2>4 DEF TransferTypes, Word
  <2>6. OnlyTouches(t) BY <1>3, <1>4, <2>1, <2>4 DEF OnlyTouches
  <2>7. Armed' BY <2>1 DEF TransferInv, Armed
  <2>8. row'[t] = row[t] BY <2>1
  <2>9. row[t] # "absent" /\ row[t] # "failed" /\ (row[t] = "pending" => kind[t] = "putLocal")
        BY <1>2, <1>6, <1>7, <1>12, <2>2 DEF Rows
  <2>10. Rows(t)' BY <1>5, <1>6, <2>2, <2>8, <2>9 DEF Rows
  <2>11. Settled(t)' BY <1>5, <1>6, <2>2, <2>4, <2>8, <2>9 DEF Settled, Shown, Active, Ended
  <2>12. Timers(t)' BY <1>5, <1>6, <1>7, <2>2, <2>4 DEF Timers
  <2> QED BY <1>8, <2>5, <2>6, <2>7, <2>10, <2>11, <2>12, OneTransfer DEF Account
<1> QED BY <1>10, <1>11, <1>12 DEF HearEvent

-----------------------------------------------------------------------------
(* Timers, answers and the panel. *)

\* The timer of completeTransfer fires.
LEMMA CompletedNowKeeps ==
  ASSUME TransferInv, NEW t \in Transfer, CompletedNow(t) PROVE TransferInv'
<1>1. /\ TransferTypes /\ Armed /\ completing[t] > 0 /\ completing' = [completing EXCEPT ![t] = @ - 1]
      /\ UNCHANGED <<kind, task, result, token, events, answer, cancelling>>
      BY DEF TransferInv, CompletedNow, taskVars
<1>2. /\ row[t] \in Shown \cup {"absent", "removed"} /\ kind[t] \in Kind /\ task[t] \in Task
      /\ result[t] \in {"none", "success", "error"} /\ completing[t] \in 0 .. 2
      /\ Reports(t) /\ Rows(t) /\ Settled(t) /\ Timers(t)
      BY OfOne
<1>3. /\ completing' \in [Transfer -> 0 .. 2] /\ completing'[t] = completing[t] - 1
      /\ \A u \in Transfer \ {t} : completing'[u] = completing[u]
      BY <1>1 DEF TransferTypes
<1>4. Reports(t)' /\ Told(t)' = Told(t) BY <1>1, <1>2 DEF Reports, Told
<1>5. Timers(t)' BY <1>1, <1>2, <1>3, <1>4 DEF Timers
<1>6. CASE row[t] # "transferring"
  <2>1. UNCHANGED <<row, panel, armed>> BY <1>6 DEF CompletedNow
  <2>2. TransferTypes' /\ Armed' /\ OnlyTouches(t)
        BY <1>1, <1>3, <2>1 DEF TransferTypes, Armed, OnlyTouches
  <2>3. Rows(t)' /\ Settled(t)' BY <1>1, <1>2, <1>4, <1>6, <2>1 DEF Rows, Settled
  <2> QED BY <1>4, <1>5, <2>2, <2>3, OneTransfer DEF Account
<1>7. CASE row[t] = "transferring"
  <2>1. Set(t, "completed") BY <1>7 DEF CompletedNow
  <2>2. /\ row' \in [Transfer -> Shown \cup {"absent", "removed"}]
        /\ row' = [row EXCEPT ![t] = IF row[t] \in Shown THEN "completed" ELSE row[t]]
        /\ panel' \in BOOLEAN /\ armed' \in SUBSET Transfer /\ Armed'
        BY <1>1, <2>1, RowSet DEF Shown, Ended
  <2>3. TransferTypes' BY <1>1, <1>3, <2>2 DEF TransferTypes
  <2>4. OnlyTouches(t) BY <1>1, <1>3, <2>2 DEF TransferTypes, OnlyTouches
  <2>5. row'[t] = "completed" BY <1>1, <1>7, <2>2 DEF TransferTypes, Shown, Active
  <2>6. kind[t] # "modalCopy" => Told(t) /\ result[t] = "success" BY <1>1, <1>2 DEF Timers
  <2>7. Rows(t)' BY <1>1, <1>2, <1>4, <1>7, <2>5, <2>6 DEF Rows
  <2>8. Told(t) => answer[t] = "error" \/ result[t] = "success" BY <1>2, <1>7 DEF Settled
  <2>9. Settled(t)' BY <1>1, <1>2, <1>4, <2>5, <2>8 DEF Settled, Reports
  <2> QED BY <1>4, <1>5, <2>2, <2>3, <2>4, <2>7, <2>9, OneTransfer DEF Account
<1> QED BY <1>6, <1>7

\* A command answers.
LEMMA HearAnswerKeeps ==
  ASSUME TransferInv, NEW t \in Transfer, HearAnswer(t) PROVE TransferInv'
<1>1. /\ TransferTypes /\ Armed /\ answer[t] \in {"ok", "error"} /\ answer' = [answer EXCEPT ![t] = "heard"]
      /\ UNCHANGED <<kind, task, result, token, events, cancelling>>
      BY DEF TransferInv, HearAnswer, taskVars
<1>2. /\ row[t] \in Shown \cup {"absent", "removed"} /\ kind[t] \in Kind /\ task[t] \in Task
      /\ result[t] \in {"none", "success", "error"} /\ completing[t] \in 0 .. 2
      /\ Reports(t) /\ Rows(t) /\ Settled(t) /\ Timers(t)
      BY OfOne
<1>3. /\ answer' \in [Transfer -> {"none", "ok", "error", "heard"}] /\ answer'[t] = "heard"
      /\ \A u \in Transfer \ {t} : answer'[u] = answer[u]
      BY <1>1 DEF TransferTypes
<1>4. Told(t)' = Told(t) BY <1>1 DEF Told
<1>5. Reports(t)' BY <1>1, <1>2, <1>3 DEF Reports
<1>6. row[t] # "absent" BY <1>1, <1>2 DEF Rows, Reports
<1>7. CASE answer[t] = "error"
  <2>1. Set(t, "failed") /\ completing' = completing BY <1>7 DEF HearAnswer
  <2>2. /\ row' \in [Transfer -> Shown \cup {"absent", "removed"}]
        /\ row' = [row EXCEPT ![t] = IF row[t] \in Shown THEN "failed" ELSE row[t]]
        /\ panel' \in BOOLEAN /\ armed' \in SUBSET Transfer /\ Armed'
        BY <1>1, <2>1, RowSet DEF Shown, Ended
  <2>3. TransferTypes' BY <1>1, <1>3, <2>1, <2>2 DEF TransferTypes
  <2>4. OnlyTouches(t) BY <1>1, <1>3, <2>1, <2>2 DEF TransferTypes, OnlyTouches
  <2>5. row'[t] = IF row[t] \in Shown THEN "failed" ELSE row[t]
        BY <1>1, <2>2 DEF TransferTypes
  <2>6. row'[t] \in {"failed", "removed"} /\ Told(t) /\ result[t] = "error"
        BY <1>2, <1>6, <1>7, <2>5 DEF Reports, Told
  <2>7. Rows(t)' BY <1>1, <1>2, <1>4, <2>6 DEF Rows, Told
  <2>8. Settled(t)' BY <1>1, <1>4, <2>6 DEF Settled
  <2>9. Timers(t)' BY <1>1, <1>2, <1>3, <1>4, <1>7, <2>1 DEF Timers
  <2> QED BY <1>5, <2>2, <2>3, <2>4, <2>7, <2>8, <2>9, OneTransfer DEF Account
<1>8. CASE answer[t] = "ok"
  <2>1. /\ UNCHANGED <<row, panel, armed>>
        /\ \/ kind[t] # "modalCopy" /\ completing' = completing
           \/ kind[t] = "modalCopy" /\ completing' = [completing EXCEPT ![t] = @ + 1]
        BY <1>8 DEF HearAnswer, completeTransfer
  <2>2. completing[t] <= IF Told(t) /\ result[t] = "success" THEN 1 ELSE 0
        BY <1>2, <1>8 DEF Timers
  <2>3. completing[t] <= 1 BY <1>2, <2>2
  <2>4. /\ completing' \in [Transfer -> 0 .. 2]
        /\ completing'[t] = completing[t] + IF kind[t] = "modalCopy" THEN 1 ELSE 0
        /\ \A u \in Transfer \ {t} : completing'[u] = completing[u]
    <3>1. CASE kind[t] = "modalCopy" BY <1>1, <1>2, <2>1, <2>3, <3>1 DEF TransferTypes
    <3>2. CASE kind[t] # "modalCopy" BY <1>1, <1>2, <2>1, <3>2 DEF TransferTypes
    <3> QED BY <3>1, <3>2
  <2>5. TransferTypes' /\ Armed' /\ OnlyTouches(t)
        BY <1>1, <1>3, <2>1, <2>4 DEF TransferTypes, Armed, OnlyTouches
  <2>6. Rows(t)' BY <1>1, <1>2, <1>4, <2>1 DEF Rows
  <2>7. Settled(t)' BY <1>1, <1>2, <1>4, <1>8, <2>1, <2>4 DEF Settled
  <2>8. Timers(t)' BY <1>1, <1>2, <1>3, <1>4, <2>2, <2>4 DEF Timers
  <2> QED BY <1>5, <2>5, <2>6, <2>7, <2>8, OneTransfer DEF Account
<1> QED BY <1>1, <1>7, <1>8

\* A cancel answers, whenever.
LEMMA CancelAnsweredKeeps ==
  ASSUME TransferInv, NEW t \in Transfer, CancelAnswered(t) PROVE TransferInv'
<1>1. /\ TransferTypes /\ Set(t, "cancelled") /\ cancelling' = [cancelling EXCEPT ![t] = "no"]
      /\ UNCHANGED <<kind, task, result, token, events, answer, completing>>
      BY DEF TransferInv, CancelAnswered, taskVars
<1>2. /\ row' \in [Transfer -> Shown \cup {"absent", "removed"}]
      /\ row' = [row EXCEPT ![t] = IF row[t] \in Shown THEN "cancelled" ELSE row[t]]
      /\ panel' \in BOOLEAN /\ armed' \in SUBSET Transfer /\ Armed'
      BY <1>1, RowSet DEF Shown, Ended
<1>3. TransferTypes' BY <1>1, <1>2 DEF TransferTypes
<1>4. OnlyTouches(t) BY <1>1, <1>2 DEF TransferTypes, OnlyTouches
<1>5. row'[t] = IF row[t] \in Shown THEN "cancelled" ELSE row[t] BY <1>1, <1>2 DEF TransferTypes
<1>6. /\ row[t] \in Shown \cup {"absent", "removed"} /\ task[t] \in Task
      /\ Reports(t) /\ Rows(t) /\ Settled(t) /\ Timers(t)
      BY OfOne
<1>7. row'[t] \in {"cancelled", "absent", "removed"} /\ (row'[t] = "absent" <=> row[t] = "absent")
      BY <1>5, <1>6 DEF Shown, Active, Ended
<1>8. Reports(t)' /\ Timers(t)' /\ Told(t)' = Told(t) BY <1>1, <1>6 DEF Reports, Timers, Told
<1>9. Rows(t)' BY <1>1, <1>6, <1>7, <1>8 DEF Rows
<1>10. Settled(t)'
  <2>1. Told(t) => row[t] # "absent" BY <1>6 DEF Told, Rows
  <2> QED BY <1>1, <1>7, <1>8, <2>1 DEF Settled
<1> QED BY <1>2, <1>3, <1>4, <1>8, <1>9, <1>10, OneTransfer DEF Account

\* The panel removes a row that ended or came back.
LEMMA RemoveRowKeeps ==
  ASSUME TransferInv, NEW t \in Transfer, RemoveRow(t) PROVE TransferInv'
<1> DEFINE rows == [row EXCEPT ![t] = "removed"]
<1>1. /\ TransferTypes /\ Render(rows, panel) /\ t \in armed
      /\ UNCHANGED <<kind, task, result, token, events, answer, completing, cancelling>>
      BY DEF TransferInv, RemoveRow, taskVars
<1>2. rows \in [Transfer -> Shown \cup {"absent", "removed"}] /\ panel \in BOOLEAN
      BY <1>1 DEF TransferTypes
<1> HIDE DEF rows
<1>3. /\ row' = rows /\ panel' \in BOOLEAN /\ armed' \in SUBSET Transfer
      /\ \A u \in armed' : rows[u] \in Shown
      BY <1>1, <1>2, Rendered
<1>4. Armed' BY <1>3 DEF Armed
<1>5. TransferTypes' BY <1>1, <1>2, <1>3 DEF TransferTypes
<1>6. OnlyTouches(t) BY <1>1, <1>3 DEF TransferTypes, OnlyTouches, rows
<1>7. row'[t] = "removed" BY <1>1, <1>3 DEF TransferTypes, rows
<1>8. row[t] # "absent" BY <1>1 DEF TransferInv, Armed, Shown, Active, Ended
<1>9. task[t] \in Task /\ Reports(t) /\ Rows(t) /\ Settled(t) /\ Timers(t) BY OfOne
<1>10. Reports(t)' /\ Timers(t)' /\ Told(t)' = Told(t) BY <1>1, <1>9 DEF Reports, Timers, Told
<1>11. Rows(t)' BY <1>1, <1>7, <1>8, <1>9, <1>10 DEF Rows
<1>12. Settled(t)' BY <1>7 DEF Settled
<1> QED BY <1>4, <1>5, <1>6, <1>10, <1>11, <1>12, OneTransfer DEF Account

\* The panel, a cancel on its way and a token say nothing of a row.
LEMMA AsideKeeps ==
  ASSUME TransferInv, TransferTypes', Armed',
         UNCHANGED <<row, kind, task, result, events, answer, completing>>
  PROVE  TransferInv'
<1>1. ASSUME NEW t \in Transfer PROVE Account(t)'
  <2>1. Reports(t) /\ Rows(t) /\ Settled(t) /\ Timers(t) BY OfOne
  <2>2. Told(t)' = Told(t) BY DEF Told
  <2> QED BY <2>1, <2>2 DEF Account, Reports, Rows, Settled, Timers
<1> QED BY <1>1 DEF TransferInv

\* The panel is opened or closed.
LEMMA TogglePanelKeeps == ASSUME TransferInv, TogglePanel PROVE TransferInv'
<1>1. /\ TransferTypes /\ Render(row, ~ panel)
      /\ UNCHANGED <<kind, task, result, token, events, answer, completing, cancelling>>
      BY DEF TransferInv, TogglePanel, taskVars
<1>2. row \in [Transfer -> Shown \cup {"absent", "removed"}] /\ (~ panel) \in BOOLEAN
      BY <1>1 DEF TransferTypes
<1>3. /\ row' = row /\ panel' \in BOOLEAN /\ armed' \in SUBSET Transfer
      /\ \A u \in armed' : row[u] \in Shown
      BY <1>1, <1>2, Rendered
<1>4. TransferTypes' /\ Armed' BY <1>1, <1>3 DEF TransferTypes, Armed
<1> QED BY <1>1, <1>3, <1>4, AsideKeeps

\* A cancel is asked for, or sets the token.
LEMMA AskCancelKeeps ==
  ASSUME TransferInv, NEW t \in Transfer, AskCancel(t) \/ Cancel(t) PROVE TransferInv'
<1>1. /\ TransferTypes /\ Armed
      /\ UNCHANGED <<row, kind, task, result, events, answer, completing, panel, armed>>
      BY DEF TransferInv, AskCancel, Cancel, taskVars
<1>2. cancelling' \in [Transfer -> {"no", "sent", "answered"}]
      /\ token' \in [Transfer -> {"none", "live", "set"}]
      BY <1>1 DEF TransferTypes, AskCancel, Cancel, Mark, taskVars
<1>3. TransferTypes' /\ Armed' BY <1>1, <1>2 DEF TransferTypes, Armed
<1> QED BY <1>1, <1>3, AsideKeeps

-----------------------------------------------------------------------------
(* The tasks. *)

\* A task comes to a stage, with a result, events, an answer and a token.
Moves(t, stage, how, e, said, mark) ==
  /\ stage \in Task /\ how \in {"none", "success", "error"} /\ e \in Seq(Word)
  /\ said \in {"none", "ok", "error", "heard"} /\ mark \in {"none", "live", "set"}
  /\ Backend(t, stage) /\ UNCHANGED cancelling
  /\ result' = [result EXCEPT ![t] = how] /\ events' = [events EXCEPT ![t] = e]
  /\ answer' = [answer EXCEPT ![t] = said] /\ token' = [token EXCEPT ![t] = mark]

\* A step of a task: the panel and the other transfers see nothing of it.
LEMMA TaskStep ==
  ASSUME TransferInv, NEW t \in Transfer, NEW stage, NEW how, NEW e, NEW said, NEW mark,
         Moves(t, stage, how, e, said, mark)
  PROVE  /\ TransferTypes' /\ Armed' /\ OnlyTouches(t)
         /\ row'[t] = row[t] /\ kind'[t] = kind[t] /\ completing'[t] = completing[t]
         /\ task'[t] = stage /\ result'[t] = how /\ events'[t] = e /\ answer'[t] = said
<1>1. /\ TransferTypes /\ Armed /\ task' = [task EXCEPT ![t] = stage]
      /\ UNCHANGED <<row, kind, completing, cancelling, panel, armed>>
      BY DEF TransferInv, Moves, Backend, rowVars
<1>2. /\ task' \in [Transfer -> Task] /\ task'[t] = stage
      /\ \A u \in Transfer \ {t} : task'[u] = task[u]
      BY <1>1 DEF TransferTypes, Moves
<1>3. /\ result' \in [Transfer -> {"none", "success", "error"}] /\ result'[t] = how
      /\ \A u \in Transfer \ {t} : result'[u] = result[u]
      BY <1>1 DEF TransferTypes, Moves
<1>4. /\ events' \in [Transfer -> Seq(Word)] /\ events'[t] = e
      /\ \A u \in Transfer \ {t} : events'[u] = events[u]
      BY <1>1 DEF TransferTypes, Word, Moves
<1>5. /\ answer' \in [Transfer -> {"none", "ok", "error", "heard"}] /\ answer'[t] = said
      /\ \A u \in Transfer \ {t} : answer'[u] = answer[u]
      BY <1>1 DEF TransferTypes, Moves
<1>6. token' \in [Transfer -> {"none", "live", "set"}] BY <1>1 DEF TransferTypes, Moves
<1>7. TransferTypes' BY <1>1, <1>2, <1>3, <1>4, <1>5, <1>6 DEF TransferTypes, Word
<1>8. Armed' BY <1>1 DEF Armed
<1>9. OnlyTouches(t) BY <1>1, <1>2, <1>3, <1>4, <1>5 DEF OnlyTouches
<1> QED BY <1>1, <1>2, <1>3, <1>4, <1>5, <1>7, <1>8, <1>9

\* What does not change, as an EXCEPT.
LEMMA Untouched ==
  ASSUME TransferInv, NEW t \in Transfer
  PROVE  /\ result = [result EXCEPT ![t] = result[t]] /\ events = [events EXCEPT ![t] = events[t]]
         /\ answer = [answer EXCEPT ![t] = answer[t]] /\ token = [token EXCEPT ![t] = token[t]]
BY DEF TransferInv, TransferTypes

\* Before a task is over and told no row has its end from it.
LEMMA NotTold ==
  ASSUME TransferInv, NEW t \in Transfer, task[t] # "over"
  PROVE  /\ ~ Told(t) /\ row[t] # "failed" /\ (row[t] = "completed" => kind[t] = "modalCopy")
         /\ answer[t] # "error"
         /\ completing[t] <= IF kind[t] = "modalCopy" /\ answer[t] = "heard" THEN 1 ELSE 0
BY OfOne DEF Told, Rows, Reports, Timers

\* The command and the task of a copy register their token.
LEMMA CommandKeeps ==
  ASSUME TransferInv, NEW t \in Transfer, RunCommand(t) \/ Register(t) PROVE TransferInv'
<1> DEFINE stage == IF RunCommand(t) THEN IF kind[t] = "zip" THEN "sizing" ELSE "spawned"
                    ELSE "registered"
           said == IF RunCommand(t) /\ kind[t] # "zip" THEN "ok" ELSE answer[t]
           mark == IF RunCommand(t) /\ kind[t] \notin Upload \cup {"zip"} THEN token[t] ELSE "live"
<1>1. /\ kind[t] \in Kind /\ task[t] \in Task /\ result[t] \in {"none", "success", "error"}
      /\ token[t] \in {"none", "live", "set"} /\ events[t] \in Seq(Word)
      /\ answer[t] \in {"none", "ok", "error", "heard"} /\ completing[t] \in 0 .. 2
      /\ row[t] \in Shown \cup {"absent", "removed"}
      /\ Reports(t) /\ Rows(t) /\ Settled(t) /\ Timers(t)
      BY OfOne
<1>2. /\ result = [result EXCEPT ![t] = result[t]] /\ events = [events EXCEPT ![t] = events[t]]
      /\ answer = [answer EXCEPT ![t] = answer[t]] /\ token = [token EXCEPT ![t] = token[t]]
      BY Untouched
<1>3. task[t] \in {"called", "spawned"} /\ (RunCommand(t) <=> task[t] = "called")
      BY DEF RunCommand, Register
<1>4. /\ Backend(t, stage) /\ UNCHANGED <<result, events, cancelling>>
      /\ answer' = [answer EXCEPT ![t] = said] /\ token' = [token EXCEPT ![t] = mark]
      <2>1. CASE RunCommand(t)
        <3>1. Backend(t, stage) /\ UNCHANGED <<result, events, cancelling>>
              BY <2>1 DEF RunCommand, Backend, rowVars
        <3>2. answer' = [answer EXCEPT ![t] = said] BY <1>2, <2>1 DEF RunCommand
        <3>3. token' = [token EXCEPT ![t] = mark] BY <1>2, <2>1 DEF RunCommand, Mark
        <3> QED BY <3>1, <3>2, <3>3
      <2>2. CASE ~ RunCommand(t) BY <1>2, <2>2 DEF Register, Backend, rowVars, Mark
      <2> QED BY <2>1, <2>2
<1>5. stage \in Task /\ said \in {"none", "ok", "error", "heard"} /\ mark \in {"none", "live", "set"}
      BY <1>1 DEF Task
<1>6. /\ stage \in {"sizing", "spawned", "registered"} /\ (stage = "sizing" => said = answer[t])
      /\ said \in {"ok", answer[t]} /\ (said = "ok" \/ said = answer[t])
      /\ (stage = "sizing" => task[t] = "called")
      BY <1>3
<1> HIDE DEF stage, said, mark
<1>7. /\ TransferTypes' /\ Armed' /\ OnlyTouches(t)
      /\ row'[t] = row[t] /\ kind'[t] = kind[t] /\ completing'[t] = completing[t]
      /\ task'[t] = stage /\ result'[t] = result[t] /\ events'[t] = events[t] /\ answer'[t] = said
  <2>1. result' = [result EXCEPT ![t] = result[t]] /\ events' = [events EXCEPT ![t] = events[t]]
        BY <1>2, <1>4
  <2>2. Moves(t, stage, result[t], events[t], said, mark) BY <1>1, <1>4, <1>5, <2>1 DEF Moves
  <2> QED BY <2>2, TaskStep
<1>8. /\ ~ Told(t) /\ row[t] # "failed" /\ (row[t] = "completed" => kind[t] = "modalCopy")
      /\ answer[t] # "error"
      /\ completing[t] <= IF kind[t] = "modalCopy" /\ answer[t] = "heard" THEN 1 ELSE 0
      BY <1>3, NotTold
<1>9. events[t] = <<>> /\ Len(events[t]) = 0 /\ result[t] = "none"
      BY <1>1, <1>3, EmptySeq DEF Reports
<1>10. Reports(t)' BY <1>1, <1>6, <1>7, <1>8, <1>9 DEF Reports
<1>11. ~ Told(t)' BY <1>6, <1>7 DEF Told
<1>12. Rows(t)' BY <1>1, <1>3, <1>6, <1>7, <1>8, <1>9 DEF Rows
<1>13. Timers(t)'
  <2>1. RunCommand(t) => answer[t] = "none" BY <1>1, <1>3 DEF Reports
  <2>2. said = "heard" <=> answer[t] = "heard" BY <2>1, <1>3 DEF said
  <2> QED BY <1>1, <1>7, <1>8, <1>11, <2>2 DEF Timers
<1> QED BY <1>7, <1>10, <1>11, <1>12, <1>13, OneTransfer DEF Account, Settled

\* An archive is measured, or its session is gone.
LEMMA MeasureKeeps == ASSUME TransferInv, NEW t \in Transfer, Measure(t) PROVE TransferInv'
<1>1. /\ kind[t] \in Kind /\ task[t] = "sizing" /\ result[t] = "none"
      /\ token[t] \in {"none", "live", "set"} /\ events[t] \in Seq(Word)
      /\ answer[t] = "none" /\ completing[t] \in 0 .. 2 /\ events[t] = <<>> /\ Len(events[t]) = 0
      /\ row[t] \in Shown \cup {"absent", "removed"}
      /\ Reports(t) /\ Rows(t) /\ Settled(t) /\ Timers(t)
      BY OfOne, EmptySeq DEF Measure, Reports
<1>2. /\ result = [result EXCEPT ![t] = result[t]] /\ events = [events EXCEPT ![t] = events[t]]
      /\ token = [token EXCEPT ![t] = token[t]]
      BY Untouched
<1>3. /\ ~ Told(t) /\ row[t] # "failed" /\ (row[t] = "completed" => kind[t] = "modalCopy")
      /\ completing[t] <= 0
      BY <1>1, NotTold
<1>4. PICK stage \in Task, how \in {"none", "error"}, said \in {"ok", "error"} :
        /\ Backend(t, stage) /\ result' = [result EXCEPT ![t] = how]
        /\ answer' = [answer EXCEPT ![t] = said]
        /\ \/ stage = "spawned" /\ how = "none" /\ said = "ok"
           \/ stage = "over" /\ how = "error" /\ said = "error"
      BY <1>1, <1>2 DEF Measure, Task, End
<1>5. UNCHANGED <<token, events, cancelling>> BY DEF Measure, Backend, rowVars
<1>6. /\ TransferTypes' /\ Armed' /\ OnlyTouches(t)
      /\ row'[t] = row[t] /\ kind'[t] = kind[t] /\ completing'[t] = completing[t]
      /\ task'[t] = stage /\ result'[t] = how /\ events'[t] = events[t] /\ answer'[t] = said
  <2>1. token' = [token EXCEPT ![t] = token[t]] /\ events' = [events EXCEPT ![t] = events[t]]
        BY <1>2, <1>5
  <2>2. Moves(t, stage, how, events[t], said, token[t]) BY <1>1, <1>4, <1>5, <2>1 DEF Moves
  <2> QED BY <2>2, TaskStep
<1>7. Reports(t)' BY <1>1, <1>4, <1>6 DEF Reports
<1>8. Rows(t)' BY <1>1, <1>3, <1>4, <1>6 DEF Rows
<1>9. Settled(t)' BY <1>1, <1>4, <1>6 DEF Settled, Told
<1>10. Timers(t)' BY <1>1, <1>3, <1>4, <1>6 DEF Timers
<1> QED BY <1>6, <1>7, <1>8, <1>9, <1>10, OneTransfer DEF Account

\* A report of progress, as Begin and Chunk emit it.
LEMMA ReportKeeps ==
  ASSUME TransferInv, NEW t \in Transfer, Begin(t) \/ Chunk(t) PROVE TransferInv'
<1> DEFINE e == events[t] \o <<"progress">>
           mark == IF Begin(t) /\ kind[t] = "get" THEN "live" ELSE token[t]
<1>1. /\ kind[t] \in Kind /\ task[t] \in {"spawned", "registered", "open"} /\ kind[t] # "putLocal"
      /\ token[t] \in {"none", "live", "set"} /\ events[t] \in Seq(Word) /\ result[t] = "none"
      /\ answer[t] \in {"none", "ok", "error", "heard"} /\ completing[t] \in 0 .. 2
      /\ row[t] \in Shown \cup {"absent", "removed"} /\ Reports(t) /\ Rows(t)
      BY OfOne DEF Begin, Chunk, Ready, Reports
<1>2. /\ ~ Told(t) /\ row[t] # "failed" /\ (row[t] = "completed" => kind[t] = "modalCopy")
      /\ answer[t] # "error"
      /\ completing[t] <= IF kind[t] = "modalCopy" /\ answer[t] = "heard" THEN 1 ELSE 0
      BY <1>1, NotTold
<1>3. <<"progress">> \in Seq(Word) /\ Len(<<"progress">>) = 1 /\ <<"progress">>[1] = "progress"
      BY DEF Word
<1>4. /\ e \in Seq(Word) /\ e # <<>> /\ Len(events[t]) \in Nat /\ Len(e) = Len(events[t]) + 1
      /\ \A i \in 1 .. Len(e) : e[i] = IF i <= Len(events[t]) THEN events[t][i]
                                       ELSE <<"progress">>[i - Len(events[t])]
      BY <1>1, <1>3, EventsEmitted
<1>5. \A i \in 1 .. Len(events[t]) : events[t][i] = "progress" BY <1>1 DEF Reports
<1>6. \A i \in 1 .. Len(e) : e[i] = "progress"
  <2> SUFFICES ASSUME NEW i \in 1 .. Len(e) PROVE e[i] = "progress" OBVIOUS
  <2>1. CASE i <= Len(events[t]) BY <1>4, <1>5, <2>1
  <2>2. CASE ~ (i <= Len(events[t]))
    <3>1. i - Len(events[t]) = 1 BY <1>4, <2>2
    <3> QED BY <1>3, <1>4, <2>2, <3>1
  <2> QED BY <2>1, <2>2
<1>7. Moves(t, "open", result[t], e, answer[t], mark)
  <2>1. /\ Backend(t, "open") /\ events' = [events EXCEPT ![t] = e] /\ UNCHANGED <<result, answer>>
        BY DEF Begin, Chunk, Emit
  <2>2. UNCHANGED cancelling BY <2>1 DEF Backend, rowVars
  <2>3. token' = [token EXCEPT ![t] = mark]
    <3>1. CASE Begin(t) BY <3>1, Untouched DEF Begin, Mark
    <3>2. CASE ~ Begin(t) BY <3>2, Untouched DEF Chunk
    <3> QED BY <3>1, <3>2
  <2>4. result' = [result EXCEPT ![t] = result[t]] /\ answer' = [answer EXCEPT ![t] = answer[t]]
        BY <2>1, Untouched
  <2> HIDE DEF e
  <2> QED BY <1>1, <1>4, <2>1, <2>2, <2>3, <2>4 DEF Moves, Task
<1> HIDE DEF e, mark
<1>8. /\ TransferTypes' /\ Armed' /\ OnlyTouches(t)
      /\ row'[t] = row[t] /\ kind'[t] = kind[t] /\ completing'[t] = completing[t]
      /\ task'[t] = "open" /\ result'[t] = result[t] /\ events'[t] = e /\ answer'[t] = answer[t]
      BY <1>7, TaskStep
<1>9. Reports(t)' BY <1>1, <1>2, <1>6, <1>8 DEF Reports
<1>10. ~ Told(t)' BY <1>8 DEF Told
<1>11. e[1] = "progress" BY <1>4, <1>6
<1>12. Rows(t)' BY <1>1, <1>2, <1>4, <1>8, <1>11 DEF Rows
<1>13. Timers(t)' BY <1>1, <1>2, <1>8, <1>10 DEF Timers
<1> QED BY <1>8, <1>9, <1>10, <1>12, <1>13, OneTransfer DEF Account, Settled

\* The task ends by itself, with everything written or not.
LEMMA FinishKeeps ==
  ASSUME TransferInv, NEW t \in Transfer, Break(t) \/ Finish(t) PROVE TransferInv'
<1>1. /\ kind[t] \in Kind /\ task[t] \in {"spawned", "registered", "open"}
      /\ token[t] \in {"none", "live", "set"} /\ events[t] \in Seq(Word) /\ result[t] = "none"
      /\ answer[t] \in {"none", "ok", "error", "heard"} /\ completing[t] \in 0 .. 2
      /\ row[t] \in Shown \cup {"absent", "removed"} /\ Reports(t) /\ Rows(t)
      BY OfOne DEF Break, Finish, Ready, Reports
<1>2. /\ ~ Told(t) /\ row[t] # "failed" /\ (row[t] = "completed" => kind[t] = "modalCopy")
      /\ answer[t] # "error"
      /\ completing[t] <= IF kind[t] = "modalCopy" /\ answer[t] = "heard" THEN 1 ELSE 0
      BY <1>1, NotTold
<1>3. PICK how \in {"success", "error"} :
        /\ Backend(t, "finished") /\ result' = [result EXCEPT ![t] = how]
        /\ how = "success" => task[t] = "open" \/ kind[t] = "putLocal"
      BY DEF Break, Finish, End
<1>4. Moves(t, "finished", how, events[t], answer[t], token[t])
  <2>1. UNCHANGED <<token, events, answer, cancelling>> BY DEF Break, Finish, Backend, rowVars
  <2>2. /\ events' = [events EXCEPT ![t] = events[t]] /\ answer' = [answer EXCEPT ![t] = answer[t]]
        /\ token' = [token EXCEPT ![t] = token[t]]
        BY <2>1, Untouched
  <2> QED BY <1>1, <1>3, <2>1, <2>2 DEF Moves, Task
<1>5. /\ TransferTypes' /\ Armed' /\ OnlyTouches(t)
      /\ row'[t] = row[t] /\ kind'[t] = kind[t] /\ completing'[t] = completing[t]
      /\ task'[t] = "finished" /\ result'[t] = how /\ events'[t] = events[t] /\ answer'[t] = answer[t]
      BY <1>4, TaskStep
<1>6. Reports(t)' BY <1>1, <1>2, <1>5 DEF Reports
<1>7. ~ Told(t)' BY <1>5 DEF Told
<1>8. Rows(t)' BY <1>1, <1>2, <1>3, <1>5 DEF Rows
<1>9. Timers(t)' BY <1>1, <1>2, <1>5, <1>7 DEF Timers
<1> QED BY <1>5, <1>6, <1>7, <1>8, <1>9, OneTransfer DEF Account, Settled

\* The end of a task is the last event it emits.
LEMMA ConcludeKeeps == ASSUME TransferInv, NEW t \in Transfer, Conclude(t) PROVE TransferInv'
<1> DEFINE f == IF result[t] = "error" THEN <<"error">>
                ELSE IF kind[t] \in Copying \cup {"zip"} THEN <<"progress", "success">>
                ELSE <<"success">>
           e == events[t] \o f
           n == Len(events[t])
<1>1. /\ kind[t] \in Kind /\ task[t] = "finished"
      /\ token[t] \in {"none", "live", "set"} /\ events[t] \in Seq(Word)
      /\ result[t] \in {"success", "error"}
      /\ answer[t] \in {"none", "ok", "error", "heard"} /\ completing[t] \in 0 .. 2
      /\ row[t] \in Shown \cup {"absent", "removed"} /\ Reports(t) /\ Rows(t)
      BY OfOne DEF Conclude, Reports
<1>2. /\ ~ Told(t) /\ row[t] # "failed" /\ (row[t] = "completed" => kind[t] = "modalCopy")
      /\ answer[t] # "error"
      /\ completing[t] <= IF kind[t] = "modalCopy" /\ answer[t] = "heard" THEN 1 ELSE 0
      BY <1>1, NotTold
<1>3. /\ f \in Seq(Word) /\ Len(f) \in {1, 2}
      /\ \A j \in 1 .. Len(f) : f[j] = IF j = Len(f) THEN result[t] ELSE "progress"
  <2>1. CASE result[t] = "error"
    <3>1. f = <<"error">> BY <2>1
    <3>2. <<"error">> \in Seq(Word) /\ Len(<<"error">>) = 1 /\ <<"error">>[1] = "error" BY DEF Word
    <3> QED BY ONLY <2>1, <3>1, <3>2
  <2>2. CASE result[t] = "success" /\ kind[t] \in Copying \cup {"zip"}
    <3>1. f = <<"progress", "success">> BY <2>2
    <3>2. /\ <<"progress", "success">> \in Seq(Word) /\ Len(<<"progress", "success">>) = 2
          /\ <<"progress", "success">>[1] = "progress" /\ <<"progress", "success">>[2] = "success"
          BY DEF Word
    <3> QED BY ONLY <2>2, <3>1, <3>2
  <2>3. CASE result[t] = "success" /\ kind[t] \notin Copying \cup {"zip"}
    <3>1. f = <<"success">> BY <2>3
    <3>2. <<"success">> \in Seq(Word) /\ Len(<<"success">>) = 1 /\ <<"success">>[1] = "success"
          BY DEF Word
    <3> QED BY ONLY <2>3, <3>1, <3>2
  <2> QED BY <1>1, <2>1, <2>2, <2>3
<1> HIDE DEF f
<1>4. /\ e \in Seq(Word) /\ e # <<>> /\ n \in Nat /\ Len(e) = n + Len(f)
      /\ \A i \in 1 .. Len(e) : e[i] = IF i <= n THEN events[t][i] ELSE f[i - n]
      BY <1>1, <1>3, EventsEmitted
<1>5. \A i \in 1 .. n : events[t][i] = "progress" BY <1>1 DEF Reports
<1> HIDE DEF e, n
<1>6. \A i \in 1 .. Len(e) : e[i] = IF i = Len(e) THEN result[t] ELSE "progress"
  <2> SUFFICES ASSUME NEW i \in 1 .. Len(e)
               PROVE  e[i] = IF i = Len(e) THEN result[t] ELSE "progress" OBVIOUS
  <2>1. CASE i <= n
    <3>0. n \in Nat /\ Len(e) \in {n + 1, n + 2} BY <1>3, <1>4
    <3>1. i \in 1 .. n /\ i # Len(e) BY ONLY <3>0, <2>1, i \in 1 .. Len(e)
    <3>2. e[i] = events[t][i] BY <1>4, <2>1
    <3> QED BY <1>5, <3>1, <3>2
  <2>2. CASE ~ (i <= n)
    <3>1. i - n \in 1 .. Len(f) /\ (i - n = Len(f) <=> i = Len(e)) BY <1>3, <1>4, <2>2
    <3> QED BY <1>3, <1>4, <2>2, <3>1
  <2> QED BY <2>1, <2>2
<1>7. Moves(t, "over", result[t], e, answer[t], "none")
  <2>1. /\ Backend(t, "over") /\ events' = [events EXCEPT ![t] = e] /\ UNCHANGED <<result, answer>>
        /\ token' = [token EXCEPT ![t] = "none"]
        BY DEF Conclude, Emit, Mark, e, f
  <2>2. UNCHANGED cancelling BY <2>1 DEF Backend, rowVars
  <2>3. result' = [result EXCEPT ![t] = result[t]] /\ answer' = [answer EXCEPT ![t] = answer[t]]
        BY <2>1, Untouched
  <2> QED BY <1>1, <1>4, <2>1, <2>2, <2>3 DEF Moves, Task
<1>8. events[t] # <<>> => e[1] = events[t][1]
  <2>1. events[t] # <<>> => n >= 1 BY <1>1, <1>4, EmptySeq DEF n
  <2> QED BY <1>3, <1>4, <2>1
<1>9. /\ TransferTypes' /\ Armed' /\ OnlyTouches(t)
      /\ row'[t] = row[t] /\ kind'[t] = kind[t] /\ completing'[t] = completing[t]
      /\ task'[t] = "over" /\ result'[t] = result[t] /\ events'[t] = e /\ answer'[t] = answer[t]
      BY <1>7, TaskStep
<1>10. Reports(t)' BY <1>1, <1>2, <1>6, <1>9 DEF Reports
<1>11. ~ Told(t)' BY <1>4, <1>9 DEF Told
<1>12. Rows(t)' BY <1>1, <1>2, <1>4, <1>8, <1>9 DEF Rows
<1>13. Timers(t)' BY <1>1, <1>2, <1>9, <1>11 DEF Timers
<1> QED BY <1>9, <1>10, <1>11, <1>12, <1>13, OneTransfer DEF Account, Settled

-----------------------------------------------------------------------------
(* The steps together. *)

\* A transfer starts, is reported and ends by itself; an overwrite only starts one.
LEMMA TransferKeeps ==
  ASSUME TransferInv, [ConflictNext]_allVars PROVE TransferInv'
<1>1. ASSUME UNCHANGED transferVars PROVE TransferInv'
  <2>1. UNCHANGED <<row, kind, task, result, token, events, answer, completing, cancelling, panel, armed>>
        BY <1>1 DEF transferVars, rowVars, taskVars
  <2>2. TransferTypes' /\ Armed' BY <2>1 DEF TransferInv, TransferTypes, Armed
  <2> QED BY <2>1, <2>2, AsideKeeps
<1>2. CASE Resolve
  <2>1. CASE StartTransfer
    <3>1. PICK t \in Transfer, k \in {"put", "get", "copy"} : Start(t, k) BY <2>1 DEF StartTransfer
    <3>2. k \in Kind BY DEF Kind, Upload, Copying
    <3> QED BY <3>1, <3>2, StartKeeps
  <2>2. CASE ~ StartTransfer
    <3>1. UNCHANGED transferVars
          BY <1>2, <2>2 DEF Resolve, Overwrite, BackupMade, BackupFails, OperationDone,
             OperationFails, DeleteBackup, RestoreBackup, StrayWrites, StrayEnds
    <3> QED BY <1>1, <3>1
  <2> QED BY <2>1, <2>2
<1>3. CASE Elsewhere BY <1>3, StartKeeps DEF Elsewhere
<1>4. ASSUME NEW t \in Transfer, Carry(t) PROVE TransferInv'
  <2>1. CASE Chunk(t) \/ Begin(t) BY <2>1, ReportKeeps
  <2>2. CASE Break(t) \/ Finish(t) BY <2>2, FinishKeeps
  <2>3. CASE Conclude(t) BY <2>3, ConcludeKeeps
  <2>4. CASE RunCommand(t) \/ Register(t) BY <2>4, CommandKeeps
  <2>5. CASE Measure(t) BY <2>5, MeasureKeeps
  <2>6. CASE Cancel(t) \/ AskCancel(t) BY <2>6, AskCancelKeeps
  <2>7. CASE HearAnswer(t) BY <2>7, HearAnswerKeeps
  <2>8. CASE HearEvent(t) BY <2>8, HearEventKeeps
  <2>9. CASE CompletedNow(t) BY <2>9, CompletedNowKeeps
  <2>10. CASE CancelAnswered(t) BY <2>10, CancelAnsweredKeeps
  <2>11. CASE RemoveRow(t) BY <2>11, RemoveRowKeeps
  <2> QED BY <1>4, <2>1, <2>2, <2>3, <2>4, <2>5, <2>6, <2>7, <2>8, <2>9, <2>10, <2>11 DEF Carry
<1>5. CASE TogglePanel BY <1>5, TogglePanelKeeps
<1>6. CASE UNCHANGED allVars BY <1>1, <1>6 DEF allVars
<1> QED BY <1>2, <1>3, <1>4, <1>5, <1>6 DEF ConflictNext

\* There are no transfers at the start.
LEMMA TransfersStart == ASSUME TransferInit PROVE TransferInv
<1>1. TransferTypes
  <2>1. kind \in [Transfer -> Kind] BY DEF TransferInit, Kind, Upload
  <2>2. events \in [Transfer -> Seq({"progress", "success", "error"})] BY DEF TransferInit
  <2>3. /\ row \in [Transfer -> Shown \cup {"absent", "removed"}]
        /\ task \in [Transfer -> Task] /\ token \in [Transfer -> {"none", "live", "set"}]
        /\ result \in [Transfer -> {"none", "success", "error"}]
        BY DEF TransferInit, Task
  <2>4. /\ answer \in [Transfer -> {"none", "ok", "error", "heard"}]
        /\ cancelling \in [Transfer -> {"no", "sent", "answered"}]
        BY DEF TransferInit
  <2>5. completing \in [Transfer -> 0 .. 2]
    <3>1. completing = [t \in Transfer |-> 0] BY DEF TransferInit
    <3> QED BY ONLY <3>1
  <2>6. panel \in BOOLEAN /\ armed \subseteq Transfer BY DEF TransferInit
  <2> QED BY <2>1, <2>2, <2>3, <2>4, <2>5, <2>6 DEF TransferTypes
<1>2. ASSUME NEW t \in Transfer PROVE Account(t)
  <2>1. /\ row[t] = "absent" /\ task[t] = "none" /\ result[t] = "none" /\ answer[t] = "none"
        /\ events[t] = <<>> /\ Len(events[t]) = 0 /\ completing[t] = 0
        BY EmptySeq DEF TransferInit
  <2> QED BY <2>1 DEF Account, Reports, Rows, Settled, Timers, Told
<1> QED BY <1>1, <1>2 DEF TransferInit, TransferInv, Armed

\* What the panel shows of each transfer agrees with what its task has told of itself, for any
\* number of transfers, events on their way and cancels (transferSlice.ts, commands.rs:5475-5722).
THEOREM TransferAccounts == ConflictSpec => []TransferInv
<1>1. ConflictInit => TransferInv BY TransfersStart DEF ConflictInit
<1>2. TransferInv /\ [ConflictNext]_allVars => TransferInv' BY TransferKeeps
<1> QED BY <1>1, <1>2, PTL DEF ConflictSpec

\* Once everything was heard a row shows how its transfer ended, whatever timers, answers and
\* events crossed (transferSlice.ts:53-117).
THEOREM RowsShowTheEnd == ConflictSpec => []OutcomesAreShown
<1>1. TransferInv => OutcomesAreShown
  <2> SUFFICES ASSUME TransferInv, NEW t \in Transfer, Quiet(t), row[t] # "removed", kind[t] # "putLocal"
               PROVE  row[t] \in (IF result[t] = "success" THEN {"completed"} ELSE {"failed"})
                                   \cup {"cancelled"}
      BY DEF OutcomesAreShown
  <2>1. Settled(t) /\ Told(t) /\ answer[t] = "heard" /\ completing[t] = 0
        BY OfOne DEF Quiet, Told
  <2> QED BY <2>1 DEF Settled
<1> QED BY <1>1, TransferAccounts, PTL

\* A row that ended becomes active again only when a cancel crossed a report, or when the copy
\* dialog called it completed in advance (transferSlice.ts:81).
THEOREM EndedRowsStay == ConflictSpec => OnlyCrossedRowsRevive
<1> DEFINE Revives == \E t \in Transfer :
                        /\ row[t] \in Ended /\ row'[t] \in Active
                        /\ ~ (row[t] = "cancelled" \/ (row[t] = "completed" /\ kind[t] = "modalCopy"))
<1>1. ASSUME TransferInv, [ConflictNext]_allVars PROVE ~ Revives
  <2> SUFFICES ASSUME NEW t \in Transfer, row[t] \in Ended, row'[t] \in Active,
                      row[t] # "cancelled", row[t] = "completed" => kind[t] # "modalCopy"
               PROVE  FALSE
      OBVIOUS
  <2>1. Told(t)
    <3>1. Rows(t) BY <1>1, OfOne
    <3> QED BY <3>1 DEF Rows, Ended
  <2>2. TransferTypes /\ row \in [Transfer -> Shown \cup {"absent", "removed"}]
        BY <1>1 DEF TransferInv, TransferTypes
  <2>3. row' # row BY DEF Ended, Active
  <2>4. \A u \in Transfer, status \in Shown :
          Set(u, status) => row'[t] = row[t] \/ (u = t /\ row'[t] = status)
        BY <2>2, RowSet
  <2>5. ASSUME NEW u \in Transfer, NEW k \in Kind, Start(u, k) PROVE FALSE
    <3>1. row' = [row EXCEPT ![u] = "pending"] /\ row[u] = "absent" BY <2>5 DEF Start, Render
    <3> QED BY <2>2, <3>1 DEF Ended, Active
  <2>6. ASSUME NEW u \in Transfer, HearEvent(u) PROVE FALSE
    <3>1. u # t BY <2>1, <2>6 DEF HearEvent, Told
    <3> QED BY <2>3, <2>4, <2>6, <3>1 DEF HearEvent, Shown, Active, Ended
  <2>7. ASSUME NEW u \in Transfer, CompletedNow(u) \/ HearAnswer(u) \/ CancelAnswered(u) PROVE FALSE
    <3>1. \E status \in Ended : Set(u, status) \/ row' = row
          BY <2>7 DEF CompletedNow, HearAnswer, CancelAnswered, Ended
    <3> QED BY <2>3, <2>4, <3>1 DEF Shown, Active, Ended
  <2>8. ASSUME NEW u \in Transfer, RemoveRow(u) PROVE FALSE
    <3>1. row' = [row EXCEPT ![u] = "removed"] BY <2>8 DEF RemoveRow, Render
    <3> QED BY <2>2, <3>1 DEF Ended, Active
  <2>9. ASSUME NEW u \in Transfer,
               \/ Chunk(u) \/ Begin(u) \/ Break(u) \/ Finish(u) \/ Conclude(u) \/ RunCommand(u)
               \/ Register(u) \/ Measure(u) \/ Cancel(u) \/ AskCancel(u)
        PROVE  FALSE
    BY <2>3, <2>9 DEF Chunk, Begin, Break, Finish, Conclude, RunCommand, Register, Measure, Cancel,
       AskCancel, Backend, rowVars
  <2>10. CASE TogglePanel BY <2>3, <2>10 DEF TogglePanel, Render
  <2>11. CASE Resolve
    <3>1. CASE StartTransfer
      <4>1. PICK u \in Transfer, k \in {"put", "get", "copy"} : Start(u, k) BY <3>1 DEF StartTransfer
      <4>2. k \in Kind BY DEF Kind, Upload, Copying
      <4> QED BY <2>5, <4>1, <4>2
    <3>2. CASE ~ StartTransfer
      BY <2>3, <2>11, <3>2 DEF Resolve, Overwrite, BackupMade, BackupFails, OperationDone,
         OperationFails, DeleteBackup, RestoreBackup, StrayWrites, StrayEnds, transferVars, rowVars
    <3> QED BY <3>1, <3>2
  <2>12. CASE Elsewhere BY <2>5, <2>12 DEF Elsewhere
  <2>13. CASE UNCHANGED allVars BY <2>3, <2>13 DEF allVars, transferVars, rowVars
  <2>14. ASSUME NEW u \in Transfer, Carry(u) PROVE FALSE
    BY <2>6, <2>7, <2>8, <2>9, <2>14 DEF Carry
  <2> QED BY <1>1, <2>10, <2>11, <2>12, <2>13, <2>14 DEF ConflictNext
<1>2. TransferInv /\ [ConflictNext]_allVars =>
        [\A t \in Transfer :
           row[t] \in Ended /\ row'[t] \in Active =>
             row[t] = "cancelled" \/ (row[t] = "completed" /\ kind[t] = "modalCopy")]_transferVars
  BY <1>1
<1> QED BY <1>2, TransferAccounts, PTL DEF ConflictSpec, OnlyCrossedRowsRevive

-----------------------------------------------------------------------------
(* Overwrites. *)

\* While files of one host are concerned no transfer is started, and at every step the
\* old file or a complete new one is under one of the two names, as long as no cp that
\* was left behind writes; there is none before the operation's call was over.
Astray == stray \in {"writing", "cut"}

Overwriting ==
  op \in Here =>
    /\ carrier = NoTransfer
    /\ step \in {"idle", "renaming"} => target = "old"
    /\ step \in {"operating", "restoring"} => backup = "old"
    /\ step \in {"idle", "renaming", "operating"} => stray = "none"
    /\ step = "deleting" => target # "old"
    /\ ~ Astray => Kept /\ (step = "deleting" => target = "new")

ConflictInv == ConflictTypes /\ TransferInv /\ Overwriting

\* What a step of a transfer does to the files of an overwrite.
LEMMA CarriedFiles ==
  ASSUME ConflictInv, NEW t \in Transfer, Carry(t)
  PROVE  ConflictTypes' /\ Overwriting'
<1>1. /\ TransferTypes'
      /\ step \in {"idle", "renaming", "operating", "deleting", "restoring", "done"}
      /\ op \in Op /\ carrier \in Transfer \cup {NoTransfer}
      /\ target \in Content /\ backup \in {"none", "old"}
      /\ stray \in {"none", "waiting", "writing", "cut"}
  <2>1. ConflictNext BY DEF ConflictNext
  <2>2. TransferInv' BY <2>1, TransferKeeps DEF ConflictInv
  <2> QED BY <2>2 DEF ConflictInv, ConflictTypes, TransferInv
<1>2. UNCHANGED <<op, carrier, backup, stray>>
  BY DEF Carry, Written, Answered, conflictVars
<1>3. /\ step' \in {"idle", "renaming", "operating", "deleting", "restoring", "done"}
      /\ t # carrier => step' = step
  BY <1>1 DEF Carry, Written, Answered, conflictVars
<1>4. target' \in Content /\ (t # carrier => target' = target)
  <2>1. CASE \E contents \in SUBSET Content : Written(t, contents) BY <1>1, <2>1 DEF Written
  <2>2. CASE target' = target BY <1>1, <2>2
  <2>3. \/ target' = target
        \/ \E contents \in SUBSET Content : Written(t, contents)
    <3>1. {"partial"} \in SUBSET Content /\ {"new"} \in SUBSET Content
          /\ {target, "partial"} \in SUBSET Content /\ {target} \in SUBSET Content
          BY <1>1 DEF Content
    <3> QED BY <3>1 DEF Carry, Answered, conflictVars
  <2> QED BY <2>1, <2>2, <2>3
<1>5. op \in Here => t # carrier BY NoTransferAssumption DEF ConflictInv, Overwriting
<1> QED BY <1>1, <1>2, <1>3, <1>4, <1>5 DEF ConflictInv, ConflictTypes, Overwriting, Astray, Kept

\* What resolveConflict does by itself, with every call failing or not.
LEMMA ResolutionKeeps ==
  ASSUME ConflictInv, Resolve PROVE ConflictTypes' /\ Overwriting'
<1>1. /\ TransferTypes'
      /\ step \in {"idle", "renaming", "operating", "deleting", "restoring", "done"}
      /\ op \in Op /\ carrier \in Transfer \cup {NoTransfer}
      /\ target \in Content /\ backup \in {"none", "old"}
      /\ stray \in {"none", "waiting", "writing", "cut"}
  <2>1. ConflictNext BY DEF ConflictNext
  <2>2. TransferInv' BY <2>1, TransferKeeps DEF ConflictInv
  <2> QED BY <2>2 DEF ConflictInv, ConflictTypes, TransferInv
<1>2. Overwriting BY DEF ConflictInv
<1>3. CASE Overwrite
  BY <1>1, <1>2, <1>3 DEF Overwrite, ConflictTypes, Overwriting, Astray, Kept
<1>4. CASE BackupMade
  BY <1>1, <1>2, <1>4 DEF BackupMade, ConflictTypes, Overwriting, Astray, Kept, Content
<1>5. CASE BackupFails
  BY <1>1, <1>2, <1>5 DEF BackupFails, ConflictTypes, Overwriting, Astray, Kept, Content
<1>6. CASE OperationDone
  BY <1>1, <1>2, <1>6 DEF OperationDone, LeftBehind, ConflictTypes, Overwriting, Astray, Kept, Content
<1>7. CASE OperationFails
  BY <1>1, <1>2, <1>7 DEF OperationFails, LeftBehind, ConflictTypes, Overwriting, Astray, Kept, Content
<1>8. CASE StartTransfer
  <2>1. op \notin Here BY <1>8 DEF StartTransfer, Here
  <2> QED BY <1>1, <1>8, <2>1 DEF StartTransfer, ConflictTypes, Overwriting
<1>9. CASE DeleteBackup
  BY <1>1, <1>2, <1>9 DEF DeleteBackup, ConflictTypes, Overwriting, Astray, Kept, Content
<1>10. CASE RestoreBackup
  BY <1>1, <1>2, <1>10 DEF RestoreBackup, ConflictTypes, Overwriting, Astray, Kept, Content
<1>11. CASE StrayWrites
  BY <1>1, <1>2, <1>11 DEF StrayWrites, ConflictTypes, Overwriting, Astray, Kept, Content
<1>12. CASE StrayEnds
  BY <1>1, <1>2, <1>12 DEF StrayEnds, ConflictTypes, Overwriting, Astray, Kept, Content
<1> QED BY <1>3, <1>4, <1>5, <1>6, <1>7, <1>8, <1>9, <1>10, <1>11, <1>12 DEF Resolve

\* Types, accounts of the transfers and the invariant of overwrites within a host hold together.
THEOREM ConflictsKeepTypes == ConflictSpec => []ConflictInv
<1>1. ConflictInit => ConflictInv
  <2> SUFFICES ASSUME ConflictInit PROVE ConflictInv OBVIOUS
  <2>1. TransferInv BY TransfersStart DEF ConflictInit
  <2> QED BY <2>1 DEF ConflictInit, ConflictInv, ConflictTypes, Overwriting, Astray, Kept, TransferInv, Content
<1>2. ConflictInv /\ [ConflictNext]_allVars => ConflictInv'
  <2> SUFFICES ASSUME ConflictInv, [ConflictNext]_allVars PROVE ConflictInv' OBVIOUS
  <2>1. TransferInv' BY TransferKeeps DEF ConflictInv
  <2>2. CASE Resolve BY <2>1, <2>2, ResolutionKeeps DEF ConflictInv
  <2>3. ASSUME NEW t \in Transfer, Carry(t) PROVE ConflictInv'
    BY <2>1, <2>3, CarriedFiles DEF ConflictInv
  <2>4. CASE UNCHANGED conflictVars
    BY <2>1, <2>4 DEF ConflictInv, ConflictTypes, TransferInv, Overwriting, Astray, Kept, conflictVars
  <2> QED BY <2>2, <2>3, <2>4 DEF ConflictNext, Elsewhere, allVars
<1> QED BY <1>1, <1>2, PTL DEF ConflictSpec

\* An overwrite within a host never loses both files, whichever call fails or times out and
\* is done (FileManager.tsx:451-522).
THEOREM OverwritesLoseNothing == ConflictSpec => []OverwritesHereAreSafe
<1>1. ConflictInv => OverwritesHereAreSafe BY DEF ConflictInv, Overwriting, Astray, OverwritesHereAreSafe
<1> QED BY <1>1, ConflictsKeepTypes, PTL

===============================================================================
