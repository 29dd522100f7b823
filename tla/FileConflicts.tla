----------------------------- MODULE FileConflicts -----------------------------
(* The file manager overwrites a file that is in the way of a move, a copy or   *)
(* a transfer from another host (resolveConflict, FileManager.tsx): it renames  *)
(* the file to a backup, does the operation, and deletes or restores the backup *)
(* by how the operation's call ended.  What the call of a transfer answers is   *)
(* only that its task was spawned (Transfers).                                  *)
EXTENDS Transfers

VARIABLES step,     \* where the resolution is
          op,       \* what it does
          carrier,  \* the transfer that it started, if any
          target,   \* what is under the file's name
          backup,   \* what is under the backup's name
          stray     \* a cp that the host goes on with after its call was over

conflictVars == <<step, op, carrier, target, backup, stray>>
allVars      == <<transferVars, conflictVars>>

Here    == {"move", "copy"}                 \* within one host
Op      == Here \cup {"transfer"}
Content == {"none", "old", "partial", "new"}
NoTransfer == "no transfer"

ASSUME NoTransferAssumption == NoTransfer \notin Transfer

ConflictTypes ==
  /\ TransferTypes
  /\ step \in {"idle", "renaming", "operating", "deleting", "restoring", "done"}
  /\ op \in Op /\ carrier \in Transfer \cup {NoTransfer}
  /\ target \in Content /\ backup \in {"none", "old"}
  /\ stray \in {"none", "waiting", "writing", "cut"}

ConflictInit ==
  /\ TransferInit
  /\ step = "idle" /\ op \in Op /\ carrier = NoTransfer
  /\ target = "old" /\ backup = "none" /\ stray = "none"

-------------------------------------------------------------------------------
(* The existing file is renamed; an error ends the resolution, even one that   *)
(* came after the file was renamed.                                             *)
Overwrite ==
  /\ step = "idle" /\ step' = "renaming"
  /\ UNCHANGED <<transferVars, op, carrier, target, backup, stray>>

BackupMade ==
  /\ step = "renaming" /\ step' = "operating"
  /\ target' = "none" /\ backup' = "old"
  /\ UNCHANGED <<transferVars, op, carrier, stray>>

BackupFails ==
  /\ step = "renaming" /\ step' = "done"
  /\ \/ UNCHANGED <<target, backup>>
     \/ target' = "none" /\ backup' = "old"
  /\ UNCHANGED <<transferVars, op, carrier, stray>>

(* A copy on a remote host is tried with cp first: when its answer takes ten    *)
(* seconds, or its channel ends, SFTP is tried instead and the cp is not ended.  *)
LeftBehind == stray' \in (IF op = "copy" THEN {"none", "waiting"} ELSE {"none"})

(* A variant of OperationFails after which the backup is deleted all the same. *)
OperationFailsUnnoticed ==
  /\ step = "operating" /\ op \in Here
  /\ step' = "deleting"
  /\ target' \in {"none", "new"} \cup (IF op = "copy" THEN {"partial"} ELSE {})
  /\ LeftBehind
  /\ UNCHANGED <<transferVars, op, carrier, backup>>

(* A move or a copy within the host: the answer comes when it is done; a copy  *)
(* that fails may leave a part, and a call that timed out may have been done.   *)
OperationDone ==
  /\ step = "operating" /\ op \in Here
  /\ step' = "deleting" /\ target' = "new"
  /\ LeftBehind
  /\ UNCHANGED <<transferVars, op, carrier, backup>>

OperationFails ==
  /\ step = "operating" /\ op \in Here
  /\ step' = "restoring"
  /\ target' \in {"none", "new"} \cup (IF op = "copy" THEN {"partial"} ELSE {})
  /\ LeftBehind
  /\ UNCHANGED <<transferVars, op, carrier, backup>>

(* From another host: a transfer is started and its command called.            *)
StartTransfer ==
  /\ step = "operating" /\ op = "transfer" /\ carrier = NoTransfer
  /\ \E t \in Transfer, k \in {"put", "get", "copy"} : Start(t, k) /\ carrier' = t
  /\ UNCHANGED <<step, op, target, backup, stray>>

(* The backup is deleted, or not: an error of this call is dropped.            *)
DeleteBackup ==
  /\ step = "deleting" /\ step' = "done"
  /\ backup' \in {"none", "old"}
  /\ UNCHANGED <<transferVars, op, carrier, target, stray>>

(* The backup is renamed back, which fails or replaces what is there; an error *)
(* is dropped too.                                                              *)
RestoreBackup ==
  /\ step = "restoring" /\ step' = "done"
  /\ \/ UNCHANGED <<target, backup>>
     \/ target' = "old" /\ backup' = "none"
  /\ UNCHANGED <<transferVars, op, carrier, stray>>

(* A cp that was left behind opens and writes the file whenever the host gets to *)
(* it, over what is there.                                                      *)
StrayWrites ==
  /\ stray \in {"waiting", "writing"} /\ stray' = "writing"
  /\ target' \in {target, "partial"}
  /\ UNCHANGED <<transferVars, step, op, carrier, backup>>

(* It ends with a complete file, with one that a restored backup has replaced,  *)
(* or is cut off.                                                               *)
StrayEnds ==
  /\ stray = "writing"
  /\ \/ target' = "new" /\ stray' = "none"
     \/ target = "old" /\ target' = target /\ stray' = "none"
     \/ target' \in {target, "partial"} /\ stray' = "cut"
  /\ UNCHANGED <<transferVars, step, op, carrier, backup>>

-------------------------------------------------------------------------------
(* Chunks go under the file's name.                                            *)
Written(t, contents) ==
  /\ target' \in (IF t = carrier THEN contents ELSE {target})
  /\ UNCHANGED <<step, op, carrier, backup, stray>>

(* The answer of the command is taken for the end of the operation.            *)
Answered(t) ==
  /\ step' = IF t # carrier THEN step ELSE IF answer[t] = "ok" THEN "deleting" ELSE "restoring"
  /\ UNCHANGED <<op, carrier, target, backup, stray>>

(* A step of a transfer, with what it does to the file and to the resolution.  *)
Carry(t) ==
  \/ Chunk(t) /\ Written(t, {"partial"})
  \/ Finish(t) /\ Written(t, {"new"})
  \/ Break(t) /\ Written(t, IF task[t] = "open" THEN {target, "partial"} ELSE {target})
  \/ HearAnswer(t) /\ Answered(t)
  \/ /\ RunCommand(t) \/ Measure(t) \/ Register(t) \/ Begin(t) \/ Conclude(t) \/ Cancel(t)
        \/ HearEvent(t) \/ CompletedNow(t) \/ CancelAnswered(t) \/ AskCancel(t) \/ RemoveRow(t)
     /\ UNCHANGED conflictVars

Elsewhere == \E t \in Transfer, k \in Kind : Start(t, k) /\ UNCHANGED conflictVars

Resolve == Overwrite \/ BackupMade \/ BackupFails \/ OperationDone \/ OperationFails
             \/ StartTransfer \/ DeleteBackup \/ RestoreBackup \/ StrayWrites \/ StrayEnds

ConflictNext ==
  \/ Resolve \/ Elsewhere
  \/ \E t \in Transfer : Carry(t)
  \/ TogglePanel /\ UNCHANGED conflictVars

ConflictSpec == ConflictInit /\ [][ConflictNext]_allVars /\ Fairness

-------------------------------------------------------------------------------
Kept == target \in {"old", "new"} \/ backup = "old"

(* Overwriting within one host never loses both files: the old one or a        *)
(* complete new one is there whichever call fails, or times out and is done,    *)
(* unless a cp that its call left behind is writing or was cut off meanwhile    *)
(* (commands.rs:4484).                                                          *)
OverwritesHereAreSafe == op \in Here => Kept \/ stray \in {"writing", "cut"}

(* The promise of the comment "Safe Overwrite" (FileManager.tsx:452), for files *)
(* of other hosts too: once the overwrite and its transfer are over, the old or *)
(* a complete new file is there.                                                *)
OverwritesAreSafe ==
  /\ step = "done" /\ stray = "none"
  /\ carrier = NoTransfer \/ \E t \in Transfer : t = carrier /\ task[t] = "over"
  => Kept
===============================================================================
