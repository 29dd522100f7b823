------------------------------ MODULE Transfers ------------------------------
(* File transfers: the rows of the transfer panel (transferSlice.ts), the      *)
(* tasks that the commands sftp_put, sftp_get, sftp_copy_to_server and          *)
(* sftp_download_as_zip spawn, their cancel tokens, and the events and answers  *)
(* between them.  A command answers when its task is spawned; what becomes of   *)
(* the task comes as events, in the order in which they were emitted, while     *)
(* the answers of commands come independently of them.  Transfers do not share  *)
(* anything but the panel.                                                      *)
EXTENDS Naturals, Sequences, FiniteSets

CONSTANTS Transfer,   \* identifiers made by addTransfer
          MaxQueued   \* bound: progress events of a transfer on their way

VARIABLES row,        \* what the panel shows of a transfer
          kind,       \* which command it was started with
          task,       \* where the backend is with it
          result,     \* how its task ended
          token,      \* its entry in AppState.transfers
          events,     \* events emitted and not yet heard
          answer,     \* the answer to the command
          completing, \* timers of completeTransfer that run
          cancelling, \* the panel's cancel of it
          panel,      \* the panel is open
          armed       \* rows that a timer of the panel is about to remove

rowVars      == <<row, completing, cancelling, panel, armed>>
taskVars     == <<kind, task, result, token>>
transferVars == <<rowVars, taskVars, events, answer>>

-------------------------------------------------------------------------------
Upload  == {"put", "putLocal"}
Copying == {"copy", "modalCopy"}
Kind    == Upload \cup Copying \cup {"get", "zip"}
Active  == {"pending", "transferring"}
Ended   == {"completed", "failed", "cancelled"}
Shown   == Active \cup Ended

Task == {"none", "called", "sizing", "spawned", "registered", "open", "finished", "over"}

TransferTypes ==
  /\ row \in [Transfer -> Shown \cup {"absent", "removed"}]
  /\ kind \in [Transfer -> Kind]
  /\ task \in [Transfer -> Task]
  /\ result \in [Transfer -> {"none", "success", "error"}]
  /\ token \in [Transfer -> {"none", "live", "set"}]
  /\ events \in [Transfer -> Seq({"progress", "success", "error"})]
  /\ answer \in [Transfer -> {"none", "ok", "error", "heard"}]
  /\ completing \in [Transfer -> 0 .. 2]
  /\ cancelling \in [Transfer -> {"no", "sent", "answered"}]
  /\ panel \in BOOLEAN /\ armed \subseteq Transfer

TransferInit ==
  /\ row = [t \in Transfer |-> "absent"] /\ kind \in [Transfer -> {"put"}]
  /\ task = [t \in Transfer |-> "none"] /\ result = [t \in Transfer |-> "none"]
  /\ token = [t \in Transfer |-> "none"] /\ events = [t \in Transfer |-> <<>>]
  /\ answer = [t \in Transfer |-> "none"] /\ completing = [t \in Transfer |-> 0]
  /\ cancelling = [t \in Transfer |-> "no"] /\ panel = FALSE /\ armed = {}

-------------------------------------------------------------------------------
(* The store and the panel.                                                    *)

(* What the status bar and the panel do after the rows changed: the first      *)
(* active transfer opens the panel, and the open panel arms a timer for every   *)
(* row that ended; a row that is gone loses its timer, one that became active   *)
(* again keeps it.                                                              *)
Render(rows, open) ==
  LET active(r) == \E t \in Transfer : r[t] \in Active
      shown     == open \/ (active(rows) /\ ~active(row))
  IN /\ row' = rows /\ panel' = shown
     /\ armed' = IF shown
                   THEN {t \in Transfer : \/ rows[t] \in Ended
                                          \/ t \in armed /\ rows[t] \in Active}
                   ELSE {}

Set(t, status) ==
  Render([row EXCEPT ![t] = IF @ \in Shown THEN status ELSE @], panel)

(* addTransfer and the call of the command, in a click or a drop.              *)
Start(t, k) ==
  /\ row[t] = "absent"
  /\ Render([row EXCEPT ![t] = "pending"], panel)
  /\ kind' = [kind EXCEPT ![t] = k] /\ task' = [task EXCEPT ![t] = "called"]
  /\ UNCHANGED <<result, token, events, answer, completing, cancelling>>

(* completeTransfer: the bar is full at once, the status follows in 400 ms.    *)
completeTransfer(t) == completing' = [completing EXCEPT ![t] = @ + 1]

(* The three listeners of useTransferEvents.                                   *)
HearEvent(t) ==
  /\ events[t] # <<>>
  /\ events' = [events EXCEPT ![t] = Tail(@)]
  /\ \/ /\ Head(events[t]) = "progress"
        /\ Set(t, "transferring") /\ UNCHANGED completing
     \/ /\ Head(events[t]) = "error"
        /\ Set(t, "failed") /\ UNCHANGED completing
     \/ /\ Head(events[t]) = "success"
        /\ completeTransfer(t) /\ UNCHANGED <<row, panel, armed>>
  /\ UNCHANGED <<taskVars, answer, cancelling>>

(* A variant of CompletedNow that forgets the guard of the timer.              *)
CompletedNowUnguarded(t) ==
  /\ completing[t] > 0
  /\ completing' = [completing EXCEPT ![t] = @ - 1]
  /\ Set(t, "completed")
  /\ UNCHANGED <<taskVars, events, answer, cancelling>>

(* The timer of completeTransfer: a row that is not transferring is left.      *)
CompletedNow(t) ==
  /\ completing[t] > 0
  /\ completing' = [completing EXCEPT ![t] = @ - 1]
  /\ IF row[t] = "transferring" THEN Set(t, "completed") ELSE UNCHANGED <<row, panel, armed>>
  /\ UNCHANGED <<taskVars, events, answer, cancelling>>

(* The answer of the command: an error fails the row; only the copy dialog     *)
(* takes the answer for the end of the transfer.                                *)
HearAnswer(t) ==
  /\ answer[t] \in {"ok", "error"}
  /\ answer' = [answer EXCEPT ![t] = "heard"]
  /\ \/ /\ answer[t] = "error"
        /\ Set(t, "failed") /\ UNCHANGED completing
     \/ /\ answer[t] = "ok" /\ kind[t] = "modalCopy"
        /\ completeTransfer(t) /\ UNCHANGED <<row, panel, armed>>
     \/ /\ answer[t] = "ok" /\ kind[t] # "modalCopy"
        /\ UNCHANGED <<row, panel, armed, completing>>
  /\ UNCHANGED <<taskVars, events, cancelling>>

(* The panel's button, disabled while a cancel of the transfer is on its way.  *)
AskCancel(t) ==
  /\ panel /\ row[t] \in Active /\ cancelling[t] = "no"
  /\ cancelling' = [cancelling EXCEPT ![t] = "sent"]
  /\ UNCHANGED <<row, completing, panel, armed, taskVars, events, answer>>

CancelAnswered(t) ==
  /\ cancelling[t] = "answered"
  /\ cancelling' = [cancelling EXCEPT ![t] = "no"]
  /\ Set(t, "cancelled")
  /\ UNCHANGED <<completing, taskVars, events, answer>>

(* The user opens the panel, or closes it: its timers go with it.              *)
TogglePanel ==
  /\ \E t \in Transfer : row[t] \in Shown
  /\ Render(row, ~panel)
  /\ UNCHANGED <<completing, cancelling, taskVars, events, answer>>

(* Five seconds after it ended a row goes, whatever it is by now.              *)
RemoveRow(t) ==
  /\ t \in armed
  /\ Render([row EXCEPT ![t] = "removed"], panel)
  /\ UNCHANGED <<completing, cancelling, taskVars, events, answer>>

-------------------------------------------------------------------------------
(* The backend.                                                                *)

Backend(t, stage) ==
  /\ task' = [task EXCEPT ![t] = stage]
  /\ UNCHANGED <<kind, rowVars>>

Emit(t, es) == events' = [events EXCEPT ![t] = @ \o es]
Mark(t, value) == token' = [token EXCEPT ![t] = value]
End(t, how) == result' = [result EXCEPT ![t] = how]

(* The command: uploads and archives register their token before the task is   *)
(* spawned, and an archive measures its files first.                            *)
RunCommand(t) ==
  /\ task[t] = "called"
  /\ IF kind[t] \in Upload \cup {"zip"} THEN Mark(t, "live") ELSE UNCHANGED token
  /\ IF kind[t] = "zip"
       THEN Backend(t, "sizing") /\ UNCHANGED answer
       ELSE Backend(t, "spawned") /\ answer' = [answer EXCEPT ![t] = "ok"]
  /\ UNCHANGED <<result, events>>

(* The archive's session may be gone: the command fails and its token stays.   *)
Measure(t) ==
  /\ task[t] = "sizing"
  /\ \/ /\ Backend(t, "spawned") /\ answer' = [answer EXCEPT ![t] = "ok"]
        /\ UNCHANGED result
     \/ /\ Backend(t, "over") /\ answer' = [answer EXCEPT ![t] = "error"]
        /\ End(t, "error")
  /\ UNCHANGED <<token, events>>

(* The task of a copy registers its token first.                               *)
Register(t) ==
  /\ task[t] = "spawned" /\ kind[t] \in Copying
  /\ Backend(t, "registered") /\ Mark(t, "live")
  /\ UNCHANGED <<result, events, answer>>

Ready(t) == task[t] = IF kind[t] \in Copying THEN "registered" ELSE "spawned"

(* Sessions and sizes are there: the task reports that it starts, a download   *)
(* after it has registered its token.                                           *)
Begin(t) ==
  /\ Ready(t) /\ kind[t] # "putLocal"
  /\ Backend(t, "open")
  /\ IF kind[t] = "get" THEN Mark(t, "live") ELSE UNCHANGED token
  /\ Emit(t, <<"progress">>)
  /\ UNCHANGED <<result, answer>>

(* A chunk was written, and reported if the last report is old enough.         *)
Chunk(t) ==
  /\ task[t] = "open" /\ token[t] # "set"
  /\ Backend(t, "open")
  /\ Len(events[t]) < MaxQueued
  /\ Emit(t, <<"progress">>)
  /\ UNCHANGED <<result, token, answer>>

(* The task fails: no session, no file, an error while it writes; or it reads  *)
(* that it is cancelled, before its next chunk.                                 *)
Break(t) ==
  /\ Ready(t) \/ task[t] = "open"
  /\ Backend(t, "finished") /\ End(t, "error")
  /\ UNCHANGED <<token, events, answer>>

(* Everything is written; a token set after the last chunk is not read.  A     *)
(* copy on this machine reports nothing and reads no token.  An archive whose   *)
(* channel closes without an exit status counts as written too.                 *)
Finish(t) ==
  /\ task[t] = "open" \/ (Ready(t) /\ kind[t] = "putLocal")
  /\ Backend(t, "finished") /\ End(t, "success")
  /\ UNCHANGED <<token, events, answer>>

(* A variant of Conclude that reports the last progress after the success.     *)
ConcludeLate(t) ==
  /\ task[t] = "finished"
  /\ Backend(t, "over") /\ Mark(t, "none")
  /\ Emit(t, IF result[t] = "error" THEN <<"error">>
             ELSE IF kind[t] \in Copying \cup {"zip"} THEN <<"success", "progress">>
             ELSE <<"success">>)
  /\ UNCHANGED <<result, answer>>

(* A variant of Conclude that says nothing of copies that end before success,  *)
(* as if transfer-cancelled, which nobody listens to, were the only event.      *)
ConcludeSilently(t) ==
  /\ task[t] = "finished"
  /\ Backend(t, "over") /\ Mark(t, "none")
  /\ Emit(t, IF result[t] = "error" THEN IF kind[t] \in Copying THEN <<>> ELSE <<"error">>
             ELSE <<"progress", "success">>)
  /\ UNCHANGED <<result, answer>>

(* The end of the task: its token goes, then the last events are emitted.      *)
Conclude(t) ==
  /\ task[t] = "finished"
  /\ Backend(t, "over") /\ Mark(t, "none")
  /\ Emit(t, IF result[t] = "error" THEN <<"error">>
             ELSE IF kind[t] \in Copying \cup {"zip"} THEN <<"progress", "success">>
             ELSE <<"success">>)
  /\ UNCHANGED <<result, answer>>

(* sftp_cancel_transfer: a transfer without a token is none of its business.   *)
Cancel(t) ==
  /\ cancelling[t] = "sent"
  /\ cancelling' = [cancelling EXCEPT ![t] = "answered"]
  /\ IF token[t] = "live" THEN Mark(t, "set") ELSE UNCHANGED token
  /\ UNCHANGED <<row, completing, panel, armed, kind, task, result, events, answer>>

-------------------------------------------------------------------------------
Hear(t) == HearEvent(t) \/ CompletedNow(t) \/ HearAnswer(t) \/ CancelAnswered(t)

Work(t) == RunCommand(t) \/ Measure(t) \/ Register(t) \/ Begin(t) \/ Finish(t) \/ Conclude(t)

(* Events and answers are delivered, timers fire, and a task gets on or fails: *)
(* the calls of the SFTP session have a timeout.                                *)
Fairness == \A t \in Transfer : /\ WF_transferVars(Hear(t)) /\ WF_transferVars(Cancel(t))
                                /\ WF_transferVars(Work(t))

-------------------------------------------------------------------------------
(* Nothing is on its way to the row of a transfer whose task is over.          *)
Quiet(t) == /\ task[t] = "over" /\ events[t] = <<>> /\ answer[t] = "heard"
            /\ completing[t] = 0 /\ cancelling[t] = "no"

(* Once everything was heard, the row of a transfer shows how it ended: a      *)
(* success as completed, unless it was cancelled too late, everything else as   *)
(* failed or cancelled, never as completed and never as still running, whatever *)
(* timers, answers and events crossed.  Uploads to this machine are left out:   *)
(* they report no progress, so their row never becomes transferring and the     *)
(* timer leaves it pending (transferSlice.ts:101, commands.rs:5505).            *)
OutcomesAreShown ==
  \A t \in Transfer :
    Quiet(t) /\ row[t] # "removed" /\ kind[t] # "putLocal" =>
      row[t] \in (IF result[t] = "success" THEN {"completed"} ELSE {"failed"}) \cup {"cancelled"}

(* A row that ended only becomes active again when the cancel crossed a report *)
(* of progress, or when the copy dialog had called it completed in advance: the *)
(* last event of a task is its end (commands.rs:5542, 5663, 6111).              *)
OnlyCrossedRowsRevive ==
  [][\A t \in Transfer :
       row[t] \in Ended /\ row'[t] \in Active =>
         row[t] = "cancelled" \/ (row[t] = "completed" /\ kind[t] = "modalCopy")]_transferVars

(* Every transfer that reports its progress is ended, or gone, for good in the *)
(* end: nothing that was cancelled, revived or called completed too early stays *)
(* a running row.                                                               *)
TransfersEnd ==
  \A t \in Transfer :
    <>[](row[t] \in Ended \cup {"absent", "removed"} \/ kind[t] = "putLocal")
===============================================================================
