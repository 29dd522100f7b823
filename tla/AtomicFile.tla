----------------------------- MODULE AtomicFile -----------------------------
(***************************************************************************)
(* What the writers of a small JSON store promise their callers: the file   *)
(* is a set of records that every call reads or edits in one step, a call   *)
(* that answers "ok" has had its effect, and what such an edit has written  *)
(* is what a crash leaves.  An edit that was not answered, or was answered  *)
(* with an error, may have happened or not.                                *)
(***************************************************************************)
CONSTANTS
  Caller,    \* the calls that may be under way at a time
  Item,      \* ids of records
  Corrupt    \* the contents of a file that does not parse

VARIABLES
  contents,  \* what a call reads
  stable,    \* what a crash may leave
  request,   \* what each caller has asked for, and whether it has happened
  reply      \* the last answer each caller got

vars == <<contents, stable, request, reply>>

Reads == {"list"}
Edits == {"save", "delete", "restore"}

\* What a caller asks for: a save and a delete name one record, a restore any
\* number of records.
Requests ==
  [op : Reads, items : {{}}]
    \cup [op : {"save", "delete"}, items : {{i} : i \in Item}]
    \cup [op : {"restore"}, items : SUBSET Item \ {{}}]

\* The records an edit leaves: saves and restores add records or replace them.
Edited(op, items, records) ==
  IF op = "delete" THEN records \ items ELSE records \cup items

Idle == [phase |-> "idle", op |-> "list", items |-> {}]
NoReply == [status |-> "none", seen |-> {}]
Failed == [status |-> "error", seen |-> {}]
Done(seen) == [status |-> "ok", seen |-> seen]

Init ==
  /\ contents \in {records : records \in SUBSET Item} \cup {Corrupt}
  /\ stable = {contents}
  /\ request = [c \in Caller |-> Idle]
  /\ reply = [c \in Caller |-> NoReply]

Ask(c) ==
  /\ request[c].phase = "idle"
  /\ \E r \in Requests :
       request' = [request EXCEPT ![c] = [phase |-> "pending", op |-> r.op, items |-> r.items]]
  /\ reply' = [reply EXCEPT ![c] = NoReply]
  /\ UNCHANGED <<contents, stable>>

Answer(c, answer) ==
  /\ request' = [request EXCEPT ![c] = Idle]
  /\ reply' = [reply EXCEPT ![c] = answer]

Read(c) ==
  /\ request[c].phase = "pending" /\ request[c].op \in Reads
  /\ contents # Corrupt
  /\ Answer(c, Done(contents))
  /\ UNCHANGED <<contents, stable>>

\* The edit happens, on the contents of this very moment.
Apply(c) ==
  /\ request[c].phase = "pending" /\ request[c].op \in Edits
  /\ contents # Corrupt
  /\ contents' = Edited(request[c].op, request[c].items, contents)
  /\ stable' = stable \cup {contents'}
  /\ request' = [request EXCEPT ![c].phase = "applied"]
  /\ UNCHANGED reply

\* The answer "ok" vouches that no crash takes the edit back.
Succeed(c) ==
  /\ request[c].phase = "applied"
  /\ stable' = {contents}
  /\ Answer(c, Done({}))
  /\ UNCHANGED contents

Fail(c) ==
  /\ request[c].phase # "idle"
  /\ Answer(c, Failed)
  /\ UNCHANGED <<contents, stable>>

Crash ==
  /\ contents' \in stable
  /\ stable' = {contents'}
  /\ request' = [c \in Caller |-> Idle]
  /\ reply' = [c \in Caller |-> NoReply]

Next ==
  \/ \E c \in Caller : Ask(c) \/ Read(c) \/ Apply(c) \/ Succeed(c) \/ Fail(c)
  \/ Crash

Spec == Init /\ [][Next]_vars
=============================================================================
