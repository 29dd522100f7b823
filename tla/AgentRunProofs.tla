---------------------------- MODULE AgentRunProofs ----------------------------
(***************************************************************************)
(* Proofs about AgentRun for any set of runs and commands and any bounds.  *)
(* The inductive invariant says where each run is when a variable has the  *)
(* value it has, and follows what the user said from the card through the  *)
(* answer and the reply to what the run is let do.                         *)
(***************************************************************************)
EXTENDS AgentRun, SequenceTheorems, TLAPS

\* A run is spawned once, and has a flag as long as its loop is alive.
Stages ==
  \A r \in Run : /\ submitted[r] \in {"no", "collecting"} => phase[r] = "none"
                 /\ phase[r] \in Alive <=> flag[r] # "none"

\* A tool is at hand only while calls are left.  A run that started a tool after
\* its flag was set does not get to the next one.
Works ==
  \A r \in Run :
    /\ phase[r] \in {"deciding", "asked", "running"} => left[r] > 0
    /\ late[r] = 0 \/ late[r] = 1
    /\ late[r] = 1 => \/ phase[r] = "over"
                      \/ flag[r] = "set" /\ phase[r] \in {"running", "tools", "calling"}

\* What a run may skip was approved since its last command, and the prompt it waits
\* on is its last one, is about the tool at hand and has the reply the user gave.
Backed(r) ==
  /\ since[r] <= Len(asked[r])
  /\ skip[r] => \E i \in since[r] + 1 .. Len(asked[r]) : asked[r][i] = "ask_user" /\ SaidYes(r, i)
  /\ phase[r] = "asked" => /\ since[r] < Len(asked[r]) /\ asked[r][Len(asked[r])] = tool[r]
                           /\ tool[r] \in Command => ~skip[r]
  /\ reply[r] # "none" => Waiting(r)
  /\ reply[r] = "yes" => Len(asked[r]) > 0 /\ SaidYes(r, Len(asked[r]))

Approvals == \A r \in Run : Backed(r)

\* What is on its way to the backend, and what is there, the user has said.
Words ==
  /\ \A a \in answers : /\ a.prompt \in Prompts(a.run)
                        /\ a.proceed => SaidYes(a.run, a.prompt)
                        /\ a.always => a.proceed /\ asked[a.run][a.prompt] \in Command
  /\ \A c \in whitelist : \E s \in Run : \E i \in Prompts(s) : asked[s][i] = c /\ SaidYes(s, i)

\* Events on their way are of prompts nobody has seen, each once, or the end, behind
\* which nothing comes.
InMail(r) ==
  /\ \A k \in 1 .. Len(events[r]) :
       IF events[r][k] = 0 THEN k = Len(events[r]) /\ phase[r] = "over"
       ELSE /\ events[r][k] <= Len(asked[r]) /\ cards[r][events[r][k]] = "unseen"
            /\ \A j \in 1 .. Len(events[r]) : events[r][j] = events[r][k] => j = k
  /\ missed[r] => phase[r] = "over" /\ events[r] = <<>>

Mail == \A r \in Run : InMail(r)

\* The end of a run that is shown as running is on its way, or was missed.
Ends ==
  \A r \in Run : active = r /\ phase[r] = "over" =>
    missed[r] \/ \E k \in 1 .. Len(events[r]) : events[r][k] = 0

Inv == TypeOK /\ Stages /\ Works /\ Approvals /\ Words /\ Mail /\ Ends
-----------------------------------------------------------------------------
(* Sequences *)

\* What is appended comes last and leaves the rest where it was.
LEMMA AppendFacts ==
    ASSUME NEW S, NEW q \in Seq(S), NEW x \in S
    PROVE  /\ Append(q, x) \in Seq(S)
           /\ Len(q) \in Nat /\ Len(Append(q, x)) = Len(q) + 1
           /\ \A i \in 1 .. Len(q) : Append(q, x)[i] = q[i]
           /\ Append(q, x)[Len(q) + 1] = x
  BY AppendProperties, LenProperties

\* What leaves is the head, the rest moves one place up.
LEMMA TailFacts ==
    ASSUME NEW S, NEW q \in Seq(S), q # <<>>
    PROVE  /\ Tail(q) \in Seq(S) /\ Head(q) = q[1] /\ Head(q) \in S
           /\ Len(q) \in Nat \ {0} /\ Len(Tail(q)) = Len(q) - 1
           /\ \A i \in 1 .. (Len(q) - 1) : Tail(q)[i] = q[i + 1]
  <1>1. Len(q) \in Nat \ {0}
    BY LenProperties, EmptySeq
  <1>2. Head(q) = q[1]
    OBVIOUS
  <1>. QED
    BY <1>1, <1>2, HeadTailProperties

\* A place of a sequence set to another element.
LEMMA ExceptFacts ==
    ASSUME NEW S, NEW q \in Seq(S), NEW x \in S, NEW i \in 1 .. Len(q)
    PROVE  /\ [q EXCEPT ![i] = x] \in Seq(S) /\ Len([q EXCEPT ![i] = x]) = Len(q)
           /\ [q EXCEPT ![i] = x][i] = x
           /\ \A j \in 1 .. Len(q) : j # i => [q EXCEPT ![i] = x][j] = q[j]
  BY ExceptSeq

-----------------------------------------------------------------------------
(* What a step leaves as it was *)

\* The variables of the loop, which most of its steps change.
Counted == /\ rounds \in [Run -> Nat] /\ left \in [Run -> Nat] /\ tool \in [Run -> Tool]
           /\ skip \in [Run -> BOOLEAN] /\ reply \in [Run -> {"none", "yes", "no"}]
           /\ since \in [Run -> Nat] /\ late \in [Run -> Nat]

\* What the type invariant says of them, one by one.
LEMMA Types ==
    ASSUME Inv
    PROVE  /\ Counted /\ phase \in [Run -> Phase] /\ flag \in [Run -> {"none", "clear", "set"}]
           /\ \A s \in Run : reply[s] # "none" => Waiting(s)
  BY DEF Inv, TypeOK, Counted, Approvals, Backed

\* What was said of the prompts there are is still said.
Remembered == /\ asked' = asked
              /\ \A s \in Run : \A i \in Prompts(s) : SaidYes(s, i) => SaidYes(s, i)'

\* What a run may skip stays approved if nothing is asked, answered or let go.
LEMMA ApprovalsStay ==
    ASSUME Inv, Remembered,
           \A s \in Run : /\ since'[s] = since[s] /\ (skip'[s] => skip[s])
                          /\ phase'[s] = "asked" => phase[s] = "asked" /\ tool'[s] = tool[s]
                          /\ reply'[s] # "none" => reply'[s] = reply[s] /\ Waiting(s)'
    PROVE  Approvals'
  <1> SUFFICES ASSUME NEW s \in Run PROVE Backed(s)'
    BY DEF Approvals
  <1>1. Backed(s) /\ since[s] \in Nat /\ Len(asked[s]) \in Nat
    BY LenProperties DEF Inv, Approvals, TypeOK
  <1>2. /\ asked'[s] = asked[s]
        /\ \A i \in 1 .. Len(asked[s]) : SaidYes(s, i) => SaidYes(s, i)'
    BY DEF Remembered, Prompts
  <1>3. \A i \in since[s] + 1 .. Len(asked[s]) : i \in 1 .. Len(asked[s])
    BY <1>1
  <1>. QED
    BY <1>1, <1>2, <1>3 DEF Backed

\* What is on its way stays said if no answer and no command is added.
LEMMA WordsStay ==
    ASSUME Inv, Remembered, answers' \subseteq answers, whitelist' = whitelist
    PROVE  Words'
  <1>1. \A a \in answers' : a.run \in Run
    BY DEF Inv, TypeOK, Reply
  <1>2. \A s \in Run : Prompts(s)' = Prompts(s)
    BY DEF Remembered, Prompts
  <1>. QED
    BY <1>1, <1>2 DEF Inv, Words, Remembered, Prompts

\* The mail of a run whose prompts and events are left alone.
LEMMA MailStays ==
    ASSUME NEW s \in Run, InMail(s), asked'[s] = asked[s], cards'[s] = cards[s],
           events'[s] = events[s], missed'[s] = missed[s],
           phase'[s] = phase[s] \/ (phase[s] # "over" /\ ~missed[s])
    PROVE  InMail(s)'
  BY DEF InMail

\* A run that goes on without a prompt, an event or a change of its flag.
LEMMA MovesKeep ==
    ASSUME Inv, NEW r \in Run, NEW p \in Alive, phase[r] \in Alive, Loop(r, p),
           ByLoop(r), UNCHANGED <<asked, flag, events>>
    PROVE  /\ Stages' /\ Words' /\ Mail' /\ Ends' /\ Remembered
           /\ Counted' => TypeOK'
  <1>. USE DEF Loop, ByLoop, uiVars
  <1>0. Remembered
    BY DEF Remembered, SaidYes
  <1>1. Stages'
    BY DEF Inv, TypeOK, Stages, Alive
  <1>2. Words'
    BY <1>0, WordsStay
  <1>3. Mail'
    <2> SUFFICES ASSUME NEW s \in Run PROVE InMail(s)'
      BY DEF Mail
    <2>1. phase[r] # "over" /\ ~missed[r]
      BY DEF Inv, Mail, InMail, Alive
    <2>2. phase'[s] = phase[s] \/ s = r
      BY DEF Inv, TypeOK
    <2>3. InMail(s)
      BY DEF Inv, Mail
    <2>. QED
      BY <2>1, <2>2, <2>3, MailStays
  <1>4. Ends'
    BY DEF Inv, TypeOK, Ends, Alive
  <1>5. phase' \in [Run -> Phase]
    BY DEF Inv, TypeOK, Phase
  <1>6. Counted' => TypeOK'
    BY <1>5 DEF Inv, TypeOK, Counted
  <1>. QED
    BY <1>0, <1>1, <1>2, <1>3, <1>4, <1>6

\* The end of a run.
LEMMA EndKeeps ==
    ASSUME Inv, NEW r \in Run, phase[r] \in Alive, End(r)
    PROVE  Inv'
  <1>. USE DEF End, Loop, ByLoop, uiVars
  <1>0. /\ events[r] \in Seq(Nat) /\ Append(events[r], 0) \in Seq(Nat)
        /\ Len(events[r]) \in Nat /\ Len(Append(events[r], 0)) = Len(events[r]) + 1
        /\ \A i \in 1 .. Len(events[r]) : Append(events[r], 0)[i] = events[r][i]
        /\ Append(events[r], 0)[Len(events[r]) + 1] = 0
    BY SMTT(20), AppendFacts DEF Inv, TypeOK
  <1>1. TypeOK'
    BY <1>0 DEF Inv, TypeOK, Phase, Tool
  <1>2. Stages'
    BY DEF Inv, TypeOK, Stages, Alive
  <1>3. Works'
    BY DEF Inv, TypeOK, Works
  <1>4. Approvals'
    BY DEF Inv, TypeOK, Approvals, Backed, Waiting, SaidYes
  <1>5. Words'
    BY DEF Inv, Words, Prompts, SaidYes
  <1>6. Mail'
    <2> SUFFICES ASSUME NEW s \in Run PROVE InMail(s)'
      BY DEF Mail
    <2>1. CASE s # r
      <3>1. events'[s] = events[s] /\ phase'[s] = phase[s] /\ InMail(s)
        BY <2>1 DEF Inv, TypeOK, Mail
      <3>. QED
        BY <3>1, MailStays
    <2>2. CASE s = r
      <3>1. phase[r] # "over" /\ ~missed[r]
        BY DEF Inv, Mail, InMail, Alive
      <3>2. \A k \in 1 .. Len(events[r]) : events[r][k] # 0
        BY <3>1 DEF Inv, Mail, InMail
      <3>3. events'[r] = Append(events[r], 0) /\ phase'[r] = "over"
        BY DEF Inv, TypeOK
      <3>. QED
        BY <1>0, <2>2, <3>1, <3>2, <3>3 DEF Inv, Mail, InMail
    <2>. QED
      BY <2>1, <2>2
  <1>7. Ends'
    BY <1>0 DEF Inv, TypeOK, Ends
  <1>. QED
    BY <1>1, <1>2, <1>3, <1>4, <1>5, <1>6, <1>7 DEF Inv

\* A new prompt: nobody has seen it, and nothing that was said is forgotten.
LEMMA PromptKeeps ==
    ASSUME Inv, NEW r \in Run, NEW topic \in Topic, NEW p \in {"planAsked", "asked"},
           phase[r] \in {"proposing", "deciding"}, Prompt(r, topic, p),
           p = "asked" => /\ phase[r] = "deciding" /\ topic = tool[r]
                          /\ tool[r] \in Command => ~skip[r]
    PROVE  Inv'
  <1>. USE DEF Prompt, Loop
  <1>0. /\ asked[r] \in Seq(Topic) /\ cards[r] \in Seq(Card) /\ events[r] \in Seq(Nat)
        /\ Len(asked[r]) \in Nat /\ Len(cards[r]) = Len(asked[r]) /\ Len(events[r]) \in Nat
        /\ "unseen" \in Card /\ Len(asked[r]) + 1 \in Nat
    BY LenProperties DEF Inv, TypeOK, Card
  <1>1. /\ asked'[r] \in Seq(Topic) /\ Len(asked'[r]) = Len(asked[r]) + 1
        /\ \A i \in 1 .. Len(asked[r]) : asked'[r][i] = asked[r][i]
        /\ asked'[r][Len(asked[r]) + 1] = topic
    <2>1. asked'[r] = Append(asked[r], topic)
      BY DEF Inv, TypeOK
    <2>. QED
      BY <1>0, <2>1, AppendFacts
  <1>2. /\ cards'[r] \in Seq(Card) /\ Len(cards'[r]) = Len(asked[r]) + 1
        /\ \A i \in 1 .. Len(asked[r]) : cards'[r][i] = cards[r][i]
        /\ cards'[r][Len(asked[r]) + 1] = "unseen"
    <2>1. cards'[r] = Append(cards[r], "unseen")
      BY DEF Inv, TypeOK
    <2>. QED
      BY <1>0, <2>1, AppendFacts
  <1>3. /\ events'[r] \in Seq(Nat) /\ Len(events'[r]) = Len(events[r]) + 1
        /\ \A i \in 1 .. Len(events[r]) : events'[r][i] = events[r][i]
        /\ events'[r][Len(events[r]) + 1] = Len(asked[r]) + 1
    <2>1. events'[r] = Append(events[r], Len(asked[r]) + 1)
      BY DEF Inv, TypeOK
    <2>. QED
      BY <1>0, <2>1, AppendFacts
  <1>4. \A s \in Run : s # r => asked'[s] = asked[s] /\ cards'[s] = cards[s]
                                /\ events'[s] = events[s] /\ phase'[s] = phase[s]
    BY DEF Inv, TypeOK
  <1>5. phase'[r] = p /\ phase[r] # "over" /\ ~missed[r] /\ late[r] = 0 /\ reply[r] = "none"
    <2>1. phase'[r] = p
      BY DEF Inv, TypeOK
    <2>2. phase[r] # "over" /\ ~missed[r]
      BY DEF Inv, Mail, InMail
    <2>3. late[r] = 0
      BY DEF Inv, Works
    <2>4. reply[r] = "none"
      BY DEF Inv, Approvals, Backed, Waiting
    <2>. QED
      BY <2>1, <2>2, <2>3, <2>4
  <1>6. \A s \in Run : \A i \in Prompts(s) :
          i \in Prompts(s)' /\ asked'[s][i] = asked[s][i] /\ (SaidYes(s, i) => SaidYes(s, i)')
    BY <1>0, <1>1, <1>2, <1>4 DEF SaidYes, Prompts
  <1>7. TypeOK'
    <2>1. asked' \in [Run -> Seq(Topic)]
      BY <1>1 DEF Inv, TypeOK
    <2>2. cards' \in [Run -> Seq(Card)]
      BY <1>2 DEF Inv, TypeOK
    <2>3. events' \in [Run -> Seq(Nat)]
      BY <1>3 DEF Inv, TypeOK
    <2>4. \A s \in Run : Len(cards'[s]) = Len(asked'[s])
      BY <1>1, <1>2, <1>4 DEF Inv, TypeOK
    <2>5. phase' \in [Run -> Phase]
      BY DEF Inv, TypeOK, Phase, Alive
    <2>. QED
      BY <2>1, <2>2, <2>3, <2>4, <2>5 DEF Inv, TypeOK
  <1>8. Stages'
    BY <1>5 DEF Inv, TypeOK, Stages, Alive
  <1>9. Works'
    BY <1>5 DEF Inv, TypeOK, Works
  <1>10. Approvals'
    <2> SUFFICES ASSUME NEW s \in Run PROVE Backed(s)'
      BY DEF Approvals
    <2>0. Backed(s) /\ since[s] \in Nat /\ since'[s] = since[s] /\ skip'[s] = skip[s]
      BY DEF Inv, TypeOK, Approvals
    <2>1. CASE s = r
      <3>1. /\ since[r] <= Len(asked[r])
            /\ skip[r] => \E i \in since[r] + 1 .. Len(asked[r]) : asked[r][i] = "ask_user" /\ SaidYes(r, i)
        BY <2>0, <2>1 DEF Backed
      <3>2. /\ since'[r] < Len(asked'[r])
            /\ p = "asked" => asked'[r][Len(asked'[r])] = tool[r]
        BY <1>0, <1>1, <2>0, <2>1, <3>1
      <3>3. ASSUME skip[r]
            PROVE  \E i \in since'[r] + 1 .. Len(asked'[r]) : asked'[r][i] = "ask_user" /\ SaidYes(r, i)'
        <4>1. PICK i \in since[r] + 1 .. Len(asked[r]) : asked[r][i] = "ask_user" /\ SaidYes(r, i)
          BY <3>1, <3>3
        <4>2. i \in 1 .. Len(asked[r]) /\ i \in since'[r] + 1 .. Len(asked'[r])
          BY <1>0, <1>1, <2>0, <2>1
        <4>. QED
          BY <1>1, <1>2, <4>1, <4>2 DEF SaidYes
      <3>. QED
        BY <1>0, <1>5, <2>0, <2>1, <3>2, <3>3 DEF Backed
    <2>2. CASE s # r
      BY <1>4, <2>0, <2>2 DEF Backed, Waiting, SaidYes
    <2>. QED
      BY <2>1, <2>2
  <1>11. Words'
    <2>1. ASSUME NEW a \in answers
          PROVE  /\ a.prompt \in Prompts(a.run)'
                 /\ a.proceed => SaidYes(a.run, a.prompt)'
                 /\ a.always => a.proceed /\ asked'[a.run][a.prompt] \in Command
      <3>1. a.run \in Run /\ a.prompt \in Prompts(a.run)
        BY DEF Inv, TypeOK, Reply, Words
      <3>2. /\ a.prompt \in Prompts(a.run)' /\ asked'[a.run][a.prompt] = asked[a.run][a.prompt]
            /\ SaidYes(a.run, a.prompt) => SaidYes(a.run, a.prompt)'
        BY <1>6, <3>1
      <3>3. /\ a.proceed => SaidYes(a.run, a.prompt)
            /\ a.always => a.proceed /\ asked[a.run][a.prompt] \in Command
        BY DEF Inv, Words
      <3>. QED
        BY <3>2, <3>3
    <2>2. ASSUME NEW c \in whitelist
          PROVE  \E s \in Run : \E i \in Prompts(s)' : asked'[s][i] = c /\ SaidYes(s, i)'
      <3>1. PICK s \in Run : \E i \in Prompts(s) : asked[s][i] = c /\ SaidYes(s, i)
        BY DEF Inv, Words
      <3>2. PICK i \in Prompts(s) : asked[s][i] = c /\ SaidYes(s, i)
        BY <3>1
      <3>3. i \in Prompts(s)' /\ asked'[s][i] = c /\ SaidYes(s, i)'
        BY <1>6, <3>2
      <3>. QED
        BY <3>3
    <2>3. answers' = answers /\ whitelist' = whitelist
      OBVIOUS
    <2>. QED
      BY <2>1, <2>2, <2>3 DEF Words
  <1>12. Mail'
    <2> SUFFICES ASSUME NEW s \in Run PROVE InMail(s)'
      BY DEF Mail
    <2>1. CASE s = r
      <3>1. InMail(r)
        BY DEF Inv, Mail
      <3>2. \A k \in 1 .. Len(events[r]) :
              events[r][k] # 0 /\ events[r][k] <= Len(asked[r]) /\ events[r][k] \in 1 .. Len(asked[r])
        <4> TAKE k \in 1 .. Len(events[r])
        <4>1. events[r][k] \in Nat
          BY <1>0
        <4>. QED
          BY <1>0, <1>5, <3>1, <4>1 DEF InMail
      <3>. QED
        BY SMTT(20), <1>0, <1>1, <1>2, <1>3, <1>5, <2>1, <3>1, <3>2 DEF InMail
    <2>2. CASE s # r
      <3>1. InMail(s)
        BY DEF Inv, Mail
      <3>. QED
        BY <1>4, <2>2, <3>1, MailStays
    <2>. QED
      BY <2>1, <2>2
  <1>13. Ends'
    BY <1>4, <1>5 DEF Inv, Ends
  <1>. QED
    BY <1>7, <1>8, <1>9, <1>10, <1>11, <1>12, <1>13 DEF Inv

-----------------------------------------------------------------------------
(* The steps of the loop *)

\* Planning asks the provider, or ends.
LEMMA PlanKeeps ==
    ASSUME Inv, NEW r \in Run, Plan(r)
    PROVE  Inv'
  <1>1. CASE End(r)
    BY <1>1, EndKeeps DEF Plan, Alive
  <1>2. CASE ~End(r)
    <2>. USE <1>2 DEF Plan, Loop, Same, Kept, ByLoop, uiVars
    <2>0. phase[r] \in Alive
      BY DEF Alive
    <2>1. PICK p \in Alive : Loop(r, p)
      BY DEF Alive
    <2>2. /\ Stages' /\ Words' /\ Mail' /\ Ends' /\ Remembered
          /\ Counted' => TypeOK'
      BY <2>0, <2>1, MovesKeep
    <2>3. Counted'
      BY Types DEF Counted
    <2>4. Works'
      BY Types DEF Inv, Works, Counted
    <2>5. Approvals'
      <3>1. \A s \in Run : /\ since'[s] = since[s] /\ (skip'[s] => skip[s])
                           /\ phase'[s] = "asked" => phase[s] = "asked" /\ tool'[s] = tool[s]
                           /\ reply'[s] # "none" => reply'[s] = reply[s] /\ Waiting(s)'
        BY Types DEF Counted, Waiting
      <3>. QED
        BY <2>2, <3>1, ApprovalsStay
    <2>. QED
      BY <2>2, <2>3, <2>4, <2>5 DEF Inv
  <1>. QED
    BY <1>1, <1>2

\* What the planning looked at is there.
LEMMA LookedKeeps ==
    ASSUME Inv, NEW r \in Run, Looked(r)
    PROVE  Inv'
  <1>1. CASE End(r)
    BY <1>1, EndKeeps DEF Looked, Alive
  <1>2. CASE ~End(r)
    <2>. USE <1>2 DEF Looked, Loop, Same, Kept, ByLoop, uiVars
    <2>0. phase[r] \in Alive
      BY DEF Alive
    <2>1. PICK p \in Alive : Loop(r, p)
      BY DEF Alive
    <2>2. /\ Stages' /\ Words' /\ Mail' /\ Ends' /\ Remembered
          /\ Counted' => TypeOK'
      BY <2>0, <2>1, MovesKeep
    <2>3. Counted'
      BY Types DEF Counted, Tool
    <2>4. Works'
      BY Types DEF Inv, Works, Counted
    <2>5. Approvals'
      <3>1. \A s \in Run : /\ since'[s] = since[s] /\ (skip'[s] => skip[s])
                           /\ phase'[s] = "asked" => phase[s] = "asked" /\ tool'[s] = tool[s]
                           /\ reply'[s] # "none" => reply'[s] = reply[s] /\ Waiting(s)'
        BY Types DEF Counted, Waiting
      <3>. QED
        BY <2>2, <3>1, ApprovalsStay
    <2>. QED
      BY <2>2, <2>3, <2>4, <2>5 DEF Inv
  <1>. QED
    BY <1>1, <1>2

\* A plan is accepted, or not.
LEMMA PlanAnsweredKeeps ==
    ASSUME Inv, NEW r \in Run, PlanAnswered(r)
    PROVE  Inv'
  <1>1. CASE End(r)
    BY <1>1, EndKeeps DEF PlanAnswered, Alive
  <1>2. CASE ~End(r)
    <2>. USE <1>2 DEF PlanAnswered, Loop, Same, Kept, ByLoop, uiVars
    <2>0. phase[r] \in Alive
      BY DEF Alive
    <2>1. PICK p \in Alive : Loop(r, p)
      BY DEF Alive
    <2>2. /\ Stages' /\ Words' /\ Mail' /\ Ends' /\ Remembered
          /\ Counted' => TypeOK'
      BY <2>0, <2>1, MovesKeep
    <2>3. Counted'
      BY Types DEF Counted
    <2>4. Works'
      BY Types DEF Inv, Works, Counted
    <2>5. Approvals'
      <3>1. \A s \in Run : /\ since'[s] = since[s] /\ (skip'[s] => skip[s])
                           /\ phase'[s] = "asked" => phase[s] = "asked" /\ tool'[s] = tool[s]
                           /\ reply'[s] # "none" => reply'[s] = reply[s] /\ Waiting(s)'
        BY Types DEF Counted, Waiting
      <3>. QED
        BY <2>2, <3>1, ApprovalsStay
    <2>. QED
      BY <2>2, <2>3, <2>4, <2>5 DEF Inv
  <1>. QED
    BY <1>1, <1>2

\* The provider is asked for the next step, unless the run was stopped.
LEMMA CallProviderKeeps ==
    ASSUME Inv, NEW r \in Run, CallProvider(r)
    PROVE  Inv'
  <1>1. CASE End(r)
    BY <1>1, EndKeeps DEF CallProvider, Alive
  <1>2. CASE ~End(r)
    <2>. USE <1>2 DEF CallProvider, Loop, Same, Kept, ByLoop, uiVars
    <2>0. phase[r] \in Alive
      BY DEF Alive
    <2>1. PICK p \in Alive : Loop(r, p)
      BY DEF Alive
    <2>2. /\ Stages' /\ Words' /\ Mail' /\ Ends' /\ Remembered
          /\ Counted' => TypeOK'
      BY <2>0, <2>1, MovesKeep
    <2>3. Counted'
      BY Types DEF Counted
    <2>4. Works'
      BY Types DEF Inv, Works, Counted, Set
    <2>5. Approvals'
      <3>1. \A s \in Run : /\ since'[s] = since[s] /\ (skip'[s] => skip[s])
                           /\ phase'[s] = "asked" => phase[s] = "asked" /\ tool'[s] = tool[s]
                           /\ reply'[s] # "none" => reply'[s] = reply[s] /\ Waiting(s)'
        BY Types DEF Counted, Waiting
      <3>. QED
        BY <2>2, <3>1, ApprovalsStay
    <2>. QED
      BY <2>2, <2>3, <2>4, <2>5 DEF Inv
  <1>. QED
    BY <1>1, <1>2

\* An answer with tool calls, or the last one.
LEMMA ProviderAnswersKeeps ==
    ASSUME Inv, NEW r \in Run, ProviderAnswers(r)
    PROVE  Inv'
  <1>1. CASE End(r)
    BY <1>1, EndKeeps DEF ProviderAnswers, Alive
  <1>2. CASE ~End(r)
    <2>. USE <1>2 DEF ProviderAnswers, Loop, Same, Kept, ByLoop, uiVars
    <2>0. phase[r] \in Alive
      BY DEF Alive
    <2>1. PICK p \in Alive : Loop(r, p)
      BY DEF Alive
    <2>2. /\ Stages' /\ Words' /\ Mail' /\ Ends' /\ Remembered
          /\ Counted' => TypeOK'
      BY <2>0, <2>1, MovesKeep
    <2>3. Counted'
      BY Types DEF Counted
    <2>4. Works'
      BY Types DEF Inv, Works, Counted
    <2>5. Approvals'
      <3>1. \A s \in Run : /\ since'[s] = since[s] /\ (skip'[s] => skip[s])
                           /\ phase'[s] = "asked" => phase[s] = "asked" /\ tool'[s] = tool[s]
                           /\ reply'[s] # "none" => reply'[s] = reply[s] /\ Waiting(s)'
        BY Types DEF Counted, Waiting
      <3>. QED
        BY <2>2, <3>1, ApprovalsStay
    <2>. QED
      BY <2>2, <2>3, <2>4, <2>5 DEF Inv
  <1>. QED
    BY <1>1, <1>2

\* The next tool call, unless the run was stopped.
LEMMA NextToolKeeps ==
    ASSUME Inv, NEW r \in Run, NextTool(r)
    PROVE  Inv'
  <1>1. CASE End(r)
    BY <1>1, EndKeeps DEF NextTool, Alive
  <1>2. CASE ~End(r)
    <2>. USE <1>2 DEF NextTool, Loop, Same, Kept, ByLoop, uiVars
    <2>0. phase[r] \in Alive
      BY DEF Alive
    <2>1. PICK p \in Alive : Loop(r, p)
      BY DEF Alive
    <2>2. /\ Stages' /\ Words' /\ Mail' /\ Ends' /\ Remembered
          /\ Counted' => TypeOK'
      BY <2>0, <2>1, MovesKeep
    <2>3. Counted'
      BY Types DEF Counted
    <2>4. Works'
      BY Types DEF Inv, Works, Counted, Set
    <2>5. Approvals'
      <3>1. \A s \in Run : /\ since'[s] = since[s] /\ (skip'[s] => skip[s])
                           /\ phase'[s] = "asked" => phase[s] = "asked" /\ tool'[s] = tool[s]
                           /\ reply'[s] # "none" => reply'[s] = reply[s] /\ Waiting(s)'
        BY Types DEF Counted, Waiting
      <3>. QED
        BY <2>2, <3>1, ApprovalsStay
    <2>. QED
      BY <2>2, <2>3, <2>4, <2>5 DEF Inv
  <1>. QED
    BY <1>1, <1>2

\* The planning executes a tool.
LEMMA LookKeeps ==
    ASSUME Inv, NEW r \in Run, phase[r] = "proposing", Look(r)
    PROVE  Inv'
  <1>. USE DEF Look, Loop, Same, ByLoop, uiVars
  <1>0. phase[r] \in Alive
    BY DEF Alive
  <1>1. PICK p \in Alive : Loop(r, p)
    BY DEF Alive
  <1>2. /\ Stages' /\ Words' /\ Mail' /\ Ends' /\ Remembered
        /\ Counted' => TypeOK'
    BY <1>0, <1>1, MovesKeep
  <1>3. PICK t \in Command \cup {"read_file"} : tool' = [tool EXCEPT ![r] = t]
    OBVIOUS
  <1>4. t \in Tool
    BY DEF Tool
  <1>5. /\ UNCHANGED <<rounds, left, skip, since, late, flag, reply, asked>>
        /\ phase' = [phase EXCEPT ![r] = "looking"]
    OBVIOUS
  <1>6. Counted'
    BY ONLY Types, Inv, r \in Run, <1>3, <1>4, <1>5 DEF Counted
  <1>7. \A s \in Run : s # r => phase'[s] = phase[s] /\ tool'[s] = tool[s]
    BY ONLY Types, Inv, r \in Run, <1>3, <1>5 DEF Counted
  <1>8. phase'[r] = "looking"
    BY ONLY Types, Inv, r \in Run, <1>5
  <1>9. Works'
    BY ONLY Inv, phase[r] = "proposing", <1>5, <1>7, <1>8 DEF Inv, Works
  <1>10. Approvals'
    <2>1. \A s \in Run : /\ since'[s] = since[s] /\ (skip'[s] => skip[s])
                         /\ phase'[s] = "asked" => phase[s] = "asked" /\ tool'[s] = tool[s]
      BY ONLY <1>5, <1>7, <1>8
    <2>2. \A s \in Run : reply'[s] # "none" => reply'[s] = reply[s] /\ Waiting(s)'
      BY ONLY Types, Inv, phase[r] = "proposing", <1>5, <1>7, <1>8 DEF Waiting
    <2>. QED
      BY <1>2, <2>1, <2>2, ApprovalsStay
  <1>. QED
    BY <1>2, <1>6, <1>9, <1>10 DEF Inv

\* A plan is proposed, or the planning goes on.
LEMMA ProposeKeeps ==
    ASSUME Inv, NEW r \in Run, Propose(r)
    PROVE  Inv'
  <1>1. CASE End(r)
    BY <1>1, EndKeeps DEF Propose, Alive
  <1>2. CASE Prompt(r, "plan", "planAsked")
    BY <1>2, PromptKeeps DEF Propose, Topic
  <1>3. CASE Look(r)
    BY <1>3, LookKeeps DEF Propose
  <1>4. CASE ~End(r) /\ ~Prompt(r, "plan", "planAsked") /\ ~Look(r)
    <2>. USE <1>4 DEF Propose, Loop, Same, Kept, ByLoop, uiVars
    <2>0. phase[r] \in Alive
      BY DEF Alive
    <2>1. PICK p \in Alive : Loop(r, p)
      BY DEF Alive
    <2>2. /\ Stages' /\ Words' /\ Mail' /\ Ends' /\ Remembered
          /\ Counted' => TypeOK'
      BY <2>0, <2>1, MovesKeep
    <2>3. Counted'
      BY Types DEF Counted
    <2>4. Works'
      BY Types DEF Inv, Works, Counted
    <2>5. Approvals'
      <3>1. \A s \in Run : /\ since'[s] = since[s] /\ (skip'[s] => skip[s])
                           /\ phase'[s] = "asked" => phase[s] = "asked" /\ tool'[s] = tool[s]
                           /\ reply'[s] # "none" => reply'[s] = reply[s] /\ Waiting(s)'
        BY Types DEF Counted, Waiting
      <3>. QED
        BY <2>2, <3>1, ApprovalsStay
    <2>. QED
      BY <2>2, <2>3, <2>4, <2>5 DEF Inv
  <1>. QED
    BY <1>1, <1>2, <1>3, <1>4

\* A tool is over; another one may follow.
LEMMA ToolEndsKeeps ==
    ASSUME Inv, NEW r \in Run, ToolEnds(r)
    PROVE  Inv'
  <1>. USE DEF ToolEnds, Loop, Same, ByLoop, uiVars
  <1>1. /\ Stages' /\ Words' /\ Mail' /\ Ends' /\ Remembered
        /\ Counted' => TypeOK'
    BY MovesKeep DEF Alive
  <1>2. left[r] \in Nat /\ left[r] > 0
    BY Types DEF Inv, Works, Counted
  <1>3. Counted'
    BY <1>2, Types DEF Counted, Tool
  <1>4. Works'
    BY Types DEF Inv, Works, Counted
  <1>5. Approvals'
    <2>1. \A s \in Run : /\ since'[s] = since[s] /\ (skip'[s] => skip[s])
                         /\ phase'[s] = "asked" => phase[s] = "asked" /\ tool'[s] = tool[s]
                         /\ reply'[s] # "none" => reply'[s] = reply[s] /\ Waiting(s)'
      BY Types DEF Counted, Waiting
    <2>. QED
      BY <1>1, <2>1, ApprovalsStay
  <1>. QED
    BY <1>1, <1>3, <1>4, <1>5 DEF Inv

\* A command is let go, or asked about; a question is put; the run is done.
LEMMA DecideKeeps ==
    ASSUME Inv, NEW r \in Run, Decide(r)
    PROVE  Inv'
  <1>0. /\ phase[r] = "deciding" /\ phase[r] \in Alive /\ left[r] > 0 /\ late[r] = 0
        /\ since[r] \in Nat /\ Len(asked[r]) \in Nat /\ asked[r] \in Seq(Topic)
    BY LenProperties DEF Decide, Inv, TypeOK, Works, Alive
  <1>1. CASE End(r)
    BY <1>0, <1>1, EndKeeps
  <1>2. CASE Prompt(r, tool[r], "asked") /\ (tool[r] \in {"ask_user", "write_file"} \/ (tool[r] \in Gated /\ ~Free(r)))
    <2>1. tool[r] \in Topic /\ (tool[r] \in Command => ~skip[r])
      BY <1>2, NamesAssumption, GatedAssumption DEF Topic, Free
    <2>. QED
      BY <1>0, <1>2, <2>1, PromptKeeps
  <1>3. CASE /\ Start(r) /\ UNCHANGED <<rounds, left, tool, asked>> /\ Same /\ ByLoop(r)
             /\ IF tool[r] \in Command THEN skip' = [skip EXCEPT ![r] = FALSE] ELSE skip' = skip
    <2>. USE <1>3 DEF Start, Loop, Same, ByLoop, uiVars
    <2>1. /\ Stages' /\ Words' /\ Mail' /\ Ends' /\ Remembered
          /\ Counted' => TypeOK'
      BY <1>0, MovesKeep DEF Alive
    <2>2. Counted'
      <3>1. skip' \in [Run -> BOOLEAN]
        BY Types DEF Counted
      <3>2. since' \in [Run -> Nat]
        BY <1>0, Types DEF Counted
      <3>3. late' \in [Run -> Nat]
        BY <1>0, Types DEF Counted
      <3>. QED
        BY <3>1, <3>2, <3>3, Types DEF Counted
    <2>3. Works'
      BY <1>0, Types DEF Inv, Works, Counted, Set
    <2>4. Approvals'
      <3> SUFFICES ASSUME NEW s \in Run PROVE Backed(s)'
        BY DEF Approvals
      <3>1. Backed(s) /\ (reply[s] # "none" => Waiting(s))
        BY Types DEF Inv, Approvals
      <3>2. CASE s # r
        <4>1. since'[s] = since[s] /\ skip'[s] = skip[s] /\ phase'[s] = phase[s]
          BY <3>2, Types DEF Counted
        <4>. QED
          BY <3>1, <4>1 DEF Backed, Waiting, SaidYes
      <3>3. CASE s = r
        <4>1. reply'[r] = "none" /\ phase'[r] = "running"
          BY <1>0, <3>1, <3>3, Types DEF Waiting
        <4>2. CASE tool[r] \in Command
          <5>1. since'[r] = Len(asked'[r]) /\ ~skip'[r]
            BY <4>2, Types DEF Counted
          <5>. QED
            BY <1>0, <3>3, <4>1, <5>1 DEF Backed
        <4>3. CASE tool[r] \notin Command
          <5>1. since'[r] = since[r] /\ skip' = skip
            BY <4>3, Types DEF Counted
          <5>. QED
            BY <3>1, <3>3, <4>1, <5>1 DEF Backed, SaidYes
        <4>. QED
          BY <4>2, <4>3
      <3>. QED
        BY <3>2, <3>3
    <2>. QED
      BY <2>1, <2>2, <2>3, <2>4 DEF Inv
  <1>. QED
    BY <1>1, <1>2, <1>3, NamesAssumption, GatedAssumption DEF Decide, Start

\* A yes lets the tool go, or the command after it; a no is the end.
LEMMA AnsweredKeeps ==
    ASSUME Inv, NEW r \in Run, Answered(r)
    PROVE  Inv'
  <1>0. /\ phase[r] = "asked" /\ phase[r] \in Alive /\ left[r] > 0 /\ late[r] = 0
        /\ since[r] \in Nat /\ Len(asked[r]) \in Nat /\ left[r] \in Nat
        /\ since[r] < Len(asked[r]) /\ asked[r][Len(asked[r])] = tool[r]
        /\ tool[r] \in Command => ~skip[r]
        /\ Backed(r)
    <2>1. phase[r] = "asked" /\ phase[r] \in Alive
      BY DEF Answered, Alive
    <2>2. left[r] > 0 /\ late[r] = 0
      BY <2>1 DEF Inv, Works
    <2>3. Backed(r)
      BY DEF Inv, Approvals
    <2>4. since[r] \in Nat /\ left[r] \in Nat /\ Len(asked[r]) \in Nat
      BY LenProperties, Types DEF Inv, TypeOK, Counted
    <2>. QED
      BY <2>1, <2>2, <2>3, <2>4 DEF Backed
  <1>1. CASE End(r)
    BY <1>0, <1>1, EndKeeps
  <1>2. CASE ~End(r) /\ tool[r] = "ask_user"
    <2>. USE <1>2 DEF Answered, Loop, ByLoop, uiVars
    <2>1. /\ Stages' /\ Words' /\ Mail' /\ Ends' /\ Remembered
          /\ Counted' => TypeOK'
      BY <1>0, MovesKeep DEF Alive
    <2>2. Counted'
      <3>1. skip' \in [Run -> BOOLEAN]
        BY Types DEF Counted
      <3>0. left' = [left EXCEPT ![r] = @ - 1] /\ left[r] - 1 \in Nat
        BY <1>0
      <3>2. left' \in [Run -> Nat]
        BY ONLY <3>0, Types, Inv DEF Counted
      <3>3. reply' \in [Run -> {"none", "yes", "no"}]
        BY Types DEF Counted
      <3>. QED
        BY <3>1, <3>2, <3>3, Types DEF Counted
    <2>3. Works'
      BY <1>0, Types DEF Inv, Works, Counted
    <2>4. Approvals'
      <3> SUFFICES ASSUME NEW s \in Run PROVE Backed(s)'
        BY DEF Approvals
      <3>1. Backed(s)
        BY DEF Inv, Approvals
      <3>2. CASE s # r
        BY SMTT(20), <3>1, <3>2, Types DEF Counted, Backed, Waiting, SaidYes
      <3>3. CASE s = r
        <4>1. reply[r] = "yes" /\ reply'[r] = "none" /\ phase'[r] = "tools"
          BY Types DEF Counted
        <4>2. SaidYes(r, Len(asked[r])) /\ Len(asked[r]) \in since[r] + 1 .. Len(asked[r])
          BY <1>0, <4>1 DEF Backed
        <4>. QED
          BY <1>0, <1>2, <3>3, <4>1, <4>2 DEF Backed, SaidYes
      <3>. QED
        BY <3>2, <3>3
    <2>. QED
      BY <2>1, <2>2, <2>3, <2>4 DEF Inv
  <1>3. CASE ~End(r) /\ tool[r] # "ask_user"
    <2>. USE <1>3 DEF Answered, Start, Loop, ByLoop, uiVars
    <2>1. /\ Stages' /\ Words' /\ Mail' /\ Ends' /\ Remembered
          /\ Counted' => TypeOK'
      BY <1>0, MovesKeep DEF Alive
    <2>2. Counted'
      <3>0. /\ since' = [since EXCEPT ![r] = IF tool[r] \in Command THEN Len(asked[r]) ELSE @]
            /\ late' = [late EXCEPT ![r] = IF Set(r) THEN @ + 1 ELSE @]
        OBVIOUS
      <3>1. since' \in [Run -> Nat]
        BY ONLY <1>0, <3>0, Types, Inv, r \in Run DEF Counted
      <3>2. late' \in [Run -> Nat]
        BY ONLY <1>0, <3>0, Types, Inv, r \in Run DEF Counted
      <3>3. reply' \in [Run -> {"none", "yes", "no"}]
        BY Types DEF Counted
      <3>. QED
        BY <3>1, <3>2, <3>3, Types DEF Counted
    <2>3. Works'
      BY SMTT(20), <1>0, Types DEF Inv, Works, Counted, Set
    <2>4. Approvals'
      <3> SUFFICES ASSUME NEW s \in Run PROVE Backed(s)'
        BY DEF Approvals
      <3>1. Backed(s)
        BY DEF Inv, Approvals
      <3>2. CASE s # r
        BY SMTT(20), <3>1, <3>2, Types DEF Counted, Backed, Waiting, SaidYes
      <3>3. CASE s = r
        <4>1. /\ reply'[r] = "none" /\ phase'[r] = "running" /\ skip' = skip
              /\ since'[r] = IF tool[r] \in Command THEN Len(asked[r]) ELSE since[r]
          BY Types DEF Counted
        <4>. QED
          BY <1>0, <3>1, <3>3, <4>1 DEF Backed, SaidYes
      <3>. QED
        BY <3>2, <3>3
    <2>. QED
      BY <2>1, <2>2, <2>3, <2>4 DEF Inv
  <1>. QED
    BY <1>1, <1>2, <1>3

\* A request is refused, or its loop begins.
LEMMA AcceptRunKeeps ==
    ASSUME Inv, NEW r \in Run, AcceptRun(r)
    PROVE  Inv'
  <1>. USE DEF AcceptRun, Loop, uiVars, wireVars
  <1>1. Remembered
    BY DEF Remembered, SaidYes
  <1>2. TypeOK'
    BY DEF Inv, TypeOK, Phase, Alive
  <1>3. Stages'
    BY Types DEF Inv, Stages, Alive
  <1>4. Works'
    BY Types DEF Inv, Works, Counted
  <1>5. Approvals'
    <2>1. \A s \in Run : /\ since'[s] = since[s] /\ (skip'[s] => skip[s])
                         /\ phase'[s] = "asked" => phase[s] = "asked" /\ tool'[s] = tool[s]
                         /\ reply'[s] # "none" => reply'[s] = reply[s] /\ Waiting(s)'
      BY Types DEF Counted, Waiting
    <2>. QED
      BY <1>1, <2>1, ApprovalsStay
  <1>6. Words'
    BY <1>1, WordsStay
  <1>7. Mail'
    <2> SUFFICES ASSUME NEW s \in Run PROVE InMail(s)'
      BY DEF Mail
    <2>1. InMail(s)
      BY DEF Inv, Mail
    <2>2. phase'[s] = phase[s] \/ phase[s] \in {"called", "calledWithPlan"}
      BY Types
    <2>3. phase'[s] = phase[s] \/ (phase[s] # "over" /\ ~missed[s])
      BY <2>1, <2>2 DEF InMail
    <2>. QED
      BY <2>1, <2>3, MailStays
  <1>8. Ends'
    BY Types DEF Inv, Ends
  <1>. QED
    BY <1>2, <1>3, <1>4, <1>5, <1>6, <1>7, <1>8 DEF Inv

-----------------------------------------------------------------------------
(* The commands *)

\* A run that was stopped is looked at four times a second.
LEMMA PolledKeeps ==
    ASSUME Inv, NEW r \in Run, Polled(r)
    PROVE  Inv'
  <1>1. CASE ToolEnds(r)
    BY <1>1, ToolEndsKeeps
  <1>2. CASE ~ToolEnds(r)
    BY <1>2, EndKeeps DEF Polled, Alive
  <1>. QED
    BY <1>1, <1>2

\* A prompt that nobody answers is the end.
LEMMA TimesOutKeeps ==
    ASSUME Inv, NEW r \in Run, TimesOut(r)
    PROVE  Inv'
  BY EndKeeps DEF TimesOut, Alive

\* The flag of a run is set.
LEMMA StopKeeps ==
    ASSUME Inv, NEW r \in Run, Stop(r)
    PROVE  Inv'
  <1>. USE DEF Stop, uiVars, loopVars
  <1>1. Remembered
    BY DEF Remembered, SaidYes
  <1>2. TypeOK'
    BY DEF Inv, TypeOK
  <1>3. Stages'
    BY Types DEF Inv, Stages
  <1>4. Works'
    BY Types DEF Inv, Works
  <1>5. Approvals'
    BY <1>1, Types, ApprovalsStay DEF Waiting
  <1>6. Words'
    BY <1>1, WordsStay
  <1>7. Mail'
    BY DEF Inv, Mail, InMail
  <1>8. Ends'
    BY DEF Inv, Ends
  <1>. QED
    BY <1>2, <1>3, <1>4, <1>5, <1>6, <1>7, <1>8 DEF Inv

\* An answer reaches the prompt that waits for it, or nobody.
LEMMA RespondedKeeps ==
    ASSUME Inv, NEW a \in answers, Responded(a)
    PROVE  Inv'
  <1>. USE DEF Responded, uiVars, loopVars
  <1>0. /\ a.run \in Run /\ a.prompt \in Prompts(a.run)
        /\ a.proceed => SaidYes(a.run, a.prompt)
    BY DEF Inv, TypeOK, Reply, Words
  <1>1. Remembered
    BY DEF Remembered, SaidYes
  <1>2. TypeOK'
    <2>1. reply' \in [Run -> {"none", "yes", "no"}]
      BY Types DEF Counted
    <2>. QED
      BY <2>1 DEF Inv, TypeOK
  <1>3. Stages' /\ Works'
    BY DEF Inv, Stages, Works
  <1>5. Approvals'
    <2> SUFFICES ASSUME NEW s \in Run PROVE Backed(s)'
      BY DEF Approvals
    <2>1. Backed(s)
      BY DEF Inv, Approvals
    <2>2. CASE reply'[s] = reply[s]
      BY <2>1, <2>2 DEF Backed, Waiting, SaidYes
    <2>3. CASE reply'[s] # reply[s]
      <3>1. /\ s = a.run /\ Waiting(s) /\ a.prompt = Len(asked[s])
            /\ reply'[s] = IF a.proceed THEN "yes" ELSE "no"
        BY <2>3, Types DEF Counted
      <3>2. reply'[s] = "yes" => Len(asked[s]) > 0 /\ SaidYes(s, Len(asked[s]))
        BY <1>0, <3>1 DEF Prompts
      <3>. QED
        BY <2>1, <3>1, <3>2 DEF Backed, Waiting, SaidYes
    <2>. QED
      BY <2>2, <2>3
  <1>6. Words'
    BY <1>1, WordsStay
  <1>7. Mail'
    BY DEF Inv, Mail, InMail
  <1>8. Ends'
    BY DEF Inv, Ends
  <1>. QED
    BY <1>2, <1>3, <1>5, <1>6, <1>7, <1>8 DEF Inv

\* Always Allow puts the command of the prompt on the whitelist.
LEMMA WhitelistedKeeps ==
    ASSUME Inv, NEW a \in answers, Whitelisted(a)
    PROVE  Inv'
  <1>. USE DEF Whitelisted, uiVars, loopVars
  <1>0. /\ a \in Reply /\ a.run \in Run /\ a.prompt \in Prompts(a.run) /\ a.always
        /\ SaidYes(a.run, a.prompt) /\ asked[a.run][a.prompt] \in Command
    BY DEF Inv, TypeOK, Reply, Words
  <1>1. Remembered
    BY DEF Remembered, SaidYes
  <1>2. TypeOK'
    <2>1. [a EXCEPT !.always = FALSE] \in Reply
      BY <1>0 DEF Reply
    <2>2. answers' \subseteq Reply /\ whitelist' \subseteq Command
      BY <1>0, <2>1 DEF Inv, TypeOK
    <2>. QED
      BY <2>2 DEF Inv, TypeOK
  <1>3. Stages' /\ Works'
    BY DEF Inv, Stages, Works
  <1>5. Approvals'
    BY <1>1, Types, ApprovalsStay DEF Waiting
  <1>6. Words'
    <2>1. ASSUME NEW b \in answers'
          PROVE  /\ b.prompt \in Prompts(b.run) /\ (b.proceed => SaidYes(b.run, b.prompt))
                 /\ b.always => b.proceed /\ asked[b.run][b.prompt] \in Command
      <3>1. CASE b \in answers
        BY <3>1 DEF Inv, Words
      <3>2. CASE b = [a EXCEPT !.always = FALSE]
        <4>1. b.run = a.run /\ b.prompt = a.prompt /\ b.always = FALSE
          BY <1>0, <3>2 DEF Reply
        <4>. QED
          BY <1>0, <4>1
      <3>. QED
        BY <3>1, <3>2
    <2>2. \A c \in whitelist' : \E s \in Run : \E i \in Prompts(s) : asked[s][i] = c /\ SaidYes(s, i)
      BY <1>0 DEF Inv, Words
    <2>. QED
      BY <2>1, <2>2 DEF Words, Prompts, SaidYes
  <1>7. Mail'
    BY DEF Inv, Mail, InMail
  <1>8. Ends'
    BY DEF Inv, Ends
  <1>. QED
    BY <1>2, <1>3, <1>5, <1>6, <1>7, <1>8 DEF Inv

-----------------------------------------------------------------------------
(* The sidebar *)

\* The loops do not see what the sidebar does.
LEMMA LoopsRest ==
    ASSUME Inv, SidebarOnly, Remembered
    PROVE  Works' /\ Approvals'
  <1>1. Works'
    BY DEF Inv, Works, SidebarOnly, loopVars
  <1>2. Approvals'
    BY Types, ApprovalsStay DEF Waiting, SidebarOnly, loopVars
  <1>. QED
    BY <1>1, <1>2

\* Steps that leave the cards and the answers alone.
LEMMA SidebarKeeps ==
    ASSUME Inv, SidebarOnly, UNCHANGED <<cards, answers>>, TypeOK', Stages', Ends'
    PROVE  Inv'
  <1>1. Remembered
    BY DEF Remembered, SaidYes, SidebarOnly, loopVars
  <1>2. Works' /\ Approvals'
    BY <1>1, LoopsRest
  <1>3. Words'
    BY <1>1, WordsStay DEF SidebarOnly
  <1>4. Mail'
    BY DEF Inv, Mail, InMail, SidebarOnly, loopVars
  <1>. QED
    BY <1>2, <1>3, <1>4 DEF Inv

\* A goal is submitted.
LEMMA SubmitKeeps ==
    ASSUME Inv, NEW r \in Run, Submit(r)
    PROVE  Inv'
  <1>. USE DEF Submit, SidebarOnly, loopVars
  <1>1. TypeOK'
    BY DEF Inv, TypeOK
  <1>2. Stages'
    BY DEF Inv, TypeOK, Stages
  <1>3. Ends'
    BY DEF Inv, Ends
  <1>. QED
    BY <1>1, <1>2, <1>3, SidebarKeeps

\* The key, the context or the backend refuses it.
LEMMA SubmitFailsKeeps ==
    ASSUME Inv, NEW r \in Run, SubmitFails(r)
    PROVE  Inv'
  <1>. USE DEF SubmitFails, Activate, SidebarOnly, loopVars
  <1>1. TypeOK'
    BY DEF Inv, TypeOK
  <1>2. Stages'
    BY DEF Inv, TypeOK, Stages
  <1>3. Ends'
    BY NamesAssumption DEF Inv, Ends
  <1>. QED
    BY <1>1, <1>2, <1>3, SidebarKeeps

\* The thread, its listeners and a stop that is asked for.
LEMMA ThreadKeeps ==
    ASSUME Inv, ToggleThread \/ Listen \/ AskStop
    PROVE  Inv'
  <1>. USE DEF ToggleThread, Listen, AskStop, SidebarOnly, uiVars, loopVars
  <1>1. TypeOK'
    BY DEF Inv, TypeOK
  <1>2. Stages'
    BY DEF Inv, Stages
  <1>3. Ends'
    BY DEF Inv, Ends
  <1>. QED
    BY <1>1, <1>2, <1>3, SidebarKeeps

\* A run is shown as running and called.
LEMMA StartRunKeeps ==
    ASSUME Inv, NEW r \in Run, StartRun(r)
    PROVE  Inv'
  <1>. USE DEF StartRun, Activate, wireVars
  <1>0. phase[r] = "none" /\ phase'[r] \in {"called", "calledWithPlan"}
    BY Types DEF Inv, Stages
  <1>1. Remembered
    BY DEF Remembered, SaidYes
  <1>2. TypeOK'
    BY DEF Inv, TypeOK, Phase
  <1>3. Stages'
    BY Types DEF Inv, TypeOK, Stages, Alive
  <1>4. Works'
    BY <1>0, Types DEF Inv, Works
  <1>5. Approvals'
    <2>1. \A s \in Run : phase'[s] = phase[s] \/ s = r
      BY Types
    <2>. QED
      BY <1>0, <1>1, <2>1, Types, ApprovalsStay DEF Waiting
  <1>6. Words'
    BY <1>1, WordsStay
  <1>7. Mail'
    <2> SUFFICES ASSUME NEW s \in Run PROVE InMail(s)'
      BY DEF Mail
    <2>1. InMail(s)
      BY DEF Inv, Mail
    <2>2. phase'[s] = phase[s] \/ phase[s] = "none"
      BY <1>0, Types
    <2>3. phase'[s] = phase[s] \/ (phase[s] # "over" /\ ~missed[s])
      BY <2>1, <2>2 DEF InMail
    <2>. QED
      BY <2>1, <2>3, MailStays
  <1>8. Ends'
    BY <1>0 DEF Ends
  <1>. QED
    BY <1>2, <1>3, <1>4, <1>5, <1>6, <1>7, <1>8 DEF Inv

\* The cards of the conversation go; what was approved stays so.
LEMMA ClearKeeps ==
    ASSUME Inv, Clear
    PROVE  Inv'
  <1>. USE DEF Clear, Activate, SidebarOnly, loopVars
  <1>0. /\ asked' = asked /\ answers' = answers /\ whitelist' = whitelist
        /\ \A s \in Run : Len(asked[s]) \in Nat /\ cards[s] \in Seq(Card) /\ Len(cards[s]) = Len(asked[s])
    BY LenProperties DEF Inv, TypeOK
  <1>1. ASSUME NEW s \in Run, NEW i \in Prompts(s)
        PROVE  /\ cards'[s][i] \in Card
               /\ cards[s][i] = "unseen" => cards'[s][i] = "unseen"
               /\ SaidYes(s, i) => SaidYes(s, i)'
    BY <1>0 DEF Card, SaidYes
  <1>2. \A s \in Run : cards'[s] \in Seq(Card) /\ Len(cards'[s]) = Len(asked[s])
    <2> TAKE s \in Run
    <2>1. cards'[s] \in [1 .. Len(asked[s]) -> Card]
      BY <1>0 DEF Prompts, Card
    <2>. QED
      BY <1>0, <2>1, SeqDef, LenProperties
  <1>3. TypeOK'
    <2>1. cards' \in [Run -> Seq(Card)]
      BY <1>2
    <2>2. \A s \in Run : Len(cards'[s]) = Len(asked'[s])
      BY <1>0, <1>2
    <2>. QED
      BY <2>1, <2>2 DEF Inv, TypeOK
  <1>4. Remembered
    BY <1>0, <1>1 DEF Remembered
  <1>5. Works' /\ Approvals'
    BY <1>4, LoopsRest
  <1>6. Words'
    BY <1>0, <1>4, WordsStay
  <1>7. Stages'
    BY DEF Inv, Stages
  <1>8. Mail'
    <2> SUFFICES ASSUME NEW s \in Run PROVE InMail(s)'
      BY DEF Mail
    <2>1. InMail(s) /\ events[s] \in Seq(Nat)
      BY DEF Inv, Mail, TypeOK
    <2>2. \A k \in 1 .. Len(events[s]) : events[s][k] \in Nat
      BY <2>1
    <2>. QED
      BY <1>0, <1>1, <2>1, <2>2 DEF InMail, Prompts
  <1>9. Ends'
    BY NamesAssumption DEF Ends
  <1>. QED
    BY <1>3, <1>5, <1>6, <1>7, <1>8, <1>9 DEF Inv

\* A card that is open is answered.
LEMMA AnswerKeeps ==
    ASSUME Inv, NEW r \in Run, NEW i \in Prompts(r), NEW proceed \in BOOLEAN, NEW always \in BOOLEAN,
           Answer(r, i, proceed, always)
    PROVE  Inv'
  <1>. DEFINE a == [run |-> r, prompt |-> i, proceed |-> proceed, always |-> always]
              c == IF proceed THEN "yes" ELSE "no"
  <1>0. /\ asked' = asked /\ answers' = answers \cup {a} /\ whitelist' = whitelist
        /\ cards' = [cards EXCEPT ![r][i] = c] /\ c \in Card
        /\ cards[r][i] = "open" /\ i \in 1 .. Len(cards[r]) /\ cards[r] \in Seq(Card)
        /\ i \in Nat
    BY LenProperties DEF Answer, SidebarOnly, loopVars, Inv, TypeOK, Prompts, Card
  <1>1. /\ cards'[r] \in Seq(Card) /\ Len(cards'[r]) = Len(cards[r])
        /\ cards'[r][i] = c /\ \A j \in 1 .. Len(cards[r]) : j # i => cards'[r][j] = cards[r][j]
    <2>1. cards'[r] = [cards[r] EXCEPT ![i] = c]
      BY <1>0 DEF Inv, TypeOK
    <2>. HIDE DEF c
    <2>. QED
      BY <1>0, <2>1, ExceptFacts
  <1>2. \A s \in Run : s # r => cards'[s] = cards[s]
    BY <1>0 DEF Inv, TypeOK
  <1>3. TypeOK'
    <2>1. cards' \in [Run -> Seq(Card)]
      BY <1>0, <1>1 DEF Inv, TypeOK
    <2>2. \A s \in Run : Len(cards'[s]) = Len(asked'[s])
      BY <1>0, <1>1, <1>2 DEF Inv, TypeOK
    <2>3. a \in Reply
      BY <1>0 DEF Reply
    <2>. QED
      BY <1>0, <2>1, <2>2, <2>3 DEF Inv, TypeOK, Answer, SidebarOnly, loopVars
  <1>4. Remembered
    <2> SUFFICES ASSUME NEW s \in Run, NEW j \in Prompts(s), SaidYes(s, j)
                 PROVE  SaidYes(s, j)'
      BY <1>0 DEF Remembered
    <2>1. CASE s = r
      <3>1. j # i /\ j \in 1 .. Len(cards[r])
        BY <1>0, <2>1 DEF SaidYes, Prompts, Inv, TypeOK
      <3>. QED
        BY <1>1, <2>1, <3>1 DEF SaidYes
    <2>2. CASE s # r
      BY <1>2, <2>2 DEF SaidYes
    <2>. QED
      BY <2>1, <2>2
  <1>5. Works' /\ Approvals'
    BY <1>4, LoopsRest DEF Answer
  <1>6. Words'
    <2>1. ASSUME NEW b \in answers'
          PROVE  /\ b.prompt \in Prompts(b.run)
                 /\ b.proceed => SaidYes(b.run, b.prompt)'
                 /\ b.always => b.proceed /\ asked[b.run][b.prompt] \in Command
      <3>1. CASE b \in answers
        <4>1. /\ b.run \in Run /\ b.prompt \in Prompts(b.run)
              /\ b.proceed => SaidYes(b.run, b.prompt)
              /\ b.always => b.proceed /\ asked[b.run][b.prompt] \in Command
          BY <3>1 DEF Inv, TypeOK, Reply, Words
        <4>. QED
          BY <1>4, <4>1 DEF Remembered
      <3>2. CASE b = a
        <4>1. proceed => SaidYes(r, i)'
          BY <1>1 DEF SaidYes
        <4>2. always => proceed /\ asked[r][i] \in Command
          BY DEF Answer
        <4>. QED
          BY <3>2, <4>1, <4>2
      <3>. QED
        BY <1>0, <3>1, <3>2
    <2>2. ASSUME NEW d \in whitelist
          PROVE  \E s \in Run : \E j \in Prompts(s) : asked[s][j] = d /\ SaidYes(s, j)'
      <3>1. PICK s \in Run : \E j \in Prompts(s) : asked[s][j] = d /\ SaidYes(s, j)
        BY DEF Inv, Words
      <3>2. PICK j \in Prompts(s) : asked[s][j] = d /\ SaidYes(s, j)
        BY <3>1
      <3>. QED
        BY <1>4, <3>2 DEF Remembered
    <2>. QED
      BY <1>0, <2>1, <2>2 DEF Words, Prompts
  <1>7. Stages'
    BY DEF Inv, Stages, Answer, SidebarOnly, loopVars
  <1>8. Mail'
    <2> SUFFICES ASSUME NEW s \in Run PROVE InMail(s)'
      BY DEF Mail
    <2>0. InMail(s) /\ events' = events /\ missed' = missed /\ phase' = phase
      BY DEF Inv, Mail, Answer, SidebarOnly, loopVars
    <2>1. CASE s # r
      BY <1>0, <1>2, <2>0, <2>1, MailStays
    <2>2. CASE s = r
      <3>1. events[r] \in Seq(Nat) /\ Len(cards[r]) = Len(asked[r])
        BY DEF Inv, TypeOK
      <3>2. ASSUME NEW k \in 1 .. Len(events[r]), events[r][k] # 0
            PROVE  cards'[r][events[r][k]] = "unseen"
        <4>1. cards[r][events[r][k]] = "unseen" /\ events[r][k] <= Len(asked[r]) /\ events[r][k] \in Nat
          BY <2>0, <2>2, <3>1, <3>2 DEF InMail
        <4>2. events[r][k] # i /\ events[r][k] \in 1 .. Len(cards[r])
          BY <1>0, <3>1, <3>2, <4>1, LenProperties
        <4>. QED
          BY <1>1, <4>1, <4>2
      <3>. QED
        BY <1>0, <2>0, <2>2, <3>2 DEF InMail
    <2>. QED
      BY <2>1, <2>2
  <1>9. Ends'
    BY DEF Inv, Ends, Answer, SidebarOnly, loopVars
  <1>. QED
    BY <1>3, <1>5, <1>6, <1>7, <1>8, <1>9 DEF Inv

\* An event is heard, or lost.
LEMMA HearKeeps ==
    ASSUME Inv, NEW r \in Run, Hear(r)
    PROVE  Inv'
  <1>. DEFINE e == Head(events[r])
  <1>0. /\ events[r] \in Seq(Nat) /\ events[r] # <<>> /\ InMail(r) /\ events[r] \in Seq(Nat)
        /\ cards[r] \in Seq(Card) /\ Len(cards[r]) = Len(asked[r])
        /\ Len(asked[r]) \in Nat /\ asked' = asked /\ answers' = answers /\ whitelist' = whitelist
        /\ phase' = phase /\ submitted' = submitted /\ thread' = thread
    BY LenProperties DEF Inv, TypeOK, Mail, Hear, loopVars, uiVars
  <1>1. /\ events' = [events EXCEPT ![r] = Tail(events[r])] /\ e = events[r][1] /\ e \in Nat
        /\ events'[r] = Tail(events[r]) /\ Tail(events[r]) \in Seq(Nat)
        /\ Len(events[r]) \in Nat \ {0} /\ Len(events'[r]) = Len(events[r]) - 1
        /\ \A k \in 1 .. Len(events'[r]) : events'[r][k] = events[r][k + 1]
                                           /\ k + 1 \in 1 .. Len(events[r])
        /\ 1 \in 1 .. Len(events[r])
    <2>1. events' = [events EXCEPT ![r] = Tail(events[r])] /\ events'[r] = Tail(events[r])
      BY DEF Hear, Inv, TypeOK
    <2>2. /\ Tail(events[r]) \in Seq(Nat) /\ e = events[r][1] /\ e \in Nat
          /\ Len(events[r]) \in Nat \ {0} /\ Len(Tail(events[r])) = Len(events[r]) - 1
          /\ \A k \in 1 .. (Len(events[r]) - 1) : Tail(events[r])[k] = events[r][k + 1]
      BY <1>0, TailFacts
    <2>. HIDE DEF e
    <2>3. /\ \A k \in 1 .. (Len(events[r]) - 1) : k + 1 \in 1 .. Len(events[r])
          /\ 1 \in 1 .. Len(events[r])
      BY <2>2
    <2>4. Len(events'[r]) = Len(events[r]) - 1
      BY <2>1, <2>2
    <2>. QED
      BY <2>1, <2>2, <2>3, <2>4
  <1>2. /\ e # 0 => e \in 1 .. Len(cards[r]) /\ cards[r][e] = "unseen"
        /\ e = 0 => phase[r] = "over" /\ Len(events[r]) = 1
        /\ ~missed[r]
        /\ \A k \in 1 .. Len(events'[r]) : e # 0 => events'[r][k] # e
    <2>. HIDE DEF e
    <2>1. e = 0 => Len(events[r]) = 1 /\ phase[r] = "over"
      BY <1>0, <1>1 DEF InMail
    <2>2. e # 0 => /\ e <= Len(asked[r]) /\ cards[r][e] = "unseen"
                   /\ \A j \in 1 .. Len(events[r]) : events[r][j] = e => j = 1
      BY <1>0, <1>1 DEF InMail
    <2>3. ~missed[r]
      BY <1>0 DEF InMail
    <2>. QED
      BY <1>0, <1>1, <2>1, <2>2, <2>3
  <1>3. \/ /\ hearing # r /\ missed' = [missed EXCEPT ![r] = (e = 0)] /\ cards' = cards
           /\ active' = active /\ hearing' = hearing
        \/ hearing = r /\ e = 0 /\ active' = None /\ hearing' \in {hearing, None} /\ cards' = cards /\ missed' = missed
        \/ /\ hearing = r /\ e # 0 /\ active' = active /\ hearing' = hearing /\ missed' = missed
           /\ cards' = [cards EXCEPT ![r][e] = "open"]
    BY DEF Hear, Activate, uiVars
  <1>4. /\ cards'[r] \in Seq(Card) /\ Len(cards'[r]) = Len(cards[r])
        /\ \A j \in 1 .. Len(cards[r]) : j # e => cards'[r][j] = cards[r][j]
        /\ \A j \in 1 .. Len(cards[r]) : SaidYes(r, j) => SaidYes(r, j)'
        /\ cards' \in [Run -> Seq(Card)]
        /\ \A s \in Run : s # r => cards'[s] = cards[s]
    <2>1. CASE cards' = cards
      BY <1>0, <2>1 DEF SaidYes, Inv, TypeOK
    <2>2. CASE e # 0 /\ cards' = [cards EXCEPT ![r][e] = "open"]
      <3>1. cards'[r] = [cards[r] EXCEPT ![e] = "open"] /\ "open" \in Card
        BY <2>2 DEF Inv, TypeOK, Card
      <3>2. /\ cards'[r] \in Seq(Card) /\ Len(cards'[r]) = Len(cards[r])
            /\ \A j \in 1 .. Len(cards[r]) : j # e => cards'[r][j] = cards[r][j]
        <4>. HIDE DEF e
        <4>. QED
          BY <1>0, <1>2, <2>2, <3>1, ExceptFacts
      <3>3. cards' \in [Run -> Seq(Card)] /\ \A s \in Run : s # r => cards'[s] = cards[s]
        BY <2>2, <3>1, <3>2 DEF Inv, TypeOK
      <3>. QED
        BY <1>2, <2>2, <3>2, <3>3 DEF SaidYes
    <2>. QED
      BY <1>3, <2>1, <2>2
  <1>5. TypeOK'
    <2>1. events' \in [Run -> Seq(Nat)] /\ missed' \in [Run -> BOOLEAN]
      BY <1>1, <1>3 DEF Inv, TypeOK
    <2>2. \A s \in Run : Len(cards'[s]) = Len(asked'[s])
      BY <1>0, <1>4 DEF Inv, TypeOK
    <2>. QED
      BY <1>0, <1>3, <1>4, <2>1, <2>2 DEF Inv, TypeOK, Hear, loopVars
  <1>6. Remembered
    BY <1>0, <1>4 DEF Remembered, Prompts, SaidYes
  <1>7. Words'
    BY <1>0, <1>6, WordsStay
  <1>8. Works' /\ Stages'
    BY DEF Inv, Works, Stages, Hear, loopVars, uiVars
  <1>9. Approvals'
    BY <1>6, Types, ApprovalsStay DEF Waiting, Hear, loopVars
  <1>10. Mail'
    <2> SUFFICES ASSUME NEW s \in Run PROVE InMail(s)'
      BY DEF Mail
    <2>1. CASE s # r
      <3>1. InMail(s) /\ events'[s] = events[s] /\ missed'[s] = missed[s]
        BY <1>1, <1>3, <2>1 DEF Inv, Mail, TypeOK
      <3>. QED
        BY <1>0, <1>4, <2>1, <3>1, MailStays
    <2>2. CASE s = r
      <3>1. ASSUME NEW k \in 1 .. Len(events'[r])
            PROVE  IF events'[r][k] = 0 THEN k = Len(events'[r]) /\ phase[r] = "over"
                   ELSE /\ events'[r][k] <= Len(asked[r]) /\ cards'[r][events'[r][k]] = "unseen"
                        /\ \A j \in 1 .. Len(events'[r]) : events'[r][j] = events'[r][k] => j = k
        <4>1. /\ events'[r][k] = events[r][k + 1] /\ k + 1 \in 1 .. Len(events[r])
              /\ events[r][k + 1] \in Nat /\ e # 0
          BY <1>0, <1>1, <1>2
        <4>2. CASE events'[r][k] = 0
          BY <1>0, <1>1, <4>1, <4>2 DEF InMail
        <4>3. CASE events'[r][k] # 0
          <5>1. /\ events[r][k + 1] <= Len(asked[r]) /\ cards[r][events[r][k + 1]] = "unseen"
                /\ \A j \in 1 .. Len(events[r]) : events[r][j] = events[r][k + 1] => j = k + 1
            BY <1>0, <4>1, <4>3 DEF InMail
          <5>2. events[r][k + 1] # e /\ events[r][k + 1] \in 1 .. Len(cards[r])
            BY <1>0, <1>1, <4>1, <4>3, <5>1
          <5>3. \A j \in 1 .. Len(events'[r]) : events'[r][j] = events'[r][k] => j = k
            BY SMTT(20), <1>1, <4>1, <5>1
          <5>. QED
            BY <1>4, <4>1, <4>3, <5>1, <5>2, <5>3
        <4>. QED
          BY <4>2, <4>3
      <3>2. missed'[r] => phase[r] = "over" /\ events'[r] = <<>>
        <4>1. missed'[r] => e = 0
          BY <1>2, <1>3 DEF Inv, TypeOK
        <4>2. Len(events'[r]) = 0 => events'[r] = <<>>
          BY <1>1, EmptySeq
        <4>. QED
          BY <1>1, <1>2, <4>1, <4>2
      <3>. QED
        BY <1>0, <2>2, <3>1, <3>2 DEF InMail
    <2>. QED
      BY <2>1, <2>2
  <1>11. Ends'
    <2> SUFFICES ASSUME NEW s \in Run, active' = s, phase[s] = "over"
                 PROVE  missed'[s] \/ \E k \in 1 .. Len(events'[s]) : events'[s][k] = 0
      BY <1>0 DEF Ends
    <2>0. active = s /\ (missed[s] \/ \E k \in 1 .. Len(events[s]) : events[s][k] = 0)
      BY <1>3, NamesAssumption DEF Inv, Ends
    <2>1. CASE s # r
      <3>1. events'[s] = events[s] /\ missed'[s] = missed[s]
        BY <1>1, <1>3, <2>1 DEF Inv, TypeOK
      <3>. QED
        BY <2>0, <3>1
    <2>2. CASE s = r
      <3>1. PICK k \in 1 .. Len(events[r]) : events[r][k] = 0
        BY <1>2, <2>0, <2>2
      <3>2. CASE e = 0
        BY <1>3, <2>2, <3>2, NamesAssumption DEF Inv, TypeOK
      <3>3. CASE e # 0
        <4>1. k - 1 \in 1 .. Len(events'[r]) /\ events'[r][k - 1] = 0
          BY <1>1, <3>1, <3>3
        <4>. QED
          BY <2>2, <4>1
      <3>. QED
        BY <3>2, <3>3
    <2>. QED
      BY <2>1, <2>2
  <1>. QED
    BY <1>5, <1>7, <1>8, <1>9, <1>10, <1>11 DEF Inv

-----------------------------------------------------------------------------
(* The theorems *)

\* Nothing has happened yet.
LEMMA InitInv == Init => Inv
  <1> SUFFICES ASSUME Init PROVE Inv
    OBVIOUS
  <1>. USE DEF Init
  <1>1. TypeOK
    BY EmptySeq DEF TypeOK, Phase, Tool
  <1>2. Stages /\ Works
    BY DEF Stages, Works, Alive
  <1>3. Approvals
    <2> SUFFICES ASSUME NEW r \in Run PROVE Backed(r)
      BY DEF Approvals
    <2>1. Len(asked[r]) = 0 /\ since[r] = 0 /\ reply[r] = "none" /\ phase[r] = "none"
      BY EmptySeq
    <2>2. ~skip[r]
      OBVIOUS
    <2>. QED
      BY ONLY <2>1, <2>2 DEF Backed
  <1>4. Words
    BY DEF Words
  <1>5. Mail
    <2> SUFFICES ASSUME NEW r \in Run PROVE InMail(r)
      BY DEF Mail
    <2>1. Len(events[r]) = 0
      BY EmptySeq
    <2>2. ~missed[r]
      OBVIOUS
    <2>. QED
      BY ONLY <2>1, <2>2 DEF InMail
  <1>6. Ends
    BY NamesAssumption DEF Ends
  <1>. QED
    BY <1>1, <1>2, <1>3, <1>4, <1>5, <1>6 DEF Inv

\* No step leads out of the invariant.
LEMMA NextInv == Inv /\ [Next]_vars => Inv'
  <1> SUFFICES ASSUME Inv, [Next]_vars PROVE Inv'
    OBVIOUS
  <1>1. ASSUME NEW r \in Run, Local(r)
        PROVE  Inv'
    BY <1>1, PlanKeeps, CallProviderKeeps, NextToolKeeps, DecideKeeps DEF Local
  <1>2. ASSUME NEW r \in Run, Serve(r)
        PROVE  Inv'
    BY <1>2, AcceptRunKeeps, StopKeeps, ProposeKeeps, LookedKeeps, PlanAnsweredKeeps,
       ProviderAnswersKeeps, AnsweredKeeps, TimesOutKeeps, ToolEndsKeeps DEF Serve
  <1>3. ASSUME NEW r \in Run, Sidebar(r)
        PROVE  Inv'
    BY <1>3, SubmitKeeps, StartRunKeeps, SubmitFailsKeeps, HearKeeps, AnswerKeeps DEF Sidebar
  <1>4. ASSUME NEW a \in answers, Whitelisted(a) \/ Responded(a)
        PROVE  Inv'
    BY <1>4, WhitelistedKeeps, RespondedKeeps
  <1>5. CASE UNCHANGED vars
    <2>. USE <1>5 DEF vars, uiVars, wireVars, loopVars
    <2>1. TypeOK'
      BY DEF Inv, TypeOK
    <2>2. Stages' /\ Works' /\ Ends'
      BY DEF Inv, Stages, Works, Ends
    <2>3. Approvals'
      BY DEF Inv, Approvals, Backed, SaidYes, Waiting
    <2>4. Words'
      BY DEF Inv, Words, Prompts, SaidYes
    <2>5. Mail'
      BY DEF Inv, Mail, InMail
    <2>. QED
      BY <2>1, <2>2, <2>3, <2>4, <2>5 DEF Inv
  <1>. QED
    BY <1>1, <1>2, <1>3, <1>4, <1>5, PolledKeeps, ThreadKeeps, ClearKeeps DEF Next

\* The invariant holds in every state of every behaviour of the model.
THEOREM AgentInv == Spec => []Inv
  BY InitInv, NextInv, PTL DEF Spec

\* Every variable has its type, and there is a card for every prompt of a run.
THEOREM TypesHold == Spec => []TypeOK
  <1>1. Inv => TypeOK
    BY DEF Inv
  <1>. QED
    BY <1>1, AgentInv, PTL

\* After its flag was set a run starts at most the one tool it had decided on, for
\* any number of calls in an answer of the provider (agent_loop.rs, the look at the
\* flag before each tool call).
THEOREM OneToolAfterStop == Spec => []StopLeavesAtMostOneTool
  <1>1. Inv => StopLeavesAtMostOneTool
    <2> SUFFICES ASSUME Inv, NEW r \in Run PROVE late[r] <= 1
      BY DEF StopLeavesAtMostOneTool
    <2>1. late[r] = 0 \/ late[r] = 1
      BY DEF Inv, Works
    <2>. QED
      BY <2>1
  <1>. QED
    BY <1>1, AgentInv, PTL

\* A run that is over is only shown as running while its end is on its way, or
\* because the thread was not there to hear it (ConversationThread.tsx, the listeners).
THEOREM OverIsShown == Spec => []EndsAreShown
  <1>1. Inv => EndsAreShown
    BY DEF Inv, TypeOK, Ends, EndsAreShown
  <1>. QED
    BY <1>1, AgentInv, PTL

-----------------------------------------------------------------------------
(* What is let go *)

\* A tool of a run begins in Decide, or in Answered.
LEMMA OnlyTheseStart ==
    ASSUME Inv, Next, NEW r \in Run, phase[r] # "running", phase'[r] = "running"
    PROVE  (Decide(r) \/ Answered(r)) /\ Start(r)
  <1>1. ASSUME NEW s \in Run, Loop(s, "over")
        PROVE  FALSE
    BY <1>1, Types DEF Loop
  <1>2. ASSUME NEW s \in Run, NEW p \in Phase \ {"running"}, Loop(s, p)
        PROVE  FALSE
    BY <1>2, Types DEF Loop
  <1>3. phase' # phase
    OBVIOUS
  <1>4. ASSUME NEW s \in Run, Local(s) \/ Serve(s) \/ Polled(s) \/ Sidebar(s)
        PROVE  (Decide(r) \/ Answered(r)) /\ Start(r)
    <2>1. CASE Plan(s) \/ CallProvider(s) \/ NextTool(s) \/ Polled(s)
      BY <1>1, <1>2, <1>3, <2>1 DEF Plan, CallProvider, NextTool, Polled, End, ToolEnds, Phase, Alive
    <2>2. CASE AcceptRun(s) \/ Stop(s) \/ Propose(s) \/ Looked(s) \/ PlanAnswered(s)
      BY <1>1, <1>2, <1>3, <2>2
         DEF AcceptRun, Stop, Propose, Look, Looked, PlanAnswered, End, Prompt, Phase, Alive, loopVars
    <2>3. CASE ProviderAnswers(s) \/ TimesOut(s) \/ ToolEnds(s)
      BY <1>1, <1>2, <1>3, <2>3 DEF ProviderAnswers, TimesOut, ToolEnds, End, Phase, Alive
    <2>4. CASE Sidebar(s)
      <3>1. ~StartRun(s)
        BY Types DEF StartRun
      <3>. QED
        BY <1>3, <2>4, <3>1 DEF Sidebar, Submit, SubmitFails, Hear, Answer, SidebarOnly, loopVars
    <2>5. CASE Decide(s) \/ Answered(s)
      <3>1. Start(s)
        BY <1>1, <1>2, <2>5 DEF Decide, Answered, End, Prompt, Phase, Alive
      <3>2. s = r
        BY <3>1, Types DEF Start, Loop
      <3>. QED
        BY <2>5, <3>1, <3>2
    <2>. QED
      BY <1>4, <2>1, <2>2, <2>3, <2>4, <2>5 DEF Local, Serve
  <1>5. ASSUME NEW a \in answers, Whitelisted(a) \/ Responded(a)
        PROVE  FALSE
    BY <1>3, <1>5 DEF Whitelisted, Responded, loopVars
  <1>6. ~(ToggleThread \/ Listen \/ Clear \/ AskStop)
    BY <1>3 DEF ToggleThread, Listen, Clear, AskStop, SidebarOnly, loopVars
  <1>. QED
    BY <1>4, <1>5, <1>6 DEF Next

\* Once its plan is approved, a run starts a command that needs an approval only after
\* the user said yes to it, or to a question asked after the last command; no late
\* answer, timeout, clear or stop lets one go (agent_loop.rs, skip_next_safety_check and
\* emit_checkpoint).
THEOREM GatedApproved == Spec => GatedCommandsAreApproved
  <1>1. ASSUME Inv, [Next]_vars, NEW r \in Run, phase[r] # "running", phase'[r] = "running",
               tool[r] \in Gated
        PROVE  Approved(r, tool[r])
    <2>1. (Decide(r) \/ Answered(r)) /\ Start(r)
      BY <1>1, OnlyTheseStart DEF vars, loopVars
    <2>2. /\ Backed(r) /\ since[r] \in Nat /\ Len(asked[r]) \in Nat
          /\ tool[r] \in Command /\ tool[r] \notin {"ask_user", "write_file", "read_file", "done"}
      BY <1>1, NamesAssumption, GatedAssumption, LenProperties DEF Inv, TypeOK, Approvals
    <2>3. CASE Decide(r)
      <3>1. Free(r)
        BY <1>1, <2>1, <2>2, <2>3, Types DEF Decide, Start, Loop, Prompt, End
      <3>2. CASE tool[r] \in whitelist
        BY <3>2, <1>1 DEF Approved, Inv, Words
      <3>3. CASE skip[r]
        BY <2>2, <3>3 DEF Approved, Backed
      <3>. QED
        BY <3>1, <3>2, <3>3 DEF Free
    <2>4. CASE Answered(r)
      <3>1. phase[r] = "asked" /\ reply[r] = "yes"
        BY <1>1, <2>1, <2>4, Types DEF Answered, End, Loop, Counted
      <3>. QED
        BY <2>2, <3>1 DEF Approved, Backed
    <2>. QED
      BY <2>1, <2>3, <2>4
  <1>2. Inv /\ [Next]_vars =>
          [\A r \in Run : phase[r] # "running" /\ phase'[r] = "running" /\ tool[r] \in Gated
                          => Approved(r, tool[r])]_vars
    BY <1>1
  <1>. QED
    BY <1>2, AgentInv, PTL DEF Spec, GatedCommandsAreApproved

=============================================================================
