------------------------------- MODULE AgentRun -------------------------------
(* Runs of the AI agent in one scope (a host, or this machine): the loop that   *)
(* plans, calls the provider and executes its tool calls (agent_planning.rs,     *)
(* agent_loop.rs), the prompts it waits on, and the sidebar that starts a run,   *)
(* hears its events, answers its prompts and stops it (AiSidebar.tsx,            *)
(* ConversationThread.tsx, agentRunStore.ts).  The thread only listens while it  *)
(* is on the screen: what a run emits in the meantime is lost.                   *)
EXTENDS Naturals, Sequences

CONSTANTS Run,        \* runs, made by the sidebar
          Command,    \* commands the agent may run
          Gated,      \* those that need an approval
          MaxRounds,  \* bound: provider calls of a run's phase, 25 and 6 in the code
          MaxCalls,   \* bound: tool calls in an answer of the provider, for each run
          None

ASSUME GatedAssumption == Gated \subseteq Command
ASSUME NamesAssumption ==
  /\ None \notin Run
  /\ Command \cap {"plan", "ask_user", "write_file", "read_file", "done"} = {}
ASSUME BoundsAssumption == MaxRounds \in [Run -> Nat] /\ MaxCalls \in [Run -> Nat]

VARIABLES active,     \* activeRunIds of the scope
          thread,     \* the conversation is on the screen
          hearing,    \* the run whose listeners are registered
          submitted,  \* where the sidebar is with starting a run
          cards,      \* the prompts of a run in the conversation
          answers,    \* answers to prompts on their way to the backend
          stops,      \* ai_agent_stop on its way
          phase,      \* where the loop of a run is
          flag,       \* its cancel flag
          rounds, left, tool, \* provider calls made, tool calls to do, the one at hand
          skip,       \* skip_next_safety_check
          asked,      \* what the prompts of a run were about
          reply,      \* the answer to the prompt it waits on
          whitelist,  \* commands that are always allowed
          events,     \* events on their way: the number of a prompt, 0 for the end
          missed,     \* history: the end of the run found no listener
          since,      \* history: prompts there were when it was last let run a command
          late        \* history: tools started after its flag was set

uiVars   == <<active, thread, hearing, submitted, cards>>
wireVars == <<answers, stops, events, missed>>
loopVars == <<phase, rounds, left, tool, skip, asked, since, late>>
vars     == <<uiVars, wireVars, loopVars, flag, reply, whitelist>>

-------------------------------------------------------------------------------
Tool   == Command \cup {"ask_user", "write_file", "read_file", "done"}
Topic  == Command \cup {"plan", "ask_user", "write_file"}
Prompts(r) == 1 .. Len(asked[r])
Alive  == {"planning", "proposing", "looking", "planAsked", "calling", "thinking",
           "tools", "deciding", "asked", "running"}

Phase  == Alive \cup {"none", "called", "calledWithPlan", "refused", "over"}
Card   == {"unseen", "open", "yes", "no", "cleared", "wasYes"}
Reply  == [run : Run, prompt : Nat, proceed : BOOLEAN, always : BOOLEAN]

TypeOK ==
  /\ active \in Run \cup {None} /\ hearing \in Run \cup {None} /\ thread \in BOOLEAN
  /\ submitted \in [Run -> {"no", "collecting", "sent", "done"}]
  /\ answers \subseteq Reply /\ stops \subseteq Run
  /\ phase \in [Run -> Phase] /\ flag \in [Run -> {"none", "clear", "set"}]
  /\ rounds \in [Run -> Nat] /\ left \in [Run -> Nat] /\ tool \in [Run -> Tool]
  /\ skip \in [Run -> BOOLEAN] /\ reply \in [Run -> {"none", "yes", "no"}]
  /\ whitelist \subseteq Command
  /\ asked \in [Run -> Seq(Topic)] /\ cards \in [Run -> Seq(Card)]
  /\ \A r \in Run : Len(cards[r]) = Len(asked[r])
  /\ events \in [Run -> Seq(Nat)]
  /\ missed \in [Run -> BOOLEAN] /\ since \in [Run -> Nat] /\ late \in [Run -> Nat]

Init ==
  /\ active = None /\ hearing = None /\ thread = TRUE
  /\ submitted = [r \in Run |-> "no"] /\ phase = [r \in Run |-> "none"]
  /\ flag = [r \in Run |-> "none"] /\ reply = [r \in Run |-> "none"]
  /\ rounds = [r \in Run |-> 0] /\ left = [r \in Run |-> 0]
  /\ tool = [r \in Run |-> "done"] /\ skip = [r \in Run |-> FALSE]
  /\ asked = [r \in Run |-> <<>>] /\ cards = [r \in Run |-> <<>>]
  /\ events = [r \in Run |-> <<>>] /\ answers = {} /\ stops = {} /\ whitelist = {}
  /\ missed = [r \in Run |-> FALSE] /\ since = [r \in Run |-> 0]
  /\ late = [r \in Run |-> 0]

-------------------------------------------------------------------------------
(* The sidebar.                                                                *)

SidebarOnly == UNCHANGED <<loopVars, flag, reply, whitelist, events, missed>>

(* A new active run, or none: the thread's listeners go, and are registered    *)
(* anew in Listen.                                                              *)
Activate(r) ==
  /\ active' = r
  /\ hearing' = IF r = active THEN hearing ELSE None

(* handleSubmit: what is running is known as of the last rendering, and looked *)
(* at before the vault, the keys and the context are waited for.                *)
Submit(r) ==
  /\ thread /\ active = None /\ submitted[r] = "no"
  /\ submitted' = [submitted EXCEPT ![r] = "collecting"]
  /\ SidebarOnly /\ UNCHANGED <<active, thread, hearing, cards, answers, stops>>

(* getLastApprovedPlan: the plan of whatever run, as the conversation shows it. *)
PlanAtHand == \E r \in Run : \E i \in Prompts(r) : asked[r][i] = "plan" /\ cards[r][i] = "yes"

(* startRun, and the call of ai_agent_run with the plan approved last.         *)
StartRun(r) ==
  /\ submitted[r] = "collecting"
  /\ submitted' = [submitted EXCEPT ![r] = "sent"]
  /\ Activate(r)
  /\ phase' = [phase EXCEPT ![r] = IF PlanAtHand THEN "calledWithPlan" ELSE "called"]
  /\ UNCHANGED <<thread, cards, wireVars, rounds, left, tool, skip, asked, since, late,
                 flag, reply, whitelist>>

(* The key or the context is missing, or the command failed: the error is      *)
(* shown and the scope's run ended, whichever it is by now.  If the vault stays *)
(* locked nothing happens.                                                      *)
SubmitFails(r) ==
  /\ submitted' = [submitted EXCEPT ![r] = "done"]
  /\ \/ /\ submitted[r] = "collecting" \/ (submitted[r] = "sent" /\ phase[r] = "refused")
        /\ Activate(None)
     \/ submitted[r] = "collecting" /\ UNCHANGED <<active, hearing>>
  /\ SidebarOnly /\ UNCHANGED <<thread, cards, answers, stops>>

(* The thread comes and goes with its tab, the sidebar and its mode.           *)
ToggleThread ==
  /\ thread' = ~thread /\ hearing' = None
  /\ SidebarOnly /\ UNCHANGED <<active, submitted, cards, answers, stops>>

Listen ==
  /\ thread /\ active # None /\ hearing' = active
  /\ SidebarOnly /\ UNCHANGED <<active, thread, submitted, cards, answers, stops>>

(* handleClearAgentThread, while a run is active, too.                         *)
Clear ==
  /\ thread /\ Activate(None)
  /\ cards' = [r \in Run |-> [i \in Prompts(r) |->
                 CASE cards[r][i] \in {"yes", "wasYes"} -> "wasYes"
                   [] cards[r][i] = "unseen"            -> "unseen"
                   [] OTHER                             -> "cleared"]]
  /\ SidebarOnly /\ UNCHANGED <<thread, submitted, answers, stops>>

(* A click on a card: the card shows the answer before the backend has it.     *)
(* Always Allow adds the command to the whitelist first.                        *)
Answer(r, i, proceed, always) ==
  /\ thread /\ cards[r][i] = "open"
  /\ always => proceed /\ asked[r][i] \in Command
  /\ cards' = [cards EXCEPT ![r][i] = IF proceed THEN "yes" ELSE "no"]
  /\ answers' = answers \cup {[run |-> r, prompt |-> i, proceed |-> proceed, always |-> always]}
  /\ SidebarOnly /\ UNCHANGED <<active, thread, hearing, submitted, stops>>

(* handleStopAgent.                                                            *)
AskStop ==
  /\ thread /\ active # None
  /\ stops' = stops \cup {active}
  /\ SidebarOnly /\ UNCHANGED <<uiVars, answers>>

(* The listeners of the thread; an event that finds none is lost.              *)
Hear(r) ==
  /\ events[r] # <<>>
  /\ events' = [events EXCEPT ![r] = Tail(@)]
  /\ LET i == Head(events[r]) IN
       IF hearing # r THEN missed' = [missed EXCEPT ![r] = (i = 0)] /\ UNCHANGED uiVars
       ELSE /\ IF i = 0 THEN Activate(None) /\ UNCHANGED cards
               ELSE cards' = [cards EXCEPT ![r][i] = "open"] /\ UNCHANGED <<active, hearing>>
            /\ UNCHANGED <<missed, thread, submitted>>
  /\ UNCHANGED <<answers, stops, loopVars, flag, reply, whitelist>>

-------------------------------------------------------------------------------
(* The backend's commands.                                                     *)

Loop(r, p) == phase' = [phase EXCEPT ![r] = p]

(* ai_agent_run: refused if AI is disabled, otherwise the loop is spawned.  A  *)
(* plan that came with the request needs no planning.                           *)
AcceptRun(r) ==
  /\ phase[r] \in {"called", "calledWithPlan"}
  /\ \/ Loop(r, "refused") /\ UNCHANGED flag
     \/ /\ Loop(r, IF phase[r] = "called" THEN "planning" ELSE "calling")
        /\ flag' = [flag EXCEPT ![r] = "clear"]
  /\ UNCHANGED <<uiVars, wireVars, rounds, left, tool, skip, asked, since, late, reply, whitelist>>

(* ai_agent_stop: only a run that is registered has a flag.                    *)
Stop(r) ==
  /\ r \in stops /\ stops' = stops \ {r}
  /\ flag' = [flag EXCEPT ![r] = IF @ = "clear" THEN "set" ELSE @]
  /\ UNCHANGED <<uiVars, answers, events, missed, loopVars, reply, whitelist>>

Waiting(r) == phase[r] \in {"planAsked", "asked"}

(* ai_agent_whitelist_command, and then ai_agent_checkpoint_respond: an answer  *)
(* to a prompt that is closed is nobody's.                                      *)
Whitelisted(a) ==
  /\ a \in answers /\ a.always
  /\ whitelist' = whitelist \cup {asked[a.run][a.prompt]}
  /\ answers' = (answers \ {a}) \cup {[a EXCEPT !.always = FALSE]}
  /\ UNCHANGED <<uiVars, stops, events, missed, loopVars, flag, reply>>

Responded(a) ==
  /\ a \in answers /\ ~a.always
  /\ answers' = answers \ {a}
  /\ reply' = IF Waiting(a.run) /\ a.prompt = Len(asked[a.run])
                THEN [reply EXCEPT ![a.run] = IF a.proceed THEN "yes" ELSE "no"]
                ELSE reply
  /\ UNCHANGED <<uiVars, stops, events, missed, loopVars, flag, whitelist>>

-------------------------------------------------------------------------------
(* The loop of a run.  Wherever it waits it also looks at its flag; a prompt    *)
(* that is answered or given up is closed.                                      *)

Set(r)    == flag[r] = "set"
ByLoop(r) == UNCHANGED <<uiVars, answers, stops, missed, whitelist>>
Same      == UNCHANGED <<flag, reply, events>>
Kept      == UNCHANGED <<rounds, left, tool, skip, asked, since, late>>

(* A variant of End that says nothing: the error of a run is only returned.    *)
EndSilently(r) ==
  /\ Loop(r, "over")
  /\ flag' = [flag EXCEPT ![r] = "none"] /\ reply' = [reply EXCEPT ![r] = "none"]
  /\ UNCHANGED <<rounds, left, tool, skip, since, asked, late, events>> /\ ByLoop(r)

(* finish!, or an error of the planning: the end is emitted, the run forgotten. *)
End(r) ==
  /\ Loop(r, "over")
  /\ rounds' = [rounds EXCEPT ![r] = 0] /\ left' = [left EXCEPT ![r] = 0]
  /\ tool' = [tool EXCEPT ![r] = "done"] /\ skip' = [skip EXCEPT ![r] = FALSE]
  /\ since' = [since EXCEPT ![r] = 0]
  /\ flag' = [flag EXCEPT ![r] = "none"] /\ reply' = [reply EXCEPT ![r] = "none"]
  /\ events' = [events EXCEPT ![r] = Append(@, 0)]
  /\ UNCHANGED <<asked, late>> /\ ByLoop(r)

(* emit_checkpoint, and the proposal of a plan.                                *)
Prompt(r, topic, waiting) ==
  /\ Loop(r, waiting)
  /\ asked' = [asked EXCEPT ![r] = Append(@, topic)]
  /\ cards' = [cards EXCEPT ![r] = Append(@, "unseen")]
  /\ events' = [events EXCEPT ![r] = Append(@, Len(asked[r]) + 1)]
  /\ UNCHANGED <<active, thread, hearing, submitted, answers, stops, missed, whitelist,
                 flag, reply, rounds, left, tool, skip, since, late>>

(* A tool is started, and a command with it lets go of an earlier approval.    *)
Start(r) ==
  /\ Loop(r, "running")
  /\ late' = [late EXCEPT ![r] = IF Set(r) THEN @ + 1 ELSE @]
  /\ since' = [since EXCEPT ![r] = IF tool[r] \in Command THEN Len(asked[r]) ELSE @]

(* Planning: the provider is called until it proposes a plan; it may look at   *)
(* files and run commands first.                                                *)
Plan(r) ==
  /\ phase[r] = "planning"
  /\ IF Set(r) \/ rounds[r] = MaxRounds[r] THEN End(r)
     ELSE /\ Loop(r, "proposing") /\ rounds' = [rounds EXCEPT ![r] = @ + 1]
          /\ UNCHANGED <<left, tool, skip, asked, since, late>> /\ Same /\ ByLoop(r)

(* A tool of the planning, run_command among them: it is executed at once,     *)
(* whatever the command.  Only the loop that follows the plan asks.             *)
Look(r) ==
  /\ Loop(r, "looking")
  /\ \E t \in Command \cup {"read_file"} : tool' = [tool EXCEPT ![r] = t]
  /\ UNCHANGED <<rounds, left, skip, asked, since, late>> /\ Same /\ ByLoop(r)

Propose(r) ==
  /\ phase[r] = "proposing"
  /\ \/ ~Set(r) /\ Prompt(r, "plan", "planAsked")
     \/ ~Set(r) /\ Loop(r, "planning") /\ Kept /\ Same /\ ByLoop(r)
     \/ ~Set(r) /\ Look(r)
     \/ End(r)

(* The result goes to the provider, or the next tool call of its answer comes. *)
Looked(r) ==
  /\ phase[r] = "looking"
  /\ IF Set(r) THEN End(r)
     ELSE /\ Loop(r, "proposing") /\ tool' = [tool EXCEPT ![r] = "done"]
          /\ UNCHANGED <<rounds, left, skip, asked, since, late>> /\ Same /\ ByLoop(r)

PlanAnswered(r) ==
  /\ phase[r] = "planAsked" /\ reply[r] # "none"
  /\ IF reply[r] = "no" THEN End(r)
     ELSE /\ Loop(r, "calling") /\ reply' = [reply EXCEPT ![r] = "none"]
          /\ rounds' = [rounds EXCEPT ![r] = 0]
          /\ UNCHANGED <<left, tool, skip, asked, since, late, flag, events>> /\ ByLoop(r)

(* The loop: the flag and the limit are looked at, then the provider is called, *)
(* again if it fails for a moment; an answer without a tool call is the end.    *)
CallProvider(r) ==
  /\ phase[r] = "calling"
  /\ IF Set(r) \/ rounds[r] = MaxRounds[r] THEN End(r)
     ELSE /\ Loop(r, "thinking") /\ rounds' = [rounds EXCEPT ![r] = @ + 1]
          /\ UNCHANGED <<left, tool, skip, asked, since, late>> /\ Same /\ ByLoop(r)

ProviderAnswers(r) ==
  /\ phase[r] = "thinking"
  /\ \/ /\ Loop(r, "tools") /\ \E n \in 1 .. MaxCalls[r] : left' = [left EXCEPT ![r] = n]
        /\ UNCHANGED <<rounds, tool, skip, asked, since, late>> /\ Same /\ ByLoop(r)
     \/ End(r)

(* A variant of NextTool that leaves the look at the flag to CallProvider.     *)
NextToolUnchecked(r) ==
  /\ phase[r] = "tools"
  /\ IF left[r] = 0 THEN Loop(r, "calling") /\ UNCHANGED tool
     ELSE Loop(r, "deciding") /\ \E t \in Tool : tool' = [tool EXCEPT ![r] = t]
  /\ UNCHANGED <<rounds, left, skip, asked, since, late>> /\ Same /\ ByLoop(r)

(* The next tool call of the answer.                                           *)
NextTool(r) ==
  /\ phase[r] = "tools"
  /\ IF left[r] > 0 /\ Set(r) THEN End(r)
     ELSE /\ IF left[r] = 0 THEN Loop(r, "calling") /\ UNCHANGED tool
             ELSE Loop(r, "deciding") /\ \E t \in Tool : tool' = [tool EXCEPT ![r] = t]
          /\ UNCHANGED <<rounds, left, skip, asked, since, late>> /\ Same /\ ByLoop(r)

(* What of a command that is not always allowed, and was not asked about just  *)
(* before, needs an approval; an approval by ask_user is used up either way.    *)
Free(r) == tool[r] \in whitelist \/ skip[r]

Decide(r) ==
  /\ phase[r] = "deciding"
  /\ \/ /\ tool[r] \in Command /\ (Free(r) \/ tool[r] \notin Gated)
        /\ Start(r) /\ skip' = [skip EXCEPT ![r] = FALSE]
        /\ UNCHANGED <<rounds, left, tool, asked>> /\ Same /\ ByLoop(r)
     \/ /\ tool[r] \in {"write_file", "read_file"}
        /\ Start(r)
        /\ UNCHANGED <<rounds, left, tool, asked, skip>> /\ Same /\ ByLoop(r)
     \/ /\ tool[r] \in {"ask_user", "write_file"} \/ (tool[r] \in Gated /\ ~Free(r))
        /\ Prompt(r, tool[r], "asked")
     \/ /\ tool[r] \in {"ask_user", "done"} /\ End(r)

(* A prompt is answered: yes lets the command or the write go, or the command  *)
(* after it; a no is the end.                                                   *)
Answered(r) ==
  /\ phase[r] = "asked" /\ reply[r] # "none"
  /\ IF reply[r] = "no" THEN End(r)
     ELSE /\ reply' = [reply EXCEPT ![r] = "none"]
          /\ IF tool[r] = "ask_user"
               THEN /\ Loop(r, "tools") /\ left' = [left EXCEPT ![r] = @ - 1]
                    /\ skip' = [skip EXCEPT ![r] = TRUE] /\ UNCHANGED <<since, late>>
               ELSE Start(r) /\ UNCHANGED <<left, skip>>
          /\ UNCHANGED <<rounds, tool, asked, flag, events>> /\ ByLoop(r)

(* A variant of TimesOut that lets go what nobody objected to.                 *)
TimesOutAllowing(r) ==
  /\ phase[r] = "asked" /\ reply' = [reply EXCEPT ![r] = "yes"]
  /\ UNCHANGED <<loopVars, flag, events>> /\ ByLoop(r)

(* CHECKPOINT_TIMEOUT: five minutes without an answer are a no.                *)
TimesOut(r) == phase[r] = "asked" /\ End(r)

ToolEnds(r) ==
  /\ phase[r] = "running"
  /\ Loop(r, "tools") /\ left' = [left EXCEPT ![r] = @ - 1]
  /\ tool' = [tool EXCEPT ![r] = "done"]
  /\ UNCHANGED <<rounds, skip, asked, since, late>> /\ Same /\ ByLoop(r)

(* A variant of Polled that waits for the provider's answer, as it once did.   *)
PolledBetween(r) ==
  /\ Set(r)
  /\ \/ phase[r] \in {"proposing", "looking", "planAsked", "asked"} /\ End(r)
     \/ ToolEnds(r)

(* poll_until_cancel, beside every wait: a running tool is dropped and the loop *)
(* goes on to its next look at the flag, everything else is the end.            *)
Polled(r) ==
  /\ Set(r)
  /\ \/ phase[r] \in {"proposing", "looking", "planAsked", "thinking", "asked"} /\ End(r)
     \/ ToolEnds(r)

-------------------------------------------------------------------------------
(* Steps of the loop that wait for nobody.                                     *)
Local(r) == Plan(r) \/ CallProvider(r) \/ NextTool(r) \/ Decide(r)

Serve(r) == \/ AcceptRun(r) \/ Stop(r) \/ Propose(r) \/ Looked(r) \/ PlanAnswered(r)
            \/ ProviderAnswers(r) \/ Answered(r) \/ TimesOut(r) \/ ToolEnds(r)

Sidebar(r) == \/ Submit(r) \/ StartRun(r) \/ SubmitFails(r) \/ Hear(r)
              \/ \E i \in Prompts(r), proceed, always \in BOOLEAN : Answer(r, i, proceed, always)

Next == \/ \E r \in Run : Local(r) \/ Serve(r) \/ Polled(r) \/ Sidebar(r)
        \/ \E a \in answers : Whitelisted(a) \/ Responded(a)
        \/ ToggleThread \/ Listen \/ Clear \/ AskStop

(* The loop's own steps are taken and its flag is polled four times a second;  *)
(* nothing is assumed of providers, tools and users.                            *)
Fairness == \A r \in Run : WF_vars(Local(r)) /\ WF_vars(Polled(r))

Spec == Init /\ [][Next]_vars /\ Fairness

-------------------------------------------------------------------------------
(* Once its plan is approved, a run starts a command that needs an approval     *)
(* only after the user said yes: to that command, now or for always, or to a     *)
(* question asked after the last command.  One yes never lets two commands go, a *)
(* late answer, a timeout or a stop none (agent_loop.rs, skip_next_safety_check  *)
(* and emit_checkpoint).  The planning before it is not gated.                   *)
SaidYes(r, i) == cards[r][i] \in {"yes", "wasYes"}

Approved(r, c) ==
  \/ c \in whitelist /\ \E s \in Run : \E i \in Prompts(s) : asked[s][i] = c /\ SaidYes(s, i)
  \/ \E i \in since[r] + 1 .. Len(asked[r]) : asked[r][i] \in {c, "ask_user"} /\ SaidYes(r, i)

GatedCommandsAreApproved ==
  [][\A r \in Run : phase[r] # "running" /\ phase'[r] = "running" /\ tool[r] \in Gated
                     => Approved(r, tool[r])]_vars

(* After its flag was set a run starts at most the one tool it had decided on. *)
StopLeavesAtMostOneTool == \A r \in Run : late[r] <= 1

(* A run whose flag is set ends, whatever hangs: a provider, a tool, or a      *)
(* prompt whose card nobody ever saw.                                           *)
StoppedRunsEnd == \A r \in Run : Set(r) ~> ~Set(r)

(* A run that is over is only shown as running while its end is on its way, or *)
(* because the thread was not there to hear it.                                 *)
EndsAreShown ==
  \A r \in Run : active = r /\ phase[r] = "over" /\ events[r] = <<>> => missed[r]
===============================================================================
