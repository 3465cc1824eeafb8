------------------------------ MODULE AgentTurn ------------------------------
(***************************************************************************)
(* Turns of the lead agent on one thread: the middleware chain of          *)
(* agents/lead_agent/agent.py around the model and the tools, and the      *)
(* stream that client.py makes of it.  LoopDetection is the bookkeeping of *)
(* the loop detector.                                                      *)
(*                                                                         *)
(* The agent is a LangGraph graph.  A superstep (the input, a hook, the    *)
(* model, all tools of a response) is an action, and what it writes is     *)
(* kept or lost as a whole: a turn that is cancelled or fails leaves the   *)
(* messages of the steps before.  Hooks before the model run in the order  *)
(* of the chain, hooks after it in the opposite order, the first           *)
(* middleware is the outermost around a call.  CompactionMiddleware has no *)
(* hook that LangGraph calls, InboxPollerMiddleware finds no context and   *)
(* DeferredToolFilterMiddleware no registry: they do nothing here.         *)
(* Summarization is off, as it is by default: where it is configured,      *)
(* SummarizationMiddleware replaces old messages before the model.         *)
(***************************************************************************)
EXTENDS LoopDetection, SequencesExt

CONSTANTS Thread,          \* the thread the turns are on
          ActiveMode,      \* permission mode of the session, 10 .. 50
          RequiredMode,    \* what each tool requires: 30 (full access) unless overridden
          FailClosed,      \* of the guardrail
          TaskLimit,       \* max_concurrent of SubagentLimitMiddleware
          MaxTurns,        \* bound: user messages
          MaxReplies       \* bound: responses of the model

Ask == "ask_clarification"
View == "view_image"
Task == "task"
Bash == "bash"

ASSUME TurnAssumption ==
    /\ Thread \in LoopThreads /\ FailClosed \in BOOLEAN
    /\ ActiveMode \in {10, 20, 30, 40, 50} /\ RequiredMode \in [Tools -> {10, 20, 30, 40, 50}]
    /\ TaskLimit \in 2 .. 4 /\ MaxTurns \in Nat /\ MaxReplies \in Nat

VARIABLES msgs,   \* the messages of the thread's checkpoint
          phase,  \* the superstep that is next; idle and done: no turn, or its end
          made,   \* messages ever made, for fresh ids
          told    \* what the client's stream yielded in this turn

turnVars == <<msgs, phase, made, told>>
agentVars == <<turnVars, loopVars>>

Texts == {"none", "said", "said, warned", "stopped", "images"}
Phases == {"idle", "done", "before model", "model", "loop", "limit", "route", "tools"}

NewMessage(type, text, calls, of) ==
    [type |-> type, id |-> made + 1, text |-> text, calls |-> calls, of |-> of]
NoCall == <<0, 0>>
NameOf(call) == call[3]
IdOf(call) == <<call[1], call[2]>>

TurnTypeOK ==
    /\ phase \in Phases /\ made \in Nat
    /\ \A i \in DOMAIN msgs : /\ msgs[i].type \in {"human", "ai", "tool"}
                              /\ msgs[i].text \in Texts /\ msgs[i].id \in 1 .. made
                              /\ \A k \in DOMAIN msgs[i].calls : NameOf(msgs[i].calls[k]) \in Tools
                              /\ \A j \in DOMAIN msgs : msgs[i].id = msgs[j].id => i = j
    /\ \A i \in DOMAIN told : told[i].id \in 1 .. made

TurnInit ==
    /\ msgs = <<>> /\ phase = "idle" /\ made = 0 /\ told = <<>>
    /\ LoopInit
-----------------------------------------------------------------------------
(* The client's stream: a message is yielded when its id is first seen in a *)
(* snapshot, and never again.                                               *)

Yield(soFar, snapshot) ==
    soFar \o Without(snapshot, {m \in ToSet(snapshot) : \E i \in DOMAIN soFar : soFar[i].id = m.id})

Snapshot(new) == msgs' = new /\ told' = Yield(told, new)
Final == Last(msgs)
Names(m) == [k \in DOMAIN m.calls |-> NameOf(m.calls[k])]
-----------------------------------------------------------------------------
(* The request: DanglingToolCallMiddleware answers what was not answered,  *)
(* right after the message that called.                                    *)

Answered(ms) == {ms[i].of : i \in {j \in DOMAIN ms : ms[j].type = "tool"}}

Placeholders(m, done) ==
    LET open == Without(m.calls, {c \in ToSet(m.calls) : IdOf(c) \in done}) IN
    [k \in DOMAIN open |->
        [type |-> "tool", id |-> 0, text |-> "said", calls |-> <<>>, of |-> IdOf(open[k])]]

\* Mutant: the placeholders are appended, as a before_model hook would do.
PatchedAtEnd(ms) ==
    ms \o FlattenSeq([i \in DOMAIN ms |-> Placeholders(ms[i], Answered(ms))])

Patched(ms) ==
    FlattenSeq([i \in DOMAIN ms |-> <<ms[i]>> \o Placeholders(ms[i], Answered(ms))])
-----------------------------------------------------------------------------
(* A turn. *)

Many(type) == Cardinality({i \in DOMAIN msgs : msgs[i].type = type /\ msgs[i].text # "images"})

\* The server builds the agent, and its detector, for each run; the embedded
\* client keeps one until its configuration changes.
UserSays ==
    /\ phase \in {"idle", "done"} /\ Many("human") < MaxTurns
    /\ LET new == Append(msgs, NewMessage("human", "said", <<>>, NoCall)) IN
          msgs' = new /\ told' = Yield(<<>>, new)
    /\ made' = made + 1
    /\ phase' = "before model"
    /\ Reset(LoopThreads) \/ UNCHANGED loopVars

\* ViewImageMiddleware: the images of the last response, once all its calls
\* are answered.
BeforeModel ==
    LET ai == {i \in DOMAIN msgs : msgs[i].type = "ai"}
        i  == CHOOSE j \in ai : \A k \in ai : k <= j
        shows == /\ ai # {}
                 /\ \E k \in DOMAIN msgs[i].calls : NameOf(msgs[i].calls[k]) = View
                 /\ \A k \in DOMAIN msgs[i].calls : IdOf(msgs[i].calls[k]) \in Answered(msgs)
                 /\ \A k \in DOMAIN msgs : k > i => msgs[k].text # "images"
    IN
    /\ phase = "before model" /\ phase' = "model"
    /\ IF shows
       THEN /\ Snapshot(Append(msgs, NewMessage("human", "images", <<>>, NoCall)))
            /\ made' = made + 1
       ELSE UNCHANGED <<msgs, made, told>>
    /\ UNCHANGED loopVars

Model(names) ==
    /\ phase = "model" /\ phase' = "loop" /\ Many("ai") < MaxReplies
    /\ Snapshot(Append(msgs, NewMessage("ai", IF names = <<>> THEN "said" ELSE "none",
                                        [k \in DOMAIN names |-> <<made + 1, k, names[k]>>], NoCall)))
    /\ made' = made + 1
    /\ UNCHANGED loopVars

\* The last message is replaced by one with the same id.
Replace(m) == Snapshot(Append(Front(msgs), m))

\* LoopDetectionMiddleware._apply.
AfterLoop ==
    LET verdict == Verdict(Thread, Names(Final)) IN
    /\ phase = "loop" /\ phase' = "limit"
    /\ IF Final.calls = <<>> THEN UNCHANGED <<msgs, told, loopVars>>
       ELSE /\ Track(Thread, Names(Final))
            /\ CASE verdict \in {"stop", "freq stop"} ->
                      Replace([Final EXCEPT !.calls = <<>>, !.text = "stopped"])
                 [] verdict \in {"warn", "freq warn"} ->
                      Replace([Final EXCEPT !.text = "said, warned"])
                 [] OTHER -> UNCHANGED <<msgs, told>>
    /\ UNCHANGED made

\* SubagentLimitMiddleware: task calls beyond the limit are dropped.
AfterLimit ==
    LET tasksUpTo(k) == Count(SubSeq(Names(Final), 1, k), Task)
        beyond == {k \in DOMAIN Final.calls : NameOf(Final.calls[k]) = Task /\ tasksUpTo(k) > TaskLimit}
    IN
    /\ phase = "limit" /\ phase' = "route"
    /\ IF beyond = {} THEN UNCHANGED <<msgs, told>>
       ELSE Replace([Final EXCEPT !.calls = Without(@, {Final.calls[k] : k \in beyond})])
    /\ UNCHANGED <<made, loopVars>>

\* No calls: the turn ends (title and memory hooks).
Route ==
    /\ phase = "route"
    /\ phase' = IF Final.calls = <<>> THEN "done" ELSE "tools"
    /\ UNCHANGED <<msgs, made, told, loopVars>>
-----------------------------------------------------------------------------
(* The tools of a response: each call goes through the gates, outermost    *)
(* first, and yields one message whatever happens.                         *)

\* PermissionPolicy.authorize; the chain gives it no prompter.
Permitted(n) == ActiveMode = 50 \/ ActiveMode >= RequiredMode[n]
\* A guardrail allows, denies or raises; a hook denies, or allows, changes its
\* input, and raises without effect; a command is blocked or not.
GuardrailSays == {"allow", "deny"} \cup (IF FailClosed THEN {"deny"} ELSE {"allow"})
HookSays == {"allow", "deny"}
AuditSays(n) == IF n = Bash THEN {"allow", "deny"} ELSE {"allow"}
\* A tool returns or raises, and ToolErrorHandlingMiddleware makes a message of
\* an exception; ClarificationMiddleware answers instead of its tool.
ToolSays(n) == IF n = Ask THEN {"asked"} ELSE {"result", "error"}

CallSays(n) ==
    IF ~Permitted(n) THEN {"deny"}
    ELSE {s \in GuardrailSays \cup HookSays \cup AuditSays(n) : s = "deny"} \cup ToolSays(n)

\* Mutant: the question is one tool among others.
NeverDirect(names) == FALSE

\* ask_clarification is return_direct, and so is no other tool.
EndsTurn(names) == \A k \in DOMAIN names : names[k] = Ask

ToolsRun ==
    LET calls == Final.calls
        answers == [k \in DOMAIN calls |-> [type |-> "tool", id |-> made + k, text |-> "said",
                                            calls |-> <<>>, of |-> IdOf(calls[k])]]
    IN
    /\ phase = "tools"
    /\ Snapshot(msgs \o answers)
    /\ made' = made + Len(calls)
    /\ \E say \in [DOMAIN calls -> {"deny", "asked", "result", "error"}] :
          /\ \A k \in DOMAIN calls : say[k] \in CallSays(NameOf(calls[k]))
          /\ phase' \in IF EndsTurn(Names(Final)) THEN {"done"}
                        ELSE {"before model"} \cup
                             {"done" : k \in {i \in DOMAIN calls : say[i] = "asked"}}
    /\ UNCHANGED loopVars

\* The model call fails, the run is cancelled, the process dies.
TurnStops ==
    /\ phase \notin {"idle", "done"} /\ phase' = "idle"
    /\ UNCHANGED <<msgs, made, told, loopVars>>

TurnNext ==
    \/ UserSays \/ BeforeModel
    \/ \E names \in Responses \cup {<<>>} : Model(names)
    \/ AfterLoop \/ AfterLimit \/ Route \/ ToolsRun \/ TurnStops

TurnSpec == TurnInit /\ [][TurnNext]_agentVars
-----------------------------------------------------------------------------
(* Properties. *)

Block(ms, i) == (i + 1) .. (i + Len(ms[i].calls))

\* What the model is asked is what providers accept: the answers to a message's
\* calls, all of them and nothing else, stand right behind it, whatever turns
\* were broken off before.
WellFormed(ms) ==
    /\ \A i \in DOMAIN ms :
          /\ Block(ms, i) \subseteq DOMAIN ms
          /\ {IdOf(ms[i].calls[k]) : k \in DOMAIN ms[i].calls} = {ms[j].of : j \in Block(ms, i)}
    /\ \A j \in DOMAIN ms : ms[j].type = "tool" =>
          \E i \in DOMAIN ms : ms[i].type = "ai" /\ j \in Block(ms, i)

RequestsWellFormed == phase = "model" => WellFormed(Patched(msgs))

\* When the agent does nothing but ask, the next who speaks is the user.
QuestionsWait ==
    \A i \in DOMAIN msgs : \A j \in DOMAIN msgs :
        (/\ msgs[i].type = "ai" /\ msgs[i].calls # <<>>
         /\ \A k \in DOMAIN msgs[i].calls : NameOf(msgs[i].calls[k]) = Ask
         /\ i < j /\ msgs[j].type = "ai")
        => \E k \in i .. j : msgs[k].type = "human" /\ msgs[k].text = "said"

TextOf(ms) == LET spoken == SelectSeq(ms, LAMBDA m : m.type = "ai" /\ m.text # "none") IN
              IF spoken = <<>> THEN <<0, "none">> ELSE <<Last(spoken).id, Last(spoken).text>>

\* Model and user each get what they are due, though turns break off anywhere.
TurnHolds == RequestsWellFormed /\ QuestionsWait

\* chat() keeps the last text of the stream.
ChatReturns == TextOf(told)

\* client.py of chat(): "The last AI message text, or empty string if no
\* response."  A message the loop detector edits was yielded before.
ChatReturnsLastText == phase = "done" => ChatReturns = TextOf(msgs)
=============================================================================
