------------------------------- MODULE AgentLoop -------------------------------
(***************************************************************************)
(* agent.Loop of internal/agent, run once per prompt over the conversation *)
(* the runs before it returned.  A run is a bounded number of steps; each  *)
(* step streams the model (ModelStream), then executes the tool calls it   *)
(* collected, or takes the text as the final answer, which an independent  *)
(* judge may send back while a goal is active.  The total timeout, the     *)
(* interrupt of the user and the step timeout fire at any moment.          *)
(***************************************************************************)
EXTENDS ModelStream

CONSTANTS
  MaxSteps,      \* LoopConfig.MaxSteps
  MaxGoalReact,  \* LoopConfig.MaxGoalReact
  MaxRuns        \* bound: prompts given

ASSUME LoopAssumption ==
  MaxSteps \in Nat \ {0} /\ MaxGoalReact \in Nat \ {0} /\ MaxRuns \in Nat

VARIABLES
  pc,         \* idle, top (of the step), stream, judge, tools
  runs,       \* prompts given so far
  goalActive, \* the run has a goal and a judge
  totalLive,  \* the run's context is not done
  step, reactCount,
  toolCalls,  \* collected from the stream
  executed,   \* of which executed
  messages,   \* the conversation
  verdict,    \* the judge's last word in this run
  trace,      \* status of the current step's trace
  published,  \* what the run put on the bus, without the progress events
  outcome     \* what the run returned

loopVars == <<pc, runs, goalActive, totalLive, step, reactCount, toolCalls, executed,
              messages, verdict, trace, published, outcome>>
avars == <<loopVars, streamVars>>

Message(role, n) == [role |-> role, n |-> n]
(* n counts an assistant's calls and tells which of them a tool answers.   *)
System == Message("system", 0)
User   == Message("user", 0)

AInit ==
  /\ StreamInit
  /\ pc = "idle" /\ runs = 0 /\ goalActive = FALSE /\ totalLive = FALSE
  /\ step = 0 /\ reactCount = 0 /\ toolCalls = 0 /\ executed = 0
  /\ messages = <<System>> /\ verdict = "none" /\ trace = "none"
  /\ published = <<>> /\ outcome = "none"

-----------------------------------------------------------------------------
(* The run returns: goal is the final GoalUpdate, if any.                  *)
Return(result, status, goal) ==
  /\ pc' = "idle"
  /\ trace' = status
  /\ published' = published
       \o (goal \o (IF result = "answer" THEN <<"done">> ELSE <<"error", "done">>))
  /\ outcome' = result
  /\ totalLive' = FALSE

GoalClosed == IF goalActive THEN <<"goal closed">> ELSE <<>>

(* A prompt on top of the history the run before returned.                 *)
Prompt(goal) ==
  /\ pc = "idle" /\ runs < MaxRuns
  /\ pc' = "top" /\ runs' = runs + 1
  /\ goalActive' = goal /\ totalLive' = TRUE
  /\ step' = 0 /\ reactCount' = 0 /\ toolCalls' = 0 /\ executed' = 0
  /\ messages' = Append(messages, User)
  /\ verdict' = "none" /\ trace' = "none" /\ published' = <<>> /\ outcome' = "none"
  /\ UNCHANGED streamVars

FaultyReachMaxSteps ==   \* mutant: the goal stays open
  /\ pc = "top" /\ step = MaxSteps
  /\ Return("max steps", trace, <<>>)
  /\ UNCHANGED <<runs, goalActive, step, reactCount, toolCalls, executed, messages, verdict>>
  /\ UNCHANGED streamVars
(* The head of the for loop and the check of the total context.            *)
ReachMaxSteps ==
  /\ pc = "top" /\ step = MaxSteps
  /\ Return("max steps", trace, GoalClosed)
  /\ UNCHANGED <<runs, goalActive, step, reactCount, toolCalls, executed, messages, verdict>>
  /\ UNCHANGED streamVars

CancelledAtTop ==
  /\ pc = "top" /\ step < MaxSteps /\ ~totalLive
  /\ Return("cancelled", trace, <<>>)
  /\ UNCHANGED <<runs, goalActive, step, reactCount, toolCalls, executed, messages, verdict>>
  /\ UNCHANGED streamVars

(* The step context is a child of the total one: the total context may be  *)
(* done by the time the stream starts.                                     *)
StartStream ==
  /\ pc = "top" /\ step < MaxSteps /\ totalLive
  /\ pc' = "stream" /\ trace' = "running"
  /\ toolCalls' = 0 /\ executed' = 0
  /\ ChatStream
  /\ UNCHANGED <<runs, goalActive, totalLive, step, reactCount, messages, verdict,
                 published, outcome>>

StreamCannotStart ==
  /\ pc = "top" /\ step < MaxSteps /\ totalLive
  /\ Return("stream error", "failed", <<>>)
  /\ UNCHANGED <<runs, goalActive, step, reactCount, toolCalls, executed, messages, verdict>>
  /\ UNCHANGED streamVars

(* The select of the stream loop.                                          *)
CancelledInStream ==
  /\ pc = "stream" /\ ~totalLive
  /\ Return("cancelled", "failed", <<>>)
  /\ Abandon
  /\ UNCHANGED <<runs, goalActive, step, reactCount, toolCalls, executed, messages, verdict>>

ReceiveError ==
  /\ pc = "stream" /\ channel # <<>> /\ Head(channel).kind = "error"
  /\ Return("stream error", "failed", <<>>)
  /\ Abandon
  /\ UNCHANGED <<runs, goalActive, step, reactCount, toolCalls, executed, messages, verdict>>

ReceivePart ==
  /\ pc = "stream" /\ channel # <<>> /\ Head(channel).kind \in {"text", "calls"}
  /\ channel' = Tail(channel)
  /\ toolCalls' = toolCalls + Head(channel).calls
  /\ UNCHANGED <<producer, tries, webSearch, stripped, sends, closed, stepLive, response>>
  /\ UNCHANGED <<pc, runs, goalActive, totalLive, step, reactCount, executed, messages,
                 verdict, trace, published, outcome>>

(* Done or a closed channel; then the answer, the goal gate or the tools.  *)
StreamOver ==
  /\ pc = "stream"
  /\ IF channel = <<>> THEN closed ELSE Head(channel).kind = "done"
  /\ messages' = Append(messages, Message("assistant", toolCalls))
  /\ Abandon
  /\ IF toolCalls = 0 /\ ~goalActive
     THEN Return("answer", "done", <<>>)
     ELSE /\ pc' = IF toolCalls = 0 THEN "judge" ELSE "tools"
          /\ UNCHANGED <<totalLive, trace, published, outcome>>
  /\ UNCHANGED <<runs, goalActive, step, reactCount, toolCalls, executed, verdict>>

-----------------------------------------------------------------------------
(* The goal gate.  Evaluate is given the total context; the loop looks at  *)
(* that context again when Evaluate returns.                               *)
CancelledInJudge ==
  /\ pc = "judge" /\ ~totalLive
  /\ verdict' = "cut short"
  /\ Return("cancelled", "failed", <<>>)
  /\ UNCHANGED <<runs, goalActive, step, reactCount, toolCalls, executed, messages>>
  /\ UNCHANGED streamVars

(* Not met: the reminder is a user message, the re-entry uses up a step.   *)
SendBack ==
  /\ pc = "judge" /\ totalLive
  /\ reactCount < MaxGoalReact
  /\ verdict' = "unmet"
  /\ reactCount' = reactCount + 1 /\ step' = step + 1
  /\ pc' = "top" /\ trace' = "done"
  /\ messages' = Append(messages, User)
  /\ published' = Append(published, "goal open")
  /\ UNCHANGED <<runs, goalActive, totalLive, toolCalls, executed, outcome>>
  /\ UNCHANGED streamVars

GiveUp ==
  /\ pc = "judge" /\ totalLive
  /\ reactCount = MaxGoalReact
  /\ verdict' = "unmet"
  /\ Return("answer", "done", GoalClosed)
  /\ UNCHANGED <<runs, goalActive, step, reactCount, toolCalls, executed, messages>>
  /\ UNCHANGED streamVars

FaultySettle(word) ==   \* mutant: does not look at the context after the judge
  /\ pc = "judge"
  /\ verdict' = IF totalLive THEN word ELSE "cut short"
  /\ Return("answer", "done", GoalClosed)
  /\ UNCHANGED <<runs, goalActive, step, reactCount, toolCalls, executed, messages>>
  /\ UNCHANGED streamVars

(* Satisfied, impossible, or the judge failed: the run may stop.           *)
Settle(word) ==
  /\ pc = "judge" /\ totalLive
  /\ verdict' = word
  /\ Return("answer", "done", GoalClosed)
  /\ UNCHANGED <<runs, goalActive, step, reactCount, toolCalls, executed, messages>>
  /\ UNCHANGED streamVars

-----------------------------------------------------------------------------
(* Execute with the total context, which the loop itself does not look at  *)
(* until every call has been answered.                                     *)
FaultyExecute ==   \* mutant: returns between two calls once cancelled
  /\ pc = "tools" /\ executed < toolCalls
  /\ IF totalLive
     THEN /\ executed' = executed + 1
          /\ messages' = Append(messages, Message("tool", executed + 1))
          /\ UNCHANGED <<pc, totalLive, trace, published, outcome>>
     ELSE /\ Return("cancelled", "failed", <<>>)
          /\ UNCHANGED <<executed, messages>>
  /\ UNCHANGED <<runs, goalActive, step, reactCount, toolCalls, verdict>>
  /\ UNCHANGED streamVars
Execute ==
  /\ pc = "tools" /\ executed < toolCalls
  /\ executed' = executed + 1
  /\ messages' = Append(messages, Message("tool", executed + 1))
  /\ UNCHANGED <<pc, runs, goalActive, totalLive, step, reactCount, toolCalls, verdict,
                 trace, published, outcome>>
  /\ UNCHANGED streamVars

FaultyStepDone ==   \* mutant: leaves the step's trace running
  /\ pc = "tools" /\ executed = toolCalls
  /\ pc' = "top" /\ step' = step + 1
  /\ UNCHANGED <<runs, goalActive, totalLive, reactCount, toolCalls, executed, messages,
                 verdict, trace, published, outcome>>
  /\ UNCHANGED streamVars
(* AutoBudget (ContextMap) and the next step.                              *)
StepDone ==
  /\ pc = "tools" /\ executed = toolCalls
  /\ pc' = "top" /\ trace' = "done" /\ step' = step + 1
  /\ UNCHANGED <<runs, goalActive, totalLive, reactCount, toolCalls, executed, messages,
                 verdict, published, outcome>>
  /\ UNCHANGED streamVars

-----------------------------------------------------------------------------
TotalExpires ==
  /\ pc # "idle" /\ totalLive
  /\ totalLive' = FALSE /\ stepLive' = FALSE
  /\ UNCHANGED <<pc, runs, goalActive, step, reactCount, toolCalls, executed, messages,
                 verdict, trace, published, outcome>>
  /\ UNCHANGED <<producer, tries, webSearch, stripped, sends, channel, closed, response>>

StepExpires ==
  /\ pc = "stream" /\ stepLive
  /\ stepLive' = FALSE
  /\ UNCHANGED loopVars
  /\ UNCHANGED <<producer, tries, webSearch, stripped, sends, channel, closed, response>>

(* Steps of the loop that wait for nobody; a tool call ends by its own     *)
(* timeout, the judge at the latest when the total context is done.        *)
LoopStep ==
  \/ ReachMaxSteps \/ CancelledAtTop \/ StartStream \/ StreamCannotStart
  \/ CancelledInStream \/ ReceiveError \/ ReceivePart \/ StreamOver
  \/ CancelledInJudge \/ Execute \/ StepDone

JudgeStep == SendBack \/ GiveUp \/ \E word \in {"ok", "impossible", "failed"} : Settle(word)

ANext ==
  \/ \E goal \in BOOLEAN : Prompt(goal)
  \/ LoopStep
  \/ JudgeStep
  \/ Produce /\ UNCHANGED loopVars
  \/ TotalExpires
  \/ StepExpires

ASpec == AInit /\ [][ANext]_avars

(* The loop and the goroutine are scheduled, the step timer runs out.  The *)
(* server and the judge owe nothing; the total timer only bounds the judge.*)
Fairness ==
  /\ WF_avars(LoopStep)
  /\ WF_avars(Unaided /\ UNCHANGED loopVars)
  /\ WF_avars(StepExpires)
  /\ WF_avars(pc = "judge" /\ TotalExpires)

FairSpec == ASpec /\ Fairness

-----------------------------------------------------------------------------
(* The endpoint refuses a conversation in which a tool call goes without   *)
(* its answer or an answer without its call (client.go, toolCall).  Every  *)
(* call an assistant message carries is answered right after it, in order, *)
(* whenever the model is asked and in the history any return hands on;     *)
(* only while calls execute may the last message's answers be missing.     *)
CallsAreAnswered ==
  LET At(i, m) == i <= Len(messages) /\ messages[i] = m
      Missing(i) == {k \in 1..messages[i].n : ~At(i + k, Message("tool", k))}
      Asks(i) == messages[i].role = "assistant"
  IN /\ \A i \in DOMAIN messages : Asks(i) =>
          Missing(i) = {} \/ (pc = "tools" /\ Missing(i) = (executed + 1)..toolCalls)
     /\ \A j \in DOMAIN messages : messages[j].role = "tool" =>
          LET i == j - messages[j].n
          IN i > 0 /\ Asks(i) /\ messages[j].n <= messages[i].n

(* However a run ends, no trace step is left running, and an answer is not *)
(* reported as a failed step.                                              *)
TracesAreClosed ==
  outcome # "none" => trace # "running" /\ (trace = "failed" => outcome # "answer")

(* An answer ends a run with a goal only on a verdict given while the run  *)
(* was live, or when every re-entry is spent ("report it as such rather    *)
(* than masking it as a fail-open stop").                                  *)
AnswerPassedTheGate ==
  goalActive /\ outcome = "answer" =>
    \/ verdict \in {"ok", "impossible", "failed"}
    \/ verdict = "unmet" /\ reactCount = MaxGoalReact

(* While the step context is live no event is lost between the goroutine   *)
(* and the loop: the loop leaves the stream on a Done the server said, and *)
(* with every tool call of the response.                                   *)
LiveStreamIsWhole ==
  [][StreamOver /\ stepLive =>
       response.ended = "done" /\ toolCalls = response.calls]_avars

(* A run that returns an answer had the whole answer: the response was     *)
(* over, and asked for no tool (agent.go, Loop: "If there are no tool      *)
(* calls, the loop ends (the model produced a final answer)").             *)
AnswerIsFinal ==
  outcome = "answer" => response.ended = "done" /\ response.calls = 0

(* A server that never answers or never ends its response holds a run no   *)
(* longer than the timeouts of its steps, a judge that never answers no    *)
(* longer than the total timeout: every run returns.                       *)
EveryRunEnds == pc # "idle" ~> pc = "idle"

(* The loop implements AgentRun: however a run ends, the bus hears one     *)
(* Done, after everything else, with an Error just before it exactly when  *)
(* the run failed, and the goal is closed by an answer or the step limit   *)
(* and in no other way.  The runtime and the UI know of a run from these.  *)
Contract == INSTANCE AgentRun WITH
  live <- pc # "idle", gated <- goalActive, retries <- reactCount, log <- published,
  outcome <- IF outcome \in {"cancelled", "stream error"} THEN "failed" ELSE outcome
ImplementsAgentRun == Contract!RSpec
=============================================================================
