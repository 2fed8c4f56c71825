-------------------------------- MODULE Session --------------------------------
(***************************************************************************)
(* The conversation between the UI (internal/tui), the runtime goroutine   *)
(* (liveEvents of cmd/mimo) and the goroutine of the agent run, over the   *)
(* event bus: prompts and their two queues, the interrupt, and the goal.   *)
(*                                                                         *)
(* The runtime selects over one channel per subscription, so that events   *)
(* published in one order are taken in another.  The prompt and interrupt  *)
(* subscriptions also carry every other event, and the bus drops what does *)
(* not fit: a prompt or an interrupt may be lost at any time.  The control *)
(* subscription is filtered and the UI's is large: both lose nothing here. *)
(*                                                                         *)
(* The run is the one AgentRun promises, which AgentLoop implements, with  *)
(* its events published one by one.                                        *)
(***************************************************************************)
EXTENDS Integers, Sequences, SequencesExt

CONSTANTS
  MaxPrompts,     \* bound: prompts the user submits (0 is the CLI's prompt)
  MaxGoals,       \* bound: goals the user sets
  MaxClears,      \* bound: /goal clear commands
  MaxInterrupts,  \* bound: ctrl+g
  MaxRetries      \* bound: re-entries a run reports

ASSUME SessionAssumption ==
  /\ MaxPrompts \in Nat /\ MaxGoals \in Nat /\ MaxClears \in Nat
  /\ MaxInterrupts \in Nat /\ MaxRetries \in Nat

Closings == {"satisfied", "impossible", "closed"}

VARIABLES
  uiRunning, promptQueue,               \* the UI
  goalCondition, goalStatus, goalCleared,
  submitted, goalsSet, clears, interrupts,  \* what the user has done
  userPrompts, interruptEvents, controlEvents, uiEvents,  \* subscriptions
  running, queuedPrompts, currentGoal,  \* the runtime
  run,                                  \* the agent run
  started, lost, resolved, overtaking   \* history

uiVars   == <<uiRunning, promptQueue, goalCondition, goalStatus, goalCleared>>
userVars == <<submitted, goalsSet, clears, interrupts>>
chanVars == <<userPrompts, interruptEvents, controlEvents, uiEvents>>
rtVars   == <<running, queuedPrompts, currentGoal>>
history  == <<started, lost, resolved, overtaking>>
svars    == <<uiVars, userVars, chanVars, rtVars, run, history>>

(* An event on the UI's or the control subscription, about a goal or none. *)
Event(type, goal) == [type |-> type, goal |-> goal]

(* phase is none, going (as AgentRun has it), ending or returned; sent     *)
(* counts the events of the log that have been published.                  *)
NoRun == [phase |-> "none", goal |-> 0, retries |-> 0, outcome |-> "none",
          log |-> <<>>, sent |-> 0]
Begun(goal) == [NoRun EXCEPT !.phase = "going", !.goal = goal]

Contract == INSTANCE AgentRun WITH
  live <- run.phase = "going", gated <- run.goal # 0, retries <- run.retries,
  outcome <- run.outcome, log <- run.log, MaxGoalReact <- MaxRetries

(* The CLI's prompt, if there is one, is started by the runtime itself.    *)
SInit ==
  /\ uiRunning = FALSE /\ promptQueue = <<>>
  /\ goalCondition = 0 /\ goalStatus = "none" /\ goalCleared = FALSE
  /\ submitted = 0 /\ goalsSet = 0 /\ clears = 0 /\ interrupts = 0
  /\ userPrompts = <<>> /\ interruptEvents = 0 /\ controlEvents = <<>>
  /\ queuedPrompts = <<>> /\ currentGoal = 0
  /\ running \in BOOLEAN
  /\ run = IF running THEN Begun(0) ELSE NoRun
  /\ uiEvents = IF running THEN <<Event("started", 0)>> ELSE <<>>
  /\ started = IF running THEN <<0>> ELSE <<>>
  /\ lost = {} /\ resolved = {} /\ overtaking = {}

-----------------------------------------------------------------------------
(* The UI publishes a prompt: it reaches the runtime's buffer or is lost.  *)
PublishPrompt(p) ==
  \/ userPrompts' = Append(userPrompts, p) /\ UNCHANGED lost
  \/ lost' = lost \union {p} /\ UNCHANGED userPrompts

(* Enter on a prompt.  Between the Error and the Done of a run that failed *)
(* the UI takes itself for idle, and its queue for none of its business.   *)
Submit ==
  LET p == submitted + 1
  IN /\ submitted < MaxPrompts
     /\ submitted' = p
     /\ IF uiRunning
        THEN promptQueue' = Append(promptQueue, p) /\ UNCHANGED <<userPrompts, lost, uiRunning>>
        ELSE PublishPrompt(p) /\ uiRunning' = TRUE /\ UNCHANGED promptQueue
     /\ overtaking' = IF ~uiRunning /\ promptQueue # <<>> THEN overtaking \union {p} ELSE overtaking
     /\ UNCHANGED <<goalCondition, goalStatus, goalCleared, goalsSet, clears, interrupts>>
     /\ UNCHANGED <<interruptEvents, controlEvents, uiEvents, rtVars, run, started, resolved>>

(* ctrl+g: only while the UI thinks a run is on.                           *)
Interrupt ==
  /\ uiRunning /\ interrupts < MaxInterrupts
  /\ interrupts' = interrupts + 1
  /\ promptQueue' = <<>>
  /\ lost' = lost \union ToSet(promptQueue)
  /\ interruptEvents' \in {interruptEvents, interruptEvents + 1}
  /\ UNCHANGED <<uiRunning, goalCondition, goalStatus, goalCleared>>
  /\ UNCHANGED <<submitted, goalsSet, clears, userPrompts, controlEvents, uiEvents>>
  /\ UNCHANGED <<rtVars, run, started, resolved, overtaking>>

SetGoal ==
  /\ goalsSet < MaxGoals
  /\ goalsSet' = goalsSet + 1
  /\ goalCondition' = goalsSet + 1 /\ goalStatus' = "active" /\ goalCleared' = FALSE
  /\ controlEvents' = Append(controlEvents, Event("set", goalsSet + 1))
  /\ UNCHANGED <<uiRunning, promptQueue, submitted, clears, interrupts>>
  /\ UNCHANGED <<userPrompts, interruptEvents, uiEvents, rtVars, run, history>>

ClearGoal ==
  /\ clears < MaxClears
  /\ clears' = clears + 1
  /\ goalCondition' = 0 /\ goalStatus' = "none" /\ goalCleared' = TRUE
  /\ controlEvents' = Append(controlEvents, Event("set", 0))
  /\ UNCHANGED <<uiRunning, promptQueue, submitted, goalsSet, interrupts>>
  /\ UNCHANGED <<userPrompts, interruptEvents, uiEvents, rtVars, run, history>>

-----------------------------------------------------------------------------
(* applyEvent of the UI, on the next event of its subscription.            *)
UiNext(type) == uiEvents # <<>> /\ Head(uiEvents).type = type /\ uiEvents' = Tail(uiEvents)

UiStarted ==
  /\ UiNext("started")
  /\ uiRunning' = TRUE
  /\ UNCHANGED <<promptQueue, goalCondition, goalStatus, goalCleared, userVars>>
  /\ UNCHANGED <<userPrompts, interruptEvents, controlEvents, rtVars, run, history>>

UiError ==
  /\ UiNext("error")
  /\ uiRunning' = FALSE
  /\ UNCHANGED <<promptQueue, goalCondition, goalStatus, goalCleared, userVars>>
  /\ UNCHANGED <<userPrompts, interruptEvents, controlEvents, rtVars, run, history>>

FaultyUiDone ==   \* mutant: a Done leaves the queue alone
  /\ UiNext("done")
  /\ uiRunning' = FALSE
  /\ UNCHANGED <<promptQueue, goalCondition, goalStatus, goalCleared, userVars>>
  /\ UNCHANGED <<userPrompts, interruptEvents, controlEvents, rtVars, run, history>>
UiDone ==
  /\ UiNext("done")
  /\ IF promptQueue = <<>>
     THEN uiRunning' = FALSE /\ UNCHANGED <<promptQueue, userPrompts, lost>>
     ELSE /\ uiRunning' = TRUE
          /\ promptQueue' = Tail(promptQueue)
          /\ PublishPrompt(Head(promptQueue))
  /\ UNCHANGED <<goalCondition, goalStatus, goalCleared, userVars>>
  /\ UNCHANGED <<interruptEvents, controlEvents, rtVars, run, started, resolved, overtaking>>

(* applyGoalUpdate: ignored once the user has cleared the goal.            *)
FaultyApplyGoalUpdate(type) ==   \* mutant: applied whatever the user did
  /\ UiNext(type)
  /\ goalStatus' = type
  /\ goalCondition' = IF type = "closed" THEN 0 ELSE Head(uiEvents).goal
  /\ UNCHANGED <<goalCleared, uiRunning, promptQueue, userVars>>
  /\ UNCHANGED <<userPrompts, interruptEvents, controlEvents, rtVars, run, history>>
ApplyGoalUpdate(type) ==
  /\ UiNext(type)
  /\ IF goalCleared
     THEN UNCHANGED <<goalStatus, goalCondition>>
     ELSE /\ goalStatus' = type
          /\ goalCondition' = IF type = "closed" THEN 0 ELSE Head(uiEvents).goal
  /\ UNCHANGED <<goalCleared, uiRunning, promptQueue, userVars>>
  /\ UNCHANGED <<userPrompts, interruptEvents, controlEvents, rtVars, run, history>>

Ui == UiStarted \/ UiError \/ UiDone \/ \E type \in Closings \union {"retry"} : ApplyGoalUpdate(type)

-----------------------------------------------------------------------------
(* The runtime.  applyControl on one control event.                        *)
GoalAfter(goal, event) ==
  CASE event.type = "set" -> event.goal
    [] event.type \in Closings -> 0
    [] OTHER -> goal

(* drainControl: every buffered control event, in order.                   *)
FaultyDrained == currentGoal   \* mutant: leaves the goal as it is
Drained == FoldLeft(GoalAfter, currentGoal, controlEvents)

(* startRun: drains the control events, then snapshots the goal.           *)
StartRun(p) ==
  /\ running' = TRUE
  /\ currentGoal' = Drained /\ controlEvents' = <<>>
  /\ run' = Begun(Drained)
  /\ uiEvents' = Append(uiEvents, Event("started", 0))
  /\ started' = Append(started, p)

FaultyTakePrompt ==   \* mutant: the newest prompt goes first
  /\ userPrompts # <<>>
  /\ userPrompts' = Tail(userPrompts)
  /\ IF running
     THEN /\ queuedPrompts' = <<Head(userPrompts)>> \o queuedPrompts
          /\ UNCHANGED <<running, currentGoal, controlEvents, run, uiEvents, started>>
     ELSE StartRun(Head(userPrompts)) /\ UNCHANGED queuedPrompts
  /\ UNCHANGED <<uiVars, userVars, interruptEvents, lost, resolved, overtaking>>
TakePrompt ==
  /\ userPrompts # <<>>
  /\ userPrompts' = Tail(userPrompts)
  /\ IF running
     THEN /\ queuedPrompts' = Append(queuedPrompts, Head(userPrompts))
          /\ UNCHANGED <<running, currentGoal, controlEvents, run, uiEvents, started>>
     ELSE StartRun(Head(userPrompts)) /\ UNCHANGED queuedPrompts
  /\ UNCHANGED <<uiVars, userVars, interruptEvents, lost, resolved, overtaking>>

FaultyTakeInterrupt ==   \* mutant: does not wait for the run to return
  /\ interruptEvents > 0
  /\ interruptEvents' = interruptEvents - 1
  /\ queuedPrompts' = IF running THEN <<>> ELSE queuedPrompts
  /\ lost' = IF running THEN lost \union ToSet(queuedPrompts) ELSE lost
  /\ running' = FALSE
  /\ UNCHANGED <<uiVars, userVars, userPrompts, controlEvents, uiEvents, currentGoal, run>>
  /\ UNCHANGED <<started, resolved, overtaking>>
(* agentCancel: the run may fail, at any time until it returns.            *)
TakeInterrupt ==
  /\ interruptEvents > 0
  /\ interruptEvents' = interruptEvents - 1
  /\ IF running
     THEN /\ queuedPrompts' = <<>>
          /\ lost' = lost \union ToSet(queuedPrompts)
     ELSE UNCHANGED <<queuedPrompts, lost>>
  /\ UNCHANGED <<uiVars, userVars, userPrompts, controlEvents, uiEvents, running, currentGoal>>
  /\ UNCHANGED <<run, started, resolved, overtaking>>

TakeControl ==
  /\ controlEvents # <<>>
  /\ currentGoal' = GoalAfter(currentGoal, Head(controlEvents))
  /\ controlEvents' = Tail(controlEvents)
  /\ UNCHANGED <<uiVars, userVars, userPrompts, interruptEvents, uiEvents>>
  /\ UNCHANGED <<running, queuedPrompts, run, history>>

FaultyTakeResult ==   \* mutant: leaves the prompt it starts in the queue
  /\ run.phase = "returned"
  /\ IF queuedPrompts = <<>>
     THEN /\ running' = FALSE /\ run' = NoRun
          /\ currentGoal' = Drained /\ controlEvents' = <<>>
          /\ UNCHANGED <<uiEvents, started>>
     ELSE StartRun(Head(queuedPrompts))
  /\ UNCHANGED <<uiVars, userVars, userPrompts, interruptEvents, queuedPrompts, lost, resolved, overtaking>>
(* runResults: the run is over; the next queued prompt starts.             *)
TakeResult ==
  /\ run.phase = "returned"
  /\ IF queuedPrompts = <<>>
     THEN /\ running' = FALSE /\ run' = NoRun
          /\ currentGoal' = Drained /\ controlEvents' = <<>>
          /\ UNCHANGED <<uiEvents, started, queuedPrompts>>
     ELSE /\ StartRun(Head(queuedPrompts))
          /\ queuedPrompts' = Tail(queuedPrompts)
  /\ UNCHANGED <<uiVars, userVars, userPrompts, interruptEvents, lost, resolved, overtaking>>

Runtime == TakePrompt \/ TakeInterrupt \/ TakeControl \/ TakeResult

-----------------------------------------------------------------------------
(* The run.  It goes on only when what it has to say is published.         *)
Reenter ==
  /\ run.phase = "going" /\ run.sent = Len(run.log)
  /\ run' = [run EXCEPT !.retries = @ + 1, !.log = Append(@, "goal open")]
  /\ Contract!Retry
  /\ UNCHANGED <<uiVars, userVars, chanVars, rtVars, history>>

Conclude(how) ==
  /\ run.phase = "going" /\ run.sent = Len(run.log)
  /\ run' = [run EXCEPT !.phase = "ending", !.outcome = how,
                        !.log = @ \o Contract!Ending(how, run.goal # 0)]
  /\ Contract!Finish
  /\ UNCHANGED <<uiVars, userVars, chanVars, rtVars, history>>

(* How a published report reads: a goal is closed as satisfied, as         *)
(* impossible or as given up, and only given up at the step limit.         *)
Readings(report) ==
  CASE report = "goal open" -> {"retry"}
    [] report = "goal closed" -> IF run.outcome = "max steps" THEN {"closed"} ELSE Closings
    [] OTHER -> {report}

Publish ==
  /\ run.sent < Len(run.log)
  /\ run' = [run EXCEPT !.sent = @ + 1]
  /\ \E type \in Readings(run.log[run.sent + 1]) :
       LET event == Event(type, run.goal)
           goalUpdate == type \in Closings \union {"retry"}
       IN /\ uiEvents' = Append(uiEvents, event)
          /\ controlEvents' = IF goalUpdate THEN Append(controlEvents, event) ELSE controlEvents
          /\ resolved' = IF type \in Closings THEN resolved \union {run.goal} ELSE resolved
  /\ UNCHANGED <<uiVars, userVars, userPrompts, interruptEvents, rtVars, started, lost, overtaking>>

Return ==
  /\ run.phase = "ending" /\ run.sent = Len(run.log)
  /\ run' = [run EXCEPT !.phase = "returned"]
  /\ UNCHANGED <<uiVars, userVars, chanVars, rtVars, history>>

Run ==
  \/ Reenter
  \/ \E how \in {"answer", "max steps", "failed"} : Conclude(how)
  \/ Publish
  \/ Return

-----------------------------------------------------------------------------
SNext == Submit \/ Interrupt \/ SetGoal \/ ClearGoal \/ Ui \/ Runtime \/ Run

(* Goroutines are scheduled, and the select is fair to each channel.       *)
SSpec ==
  /\ SInit /\ [][SNext]_svars
  /\ WF_svars(Ui) /\ WF_svars(Run)
  /\ WF_svars(TakePrompt) /\ WF_svars(TakeInterrupt)
  /\ WF_svars(TakeControl) /\ WF_svars(TakeResult)

-----------------------------------------------------------------------------
(* The runtime thinks a run is on exactly while one is, or its result is   *)
(* unread: two runs never share the history, the context map and the tools.*)
OneRunAtATime == running <=> run.phase # "none"

(* However prompts are queued twice, dropped and interrupted, none starts  *)
(* a second time, and none that was lost starts.                           *)
PromptsStartOnce ==
  /\ \A i, j \in DOMAIN started : started[i] = started[j] => i = j
  /\ ToSet(started) \intersect lost = {}

(* main.go, applyControl: drained "so that a goal the just-finished run    *)
(* resolved is cleared before any queued prompt starts": a run never       *)
(* starts with a goal that an earlier run has closed.                      *)
RunsStartUnresolved ==
  [][started' # started => run'.goal \notin resolved]_svars

(* model.go, applyGoalUpdate: after /goal clear "a stale verdict cannot    *)
(* resurrect the badge".                                                   *)
ClearedGoalStaysCleared == goalCleared => goalCondition = 0

(* As long as the bus dropped nothing and no interrupt threw a prompt      *)
(* away, every prompt the user submitted is run.                           *)
PromptsRun ==
  \A p \in 1..MaxPrompts : (submitted >= p) ~> (p \in ToSet(started) \/ lost # {})

(* README: "Prompt queue with FIFO ordering".  Through both queues, and    *)
(* whatever is lost from them, prompts start in the order of submission;   *)
(* the one that does not wait its turn is a prompt submitted between the   *)
(* Error and the Done of a failed run while others are queued in the UI.   *)
PromptsStartInOrder ==
  \A i, j \in DOMAIN started :
    i < j => started[i] < started[j] \/ started[i] \in overtaking

(* main.go, applyControl: "goal set: ... agent will not stop until an      *)
(* independent judge confirms it".  Until a verdict on it, or until the    *)
(* user sets or clears another, the runtime has the goal or is about to.   *)
GoalIsKept ==
  goalsSet # 0 /\ clears = 0 /\ goalsSet \notin resolved =>
    \/ currentGoal = goalsSet
    \/ Event("set", goalsSet) \in ToSet(controlEvents)
=============================================================================
