---------------------------- MODULE AgentLoopProofs ----------------------------
(***************************************************************************)
(* What holds of agent.Loop for every channel capacity, retry count, step  *)
(* limit, re-entry limit and number of prompts: an answer passed the goal  *)
(* gate, the loop implements AgentRun, every tool call of the conversation *)
(* is answered, no trace is left running, and nothing the server says is   *)
(* lost on its way to the loop while the step is live.                     *)
(***************************************************************************)
EXTENDS AgentLoop, TLAPS

(* While a run is on it has no outcome, and only a run with a goal is ever *)
(* before the judge: without the second half Settle could publish the      *)
(* closing of a goal that does not exist.                                  *)
GateInv ==
  /\ pc \in {"idle", "top", "stream", "judge", "tools"}
  /\ pc # "idle" => outcome = "none"
  /\ pc = "judge" => goalActive
  /\ AnswerPassedTheGate

-----------------------------------------------------------------------------
(* The steps that leave the run's own state alone.                         *)
LEMMA StreamStepsKeep ==
  ASSUME GateInv, (Produce /\ UNCHANGED loopVars) \/ TotalExpires \/ StepExpires \/ UNCHANGED avars
  PROVE  GateInv' /\ UNCHANGED <<pc, goalActive, reactCount, published, outcome>>
  BY DEF GateInv, AnswerPassedTheGate, TotalExpires, StepExpires, loopVars, avars

(* The steps of Loop itself: a return sets an outcome as it goes idle, and *)
(* an answer leaves by StreamOver only when there is no goal.              *)
LEMMA LoopStepKeeps ==
  ASSUME GateInv, LoopStep
  PROVE  GateInv'
  <1> USE DEF GateInv, AnswerPassedTheGate
  <1>1. CASE ReachMaxSteps
    BY <1>1 DEF ReachMaxSteps, Return
  <1>2. CASE CancelledAtTop
    BY <1>2 DEF CancelledAtTop, Return
  <1>3. CASE StartStream
    BY <1>3 DEF StartStream
  <1>4. CASE StreamCannotStart
    BY <1>4 DEF StreamCannotStart, Return
  <1>5. CASE CancelledInStream
    BY <1>5 DEF CancelledInStream, Return
  <1>6. CASE ReceiveError
    BY <1>6 DEF ReceiveError, Return
  <1>7. CASE ReceivePart
    BY <1>7 DEF ReceivePart
  <1>8. CASE StreamOver
    BY <1>8 DEF StreamOver, Return
  <1>9. CASE CancelledInJudge
    BY <1>9 DEF CancelledInJudge, Return
  <1>10. CASE Execute
    BY <1>10 DEF Execute
  <1>11. CASE StepDone
    BY <1>11 DEF StepDone
  <1>12. QED
    BY <1>1, <1>2, <1>3, <1>4, <1>5, <1>6, <1>7, <1>8, <1>9, <1>10, <1>11 DEF LoopStep

(* The steps at the gate: the verdicts that let the run end satisfy        *)
(* AnswerPassedTheGate.                                                    *)
LEMMA JudgeStepKeeps ==
  ASSUME GateInv, JudgeStep
  PROVE  GateInv'
  <1> USE DEF GateInv, AnswerPassedTheGate
  <1>1. CASE SendBack
    BY <1>1 DEF SendBack
  <1>2. CASE GiveUp
    BY <1>2 DEF GiveUp, Return
  <1>3. ASSUME NEW word \in {"ok", "impossible", "failed"}, Settle(word)
        PROVE  GateInv'
    BY <1>3 DEF Settle, Return
  <1>4. QED
    BY <1>1, <1>2, <1>3 DEF JudgeStep

(* GateInv is inductive.                                                   *)
LEMMA GateInductive ==
  /\ AInit => GateInv
  /\ GateInv /\ [ANext]_avars => GateInv'
  <1>1. AInit => GateInv
    BY DEF AInit, GateInv, AnswerPassedTheGate
  <1>2. ASSUME GateInv, NEW goal \in BOOLEAN, Prompt(goal)
        PROVE  GateInv'
    BY <1>2 DEF Prompt, GateInv, AnswerPassedTheGate
  <1>3. GateInv /\ [ANext]_avars => GateInv'
    BY <1>2, StreamStepsKeep, LoopStepKeeps, JudgeStepKeeps DEF ANext
  <1>4. QED
    BY <1>1, <1>3

(* A run with a goal never returns an answer past an unsatisfied judge     *)
(* that still had re-entries to give, or past a judge cut short.           *)
THEOREM GateHolds == ASpec => []AnswerPassedTheGate
  <1>1. GateInv => AnswerPassedTheGate
    BY DEF GateInv
  <1>2. QED
    BY <1>1, GateInductive, PTL DEF ASpec

-----------------------------------------------------------------------------
(* Every return of the loop is a Finish of the contract.                   *)
LEMMA ReturnFinishes ==
  ASSUME NEW result \in {"answer", "max steps", "cancelled", "stream error"},
         NEW status, NEW goal,
         pc # "idle",
         Return(result, status, goal),
         UNCHANGED <<goalActive, reactCount>>,
         goal = IF goalActive /\ result \in {"answer", "max steps"}
                THEN <<"goal closed">> ELSE <<>>
  PROVE  Contract!Finish
  <1> DEFINE how == IF result \in {"cancelled", "stream error"} THEN "failed" ELSE result
  <1>1. goal = Contract!Closing(how, goalActive)
    BY DEF Contract!Closing
  <1>2. published' = published \o Contract!Ending(how, goalActive)
    BY <1>1 DEF Return, Contract!Ending
  <1>3. how = IF outcome' \in {"cancelled", "stream error"} THEN "failed" ELSE outcome'
    BY DEF Return
  <1>4. how \in {"answer", "max steps", "failed"} /\ pc' = "idle"
    BY DEF Return
  <1>5. QED
    BY <1>2, <1>3, <1>4 DEF Contract!Finish

(* A step of Loop ends the run as the contract says, or is not seen.       *)
LEMMA LoopStepImplements ==
  ASSUME GateInv, LoopStep
  PROVE  [Contract!RNext]_(Contract!runVars)
  <1> DEFINE Quiet == UNCHANGED <<goalActive, reactCount, published, outcome>>
                        /\ pc # "idle" /\ pc' # "idle"
  <1>1. Quiet => UNCHANGED Contract!runVars
    BY DEF Contract!runVars
  <1>2. ASSUME Contract!Finish PROVE [Contract!RNext]_(Contract!runVars)
    BY <1>2 DEF Contract!RNext
  <1>3. CASE StartStream \/ ReceivePart \/ Execute \/ StepDone
    <2>1. Quiet
      BY <1>3 DEF StartStream, ReceivePart, Execute, StepDone
    <2>2. QED
      BY <2>1, <1>1
  <1>4. CASE ReachMaxSteps
    BY <1>4, <1>2, ReturnFinishes DEF ReachMaxSteps, GoalClosed
  <1>5. CASE CancelledAtTop
    BY <1>5, <1>2, ReturnFinishes DEF CancelledAtTop
  <1>6. CASE StreamCannotStart
    BY <1>6, <1>2, ReturnFinishes DEF StreamCannotStart
  <1>7. CASE CancelledInStream
    BY <1>7, <1>2, ReturnFinishes DEF CancelledInStream
  <1>8. CASE ReceiveError
    BY <1>8, <1>2, ReturnFinishes DEF ReceiveError
  <1>9. CASE StreamOver
    <2>1. CASE toolCalls = 0 /\ ~goalActive
      <3>1. pc # "idle" /\ Return("answer", "done", <<>>) /\ UNCHANGED <<goalActive, reactCount>>
        BY <1>9, <2>1 DEF StreamOver
      <3>2. Contract!Finish
        BY <2>1, <3>1, ReturnFinishes
      <3>3. QED
        BY <3>2, <1>2
    <2>2. CASE ~(toolCalls = 0 /\ ~goalActive)
      <3>1. Quiet
        BY <1>9, <2>2 DEF StreamOver
      <3>2. QED
        BY <3>1, <1>1
    <2>3. QED
      BY <2>1, <2>2
  <1>10. CASE CancelledInJudge
    BY <1>10, <1>2, ReturnFinishes DEF CancelledInJudge
  <1>11. QED
    BY <1>3, <1>4, <1>5, <1>6, <1>7, <1>8, <1>9, <1>10 DEF LoopStep

(* A step at the gate is a Retry or the Finish that closes the goal.       *)
LEMMA JudgeStepImplements ==
  ASSUME GateInv, JudgeStep
  PROVE  [Contract!RNext]_(Contract!runVars)
  <1>1. goalActive /\ pc = "judge"
    BY DEF GateInv, JudgeStep, SendBack, GiveUp, Settle
  <1>2. CASE SendBack
    <2>1. Contract!Retry
      BY <1>1, <1>2 DEF SendBack, Contract!Retry
    <2>2. QED
      BY <2>1 DEF Contract!RNext
  <1>3. CASE GiveUp \/ \E word \in {"ok", "impossible", "failed"} : Settle(word)
    <2>1. Return("answer", "done", <<"goal closed">>) /\ UNCHANGED <<goalActive, reactCount>>
      BY <1>1, <1>3 DEF GiveUp, Settle, GoalClosed
    <2>2. Contract!Finish
      BY <1>1, <2>1, ReturnFinishes
    <2>3. QED
      BY <2>2 DEF Contract!RNext
  <1>4. QED
    BY <1>2, <1>3 DEF JudgeStep

(* agent.Loop implements AgentRun: each of its steps is one of AgentRun's  *)
(* or changes nothing the runtime and the UI are told about the run.       *)
THEOREM LoopImplementsAgentRun == ASpec => ImplementsAgentRun
  <1>1. AInit => Contract!RInit
    BY DEF AInit, Contract!RInit
  <1>2. ASSUME GateInv, [ANext]_avars
        PROVE  [Contract!RNext]_(Contract!runVars)
    <2>1. ASSUME NEW goal \in BOOLEAN, Prompt(goal)
          PROVE  [Contract!RNext]_(Contract!runVars)
      BY <2>1 DEF Prompt, Contract!RNext, Contract!Begin
    <2>2. CASE (Produce /\ UNCHANGED loopVars) \/ TotalExpires \/ StepExpires \/ UNCHANGED avars
      BY <1>2, <2>2, StreamStepsKeep DEF Contract!runVars
    <2>3. QED
      BY <1>2, <2>1, <2>2, LoopStepImplements, JudgeStepImplements DEF ANext
  <1>3. QED
    BY <1>1, <1>2, GateInductive, PTL DEF ASpec, ImplementsAgentRun, Contract!RSpec

-----------------------------------------------------------------------------
(* What the goroutine and the loop pass on, and the conversation.          *)
ModelEvents == [kind : Kinds, calls : Nat]
Responses == [chunks : Nat, calls : Nat, ended : {"no", "done", "failed"}]
Messages == [role : {"system", "user", "assistant", "tool"}, n : Nat]

StreamTypes ==
  /\ producer \in {"off", "request", "backoff", "body", "finish", "exited"}
  /\ sends \in Seq(ModelEvents) /\ channel \in Seq(ModelEvents)
  /\ stepLive \in BOOLEAN /\ response \in Responses

LoopTypes ==
  /\ StreamTypes
  /\ toolCalls \in Nat /\ executed \in Nat /\ messages \in Seq(Messages)

LEMMA NoEvents == <<>> \in Seq(ModelEvents)
OBVIOUS

LEMMA SilenceIsResponse == Silence \in Responses /\ Silence.ended = "no" /\ Silence.calls = 0
BY DEF Silence, Responses

(* The events a goroutine ends with.                                       *)
LEMMA OneEvent ==
  ASSUME NEW kind \in Kinds, NEW n \in Nat
  PROVE  /\ Event(kind, n) \in ModelEvents /\ Event(kind, n).kind = kind /\ Event(kind, n).calls = n
         /\ <<Event(kind, n)>> \in Seq(ModelEvents)
<1>1. Event(kind, n) \in ModelEvents /\ Event(kind, n).kind = kind /\ Event(kind, n).calls = n
  BY DEF Event, ModelEvents
<1>2. \A e \in ModelEvents : <<e>> \in Seq(ModelEvents)
  OBVIOUS
<1> QED
  BY <1>1, <1>2

LEMMA LastEvents ==
  ASSUME response \in Responses
  PROVE  /\ Append(Completed, Event("done", 0)) \in Seq(ModelEvents)
         /\ <<Event("error", 0)>> \in Seq(ModelEvents)
<1>1. response.calls \in Nat
  BY DEF Responses
<1>2. "done" \in Kinds /\ "error" \in Kinds /\ "calls" \in Kinds /\ 0 \in Nat
  BY DEF Kinds
<1>3. Completed \in Seq(ModelEvents)
  BY <1>1, <1>2, OneEvent, NoEvents, Zenon DEF Completed
<1>4. \A s \in Seq(ModelEvents), e \in ModelEvents : Append(s, e) \in Seq(ModelEvents)
  OBVIOUS
<1> QED
  BY <1>2, <1>3, <1>4, OneEvent, Zenon

LEMMA FinishKeepsTypes ==
  ASSUME StreamTypes, NEW events \in Seq(ModelEvents), NEW ended \in {"done", "failed"}, Finish(events, ended)
  PROVE  /\ producer' = "finish" /\ sends' = events /\ response' \in Responses
         /\ response'.ended = ended /\ response'.calls = response.calls
BY DEF StreamTypes, Finish, Responses

LEMMA ChunkKeepsTypes ==
  ASSUME StreamTypes, NEW kind \in {"text", "calls"}, Chunk(kind)
  PROVE  /\ sends' = <<>> \/ sends' = <<Event("text", 0)>>
         /\ sends' \in Seq(ModelEvents) /\ response' \in Responses /\ response'.ended = response.ended
<1>1. response \in Responses /\ response.chunks \in Nat /\ response.calls \in Nat
  BY DEF StreamTypes, Responses
<1>2. PICK c \in Nat, d \in Nat : response' = [response EXCEPT !.chunks = c, !.calls = d]
  <2>1. response' = [response EXCEPT !.chunks = response.chunks + 1,
                                     !.calls = IF kind = "calls" THEN response.calls + 1 ELSE response.calls]
    BY DEF Chunk
  <2>2. response.chunks + 1 \in Nat /\ response.calls + 1 \in Nat
    BY <1>1
  <2>3. (IF kind = "calls" THEN response.calls + 1 ELSE response.calls) \in Nat
    BY <1>1, <2>2, Zenon
  <2> QED
    BY <2>1, <2>2, <2>3, Zenon
<1>3. response' \in Responses /\ response'.ended = response.ended
  BY <1>1, <1>2 DEF Responses
<1>4. sends' = <<>> \/ sends' = <<Event("text", 0)>>
  BY DEF Chunk
<1>5. "text" \in Kinds /\ 0 \in Nat
  BY DEF Kinds
<1>6. sends' \in Seq(ModelEvents)
  BY <1>4, <1>5, OneEvent, NoEvents, Zenon
<1> QED
  BY <1>3, <1>4, <1>6

LEMMA SendKeepsTypes ==
  ASSUME StreamTypes, Send
  PROVE  sends' \in Seq(ModelEvents) /\ channel' \in Seq(ModelEvents)
<1>1. sends \in Seq(ModelEvents) /\ channel \in Seq(ModelEvents) /\ sends # <<>>
  BY DEF StreamTypes, Send
<1>2. Head(sends) \in ModelEvents /\ Tail(sends) \in Seq(ModelEvents)
  BY <1>1
<1>3. Append(channel, Head(sends)) \in Seq(ModelEvents)
  BY <1>1, <1>2
<1>4. sends' = Tail(sends) /\ (channel' = Append(channel, Head(sends)) \/ channel' = channel)
  BY Zenon DEF Send
<1> QED
  BY <1>1, <1>2, <1>3, <1>4, Zenon

LEMMA ProduceKeepsTypes ==
  ASSUME StreamTypes, Produce
  PROVE  StreamTypes'
<1>1. CASE Accepted \/ WebSearchRefused \/ BackoffEnds \/ Close
  BY <1>1 DEF StreamTypes, Accepted, WebSearchRefused, BackoffEnds, Close
<1>2. ASSUME Finish(<<Event("error", 0)>>, "failed"), UNCHANGED <<channel, stepLive>>
      PROVE  StreamTypes'
  BY <1>2, LastEvents, FinishKeepsTypes DEF StreamTypes
<1>3. CASE RequestFails \/ BodyFails \/ BackoffCancelled
  BY <1>2, <1>3 DEF RequestFails, BodyFails, BackoffCancelled
<1>4. CASE Retryable
  <2>1. CASE tries < Retries
    BY <1>4, <2>1 DEF StreamTypes, Retryable
  <2>2. CASE ~(tries < Retries)
    BY <1>2, <1>4, <2>2 DEF Retryable
  <2> QED
    BY <2>1, <2>2
<1>5. CASE BodyEnds
  <2>1. Finish(Append(Completed, Event("done", 0)), "done") /\ UNCHANGED <<channel, stepLive>>
    BY <1>5 DEF BodyEnds
  <2>2. Append(Completed, Event("done", 0)) \in Seq(ModelEvents)
    BY LastEvents DEF StreamTypes
  <2>3. producer' = "finish" /\ sends' \in Seq(ModelEvents) /\ response' \in Responses
    BY <2>1, <2>2, FinishKeepsTypes, Zenon
  <2> QED
    BY <2>1, <2>3 DEF StreamTypes
<1>6. ASSUME NEW kind \in {"text", "calls"}, Chunk(kind)
      PROVE  StreamTypes'
  <2>1. sends' \in Seq(ModelEvents) /\ response' \in Responses
    BY <1>6, ChunkKeepsTypes
  <2> QED
    BY <1>6, <2>1 DEF StreamTypes, Chunk
<1>7. CASE Send
  <2>1. sends' \in Seq(ModelEvents) /\ channel' \in Seq(ModelEvents)
    BY <1>7, SendKeepsTypes
  <2> QED
    BY <1>7, <2>1 DEF StreamTypes, Send
<1> QED
  BY <1>1, <1>3, <1>4, <1>5, <1>6, <1>7 DEF Produce, Unaided

LEMMA AbandonKeepsTypes ==
  ASSUME StreamTypes, Abandon
  PROVE  StreamTypes'
BY NoEvents DEF StreamTypes, Abandon

LEMMA StreamUnchanged ==
  ASSUME StreamTypes, UNCHANGED streamVars
  PROVE  StreamTypes'
BY DEF StreamTypes, streamVars

-----------------------------------------------------------------------------
LEMMA Said ==
  ASSUME NEW m \in Messages, messages \in Seq(Messages), messages' = Append(messages, m)
  PROVE  /\ messages' \in Seq(Messages) /\ Len(messages') = Len(messages) + 1
         /\ Len(messages) \in Nat
         /\ messages'[Len(messages) + 1] = m
         /\ \A i \in 1..Len(messages) : messages'[i] = messages[i]
OBVIOUS

LEMMA MessagesAre ==
  ASSUME NEW n \in Nat
  PROVE  /\ System \in Messages /\ User \in Messages
         /\ Message("assistant", n) \in Messages /\ Message("tool", n) \in Messages
         /\ System.role = "system" /\ User.role = "user"
         /\ Message("assistant", n).role = "assistant" /\ Message("assistant", n).n = n
         /\ Message("tool", n).role = "tool" /\ Message("tool", n).n = n
BY DEF System, User, Message, Messages

LEMMA LoopTypesInit == AInit => LoopTypes
<1> SUFFICES ASSUME AInit PROVE LoopTypes
  OBVIOUS
<1>1. StreamTypes
  BY NoEvents, SilenceIsResponse DEF AInit, StreamInit, StreamTypes
<1>2. messages \in Seq(Messages)
  <2>1. \A m \in Messages : <<m>> \in Seq(Messages)
    OBVIOUS
  <2>2. System \in Messages
    BY DEF System, Message, Messages
  <2> QED
    BY <2>1, <2>2, Zenon DEF AInit
<1> QED
  BY <1>1, <1>2 DEF AInit, LoopTypes

LEMMA LoopTypesStep == LoopTypes /\ [ANext]_avars => LoopTypes'
<1> SUFFICES ASSUME LoopTypes, [ANext]_avars PROVE LoopTypes'
  OBVIOUS
<1>1. StreamTypes /\ toolCalls \in Nat /\ executed \in Nat /\ messages \in Seq(Messages)
  BY DEF LoopTypes
<1>2. ASSUME NEW goal \in BOOLEAN, Prompt(goal)
      PROVE  LoopTypes'
  BY <1>1, <1>2, StreamUnchanged, Said, MessagesAre DEF Prompt, LoopTypes
<1>3. CASE ReachMaxSteps \/ CancelledAtTop \/ StreamCannotStart \/ CancelledInJudge \/ StepDone
           \/ GiveUp \/ (\E word \in {"ok", "impossible", "failed"} : Settle(word)) \/ UNCHANGED avars
  <2>1. UNCHANGED <<streamVars, toolCalls, executed, messages>>
    BY <1>3 DEF ReachMaxSteps, CancelledAtTop, StreamCannotStart, CancelledInJudge, StepDone,
       GiveUp, Settle, avars, loopVars
  <2> QED
    BY <1>1, <2>1, StreamUnchanged DEF LoopTypes
<1>4. CASE StartStream
  <2>1. StreamTypes'
    BY <1>4, NoEvents, SilenceIsResponse DEF StartStream, ChatStream, StreamTypes
  <2> QED
    BY <1>1, <1>4, <2>1 DEF StartStream, LoopTypes
<1>5. CASE CancelledInStream \/ ReceiveError
  <2>1. StreamTypes'
    BY <1>1, <1>5, AbandonKeepsTypes DEF CancelledInStream, ReceiveError
  <2> QED
    BY <1>1, <1>5, <2>1 DEF CancelledInStream, ReceiveError, LoopTypes
<1>6. CASE ReceivePart
  <2>1. channel \in Seq(ModelEvents) /\ channel # <<>>
    BY <1>1, <1>6 DEF ReceivePart, StreamTypes
  <2>2. Head(channel) \in ModelEvents /\ Tail(channel) \in Seq(ModelEvents)
    BY <2>1
  <2>3. Head(channel).calls \in Nat
    BY <2>2 DEF ModelEvents
  <2>4. toolCalls + Head(channel).calls \in Nat
    BY <1>1, <2>3
  <2>5. channel' \in Seq(ModelEvents) /\ toolCalls' \in Nat
    BY <1>6, <2>2, <2>4, Zenon DEF ReceivePart
  <2> QED
    BY <1>1, <1>6, <2>5 DEF ReceivePart, LoopTypes, StreamTypes
<1>7. CASE StreamOver
  <2>1. StreamTypes' /\ UNCHANGED <<toolCalls, executed>>
    BY <1>1, <1>7, AbandonKeepsTypes DEF StreamOver
  <2>2. messages' = Append(messages, Message("assistant", toolCalls))
    BY <1>7 DEF StreamOver
  <2>3. messages' \in Seq(Messages)
    BY <1>1, <2>2, Said, MessagesAre
  <2> QED
    BY <1>1, <2>1, <2>3 DEF LoopTypes
<1>8. CASE SendBack
  <2>1. StreamTypes' /\ UNCHANGED <<toolCalls, executed>>
    BY <1>1, <1>8, StreamUnchanged DEF SendBack
  <2>2. messages' \in Seq(Messages)
    BY <1>1, <1>8, Said, MessagesAre DEF SendBack
  <2> QED
    BY <1>1, <2>1, <2>2 DEF LoopTypes
<1>9. CASE Execute
  <2>1. StreamTypes' /\ UNCHANGED toolCalls /\ executed' = executed + 1
        /\ messages' = Append(messages, Message("tool", executed + 1))
    BY <1>1, <1>9, StreamUnchanged DEF Execute
  <2>2. executed + 1 \in Nat
    BY <1>1
  <2>3. messages' \in Seq(Messages)
    BY <1>1, <2>1, <2>2, Said, MessagesAre
  <2> QED
    BY <1>1, <2>1, <2>2, <2>3 DEF LoopTypes
<1>10. CASE Produce /\ UNCHANGED loopVars
  BY <1>1, <1>10, ProduceKeepsTypes DEF LoopTypes, loopVars
<1>11. CASE TotalExpires \/ StepExpires
  BY <1>1, <1>11 DEF TotalExpires, StepExpires, loopVars, LoopTypes, StreamTypes
<1> QED
  BY <1>2, <1>3, <1>4, <1>5, <1>6, <1>7, <1>8, <1>9, <1>10, <1>11 DEF ANext, LoopStep, JudgeStep

-----------------------------------------------------------------------------
(* The conversation: every call is answered but those of the turn at work, *)
(* which is the last, and of which the first executed calls are answered.  *)
Answer(i, k) == i + k <= Len(messages) /\ messages[i + k] = Message("tool", k)
AtWork == Len(messages) - executed

TurnAtWork ==
  /\ pc \in {"idle", "top", "stream", "judge", "tools"}
  /\ pc = "stream" => executed = 0
  /\ pc = "tools" =>
       /\ executed <= toolCalls /\ AtWork > 0
       /\ messages[AtWork] = Message("assistant", toolCalls)
       /\ \A k \in 1..executed : Answer(AtWork, k)

AllAnswered ==
  \A i \in 1..Len(messages) : messages[i].role = "assistant" =>
    \/ \A k \in 1..messages[i].n : Answer(i, k)
    \/ pc = "tools" /\ i = AtWork

AllAsked ==
  \A j \in 1..Len(messages) : messages[j].role = "tool" =>
    LET i == j - messages[j].n
    IN i > 0 /\ messages[i].role = "assistant" /\ messages[j].n <= messages[i].n

Conversation == TurnAtWork /\ AllAnswered /\ AllAsked

LEMMA ConversationInit == AInit => Conversation
<1> SUFFICES ASSUME AInit PROVE Conversation
  OBVIOUS
<1>1. messages = <<System>> /\ pc = "idle"
  BY DEF AInit
<1>2. Len(<<System>>) = 1 /\ <<System>>[1] = System /\ \A i \in 1..1 : i = 1
  OBVIOUS
<1>3. System.role = "system"
  BY DEF System, Message
<1> QED
  BY <1>1, <1>2, <1>3 DEF Conversation, TurnAtWork, AllAnswered, AllAsked

(* Steps that say nothing.                                                 *)
LEMMA NothingSaid ==
  ASSUME LoopTypes, Conversation, UNCHANGED messages,
         \/ UNCHANGED <<pc, executed, toolCalls>>
         \/ /\ pc # "tools" \/ executed = toolCalls
            /\ pc' \in {"idle", "top"} \/ (pc' = "stream" /\ executed' = 0)
         \/ pc = "stream" /\ pc' = "stream" /\ UNCHANGED executed
  PROVE  Conversation'
<1>1. messages \in Seq(Messages) /\ executed \in Nat /\ toolCalls \in Nat
  BY DEF LoopTypes
<1>2. \A i, k : Answer(i, k)' = Answer(i, k)
  BY DEF Answer
<1>3. CASE UNCHANGED <<pc, executed, toolCalls>>
  BY <1>2, <1>3 DEF Conversation, TurnAtWork, AllAnswered, AllAsked, AtWork
<1>4. CASE pc' # "tools"
  <2>1. ASSUME NEW i \in 1..Len(messages), messages[i].role = "assistant"
        PROVE  \A k \in 1..messages[i].n : Answer(i, k)
    <3>1. CASE pc = "tools" /\ i = AtWork
      <4>1. executed = toolCalls
        BY <1>4, <3>1
      <4>2. messages[i] = Message("assistant", toolCalls) /\ \A k \in 1..executed : Answer(i, k)
        BY <3>1 DEF Conversation, TurnAtWork, AllAnswered, AllAsked
      <4> QED
        BY <1>1, <4>1, <4>2, MessagesAre
    <3>2. CASE ~(pc = "tools" /\ i = AtWork)
      BY <2>1, <3>2 DEF Conversation, TurnAtWork, AllAnswered, AllAsked
    <3> QED
      BY <3>1, <3>2
  <2>2. pc' \in {"idle", "top", "stream", "judge"} /\ (pc' = "stream" => executed' = 0)
    <3>0. pc \in {"idle", "top", "stream", "judge", "tools"} /\ (pc = "stream" => executed = 0)
      BY DEF Conversation, TurnAtWork
    <3>1. CASE pc' = pc /\ executed' = executed
      BY <1>4, <3>0, <3>1
    <3>2. CASE ~(pc' = pc /\ executed' = executed)
      BY <1>4, <3>2
    <3> QED
      BY <3>1, <3>2
  <2> QED
    BY <1>2, <1>4, <2>1, <2>2 DEF Conversation, TurnAtWork, AllAnswered, AllAsked
<1> QED
  BY <1>3, <1>4

(* What stays answered, and what stays asked, when more is said.           *)
LEMMA MoreSaid ==
  ASSUME LoopTypes, Conversation, NEW m \in Messages, messages' = Append(messages, m)
  PROVE  /\ \A i, k \in Nat : Answer(i, k) /\ i + k > 0 => Answer(i, k)'
         /\ \A j \in 1..Len(messages) : messages'[j].role = "tool" =>
              LET i == j - messages'[j].n
              IN i > 0 /\ messages'[i].role = "assistant" /\ messages'[j].n <= messages'[i].n
<1>1. /\ Len(messages') = Len(messages) + 1 /\ Len(messages) \in Nat
      /\ \A i \in 1..Len(messages) : messages'[i] = messages[i]
      /\ messages \in Seq(Messages)
  BY Said DEF LoopTypes
<1>2. ASSUME NEW i \in Nat, NEW k \in Nat, Answer(i, k), i + k > 0
      PROVE  Answer(i, k)'
  <2>1. i + k \in 1..Len(messages)
    BY <1>1, <1>2 DEF Answer
  <2> QED
    BY <1>1, <1>2, <2>1 DEF Answer
<1>3. ASSUME NEW j \in 1..Len(messages), messages'[j].role = "tool"
      PROVE  LET i == j - messages'[j].n
             IN i > 0 /\ messages'[i].role = "assistant" /\ messages'[j].n <= messages'[i].n
  <2> DEFINE i == j - messages[j].n
  <2>1. messages'[j] = messages[j] /\ messages[j] \in Messages
    BY <1>1
  <2>2. messages[j].n \in Nat
    BY <2>1 DEF Messages
  <2>3. i > 0 /\ messages[i].role = "assistant" /\ messages[j].n <= messages[i].n
    BY <1>3, <2>1 DEF Conversation, TurnAtWork, AllAnswered, AllAsked
  <2>4. i \in 1..Len(messages)
    BY <1>1, <2>2, <2>3
  <2> QED
    BY <1>1, <2>1, <2>3, <2>4
<1> QED
  BY <1>2, <1>3

LEMMA UserSaid ==
  ASSUME LoopTypes, Conversation, messages' = Append(messages, User), pc # "tools", pc' = "top"
  PROVE  Conversation'
<1>1. User \in Messages /\ User.role = "user"
  BY MessagesAre
<1>2. /\ Len(messages') = Len(messages) + 1 /\ Len(messages) \in Nat
      /\ \A i \in 1..Len(messages) : messages'[i] = messages[i]
      /\ messages'[Len(messages) + 1] = User /\ messages \in Seq(Messages)
  BY <1>1, Said DEF LoopTypes
<1>3. ASSUME NEW i \in 1..Len(messages'), messages'[i].role = "assistant", NEW k \in 1..messages'[i].n
      PROVE  Answer(i, k)'
  <2>1. i \in 1..Len(messages) /\ messages[i] = messages'[i]
    BY <1>1, <1>2, <1>3
  <2>2. messages[i].n \in Nat
    <3>1. messages[i] \in Messages
      BY <1>2, <2>1
    <3> QED
      BY <3>1 DEF Messages
  <2>3. Answer(i, k) /\ i \in Nat /\ k \in Nat /\ i + k > 0
    BY <1>3, <2>1, <2>2 DEF Conversation, TurnAtWork, AllAnswered, AllAsked
  <2> QED
    BY <1>1, <2>3, MoreSaid
<1>4. ASSUME NEW j \in 1..Len(messages'), messages'[j].role = "tool"
      PROVE  j \in 1..Len(messages)
  BY <1>1, <1>2, <1>4
<1> QED
  BY <1>1, <1>3, <1>4, MoreSaid DEF Conversation, TurnAtWork, AllAnswered, AllAsked

LEMMA AssistantSaid ==
  ASSUME LoopTypes, Conversation, pc = "stream", UNCHANGED <<executed, toolCalls>>,
         messages' = Append(messages, Message("assistant", toolCalls)),
         IF toolCalls = 0 THEN pc' \in {"idle", "judge"} ELSE pc' = "tools"
  PROVE  Conversation'
<1> DEFINE m == Message("assistant", toolCalls)
<1>1. m \in Messages /\ m.role = "assistant" /\ m.n = toolCalls /\ toolCalls \in Nat
  BY MessagesAre DEF LoopTypes
<1>2. /\ Len(messages') = Len(messages) + 1 /\ Len(messages) \in Nat
      /\ \A i \in 1..Len(messages) : messages'[i] = messages[i]
      /\ messages'[Len(messages) + 1] = m /\ messages \in Seq(Messages)
  BY <1>1, Said DEF LoopTypes
<1>3. executed = 0 /\ executed' = 0 /\ toolCalls' = toolCalls
  BY DEF Conversation, TurnAtWork, AllAnswered, AllAsked
<1>4. AtWork' = Len(messages) + 1
  BY <1>2, <1>3 DEF AtWork
<1>5. ASSUME NEW i \in 1..Len(messages'), messages'[i].role = "assistant",
             ~(pc' = "tools" /\ i = AtWork'), NEW k \in 1..messages'[i].n
      PROVE  Answer(i, k)'
  <2>1. CASE i = Len(messages) + 1
    BY <1>1, <1>2, <1>4, <1>5, <2>1
  <2>2. CASE i # Len(messages) + 1
    <3>1. i \in 1..Len(messages) /\ messages[i] = messages'[i]
      BY <1>2, <2>2
    <3>2. messages[i].n \in Nat
      <4>1. messages[i] \in Messages
        BY <1>2, <3>1
      <4> QED
        BY <4>1 DEF Messages
    <3>3. Answer(i, k) /\ i \in Nat /\ k \in Nat /\ i + k > 0
      BY <1>5, <3>1, <3>2 DEF Conversation, TurnAtWork, AllAnswered, AllAsked
    <3> QED
      BY <1>1, <3>3, MoreSaid
  <2> QED
    BY <2>1, <2>2
<1>6. ASSUME NEW j \in 1..Len(messages'), messages'[j].role = "tool"
      PROVE  j \in 1..Len(messages)
  BY <1>1, <1>2, <1>6
<1>7. pc' = "tools" => /\ executed' <= toolCalls' /\ AtWork' > 0
                       /\ messages'[AtWork'] = Message("assistant", toolCalls')
  BY <1>1, <1>2, <1>3, <1>4
<1>8. \A j \in 1..Len(messages') : messages'[j].role = "tool" =>
        LET i == j - messages'[j].n
        IN i > 0 /\ messages'[i].role = "assistant" /\ messages'[j].n <= messages'[i].n
  BY <1>1, <1>6, MoreSaid
<1> HIDE DEF m
<1>9. TurnAtWork'
  <2>1. pc' \in {"idle", "judge", "tools"} /\ 1..executed' = {}
    BY <1>3
  <2> QED
    BY <1>7, <2>1 DEF TurnAtWork
<1>10. AllAnswered' /\ AllAsked'
  BY <1>5, <1>8, Zenon DEF AllAnswered, AllAsked
<1> QED
  BY <1>9, <1>10 DEF Conversation

LEMMA ToolSaid ==
  ASSUME LoopTypes, Conversation, Execute
  PROVE  Conversation'
<1> DEFINE m == Message("tool", executed + 1)
<1>1. /\ executed \in Nat /\ toolCalls \in Nat /\ executed + 1 \in Nat /\ executed + 1 <= toolCalls
      /\ pc = "tools" /\ pc' = "tools" /\ executed' = executed + 1 /\ toolCalls' = toolCalls
      /\ messages' = Append(messages, m) /\ messages \in Seq(Messages)
  BY DEF Execute, LoopTypes
<1>b. PICK b \in Int : b = Len(messages) - executed
  BY <1>1
<1>2. m \in Messages /\ m.role = "tool" /\ m.n = executed + 1
  BY <1>1, MessagesAre
<1>3. /\ Len(messages') = Len(messages) + 1 /\ Len(messages) \in Nat
      /\ \A i \in 1..Len(messages) : messages'[i] = messages[i]
      /\ messages'[Len(messages) + 1] = m
  BY <1>1, <1>2, Said
<1>4. /\ b > 0 /\ messages[b] = Message("assistant", toolCalls)
      /\ \A k \in 1..executed : Answer(b, k)
  BY <1>1, <1>b DEF Conversation, TurnAtWork, AtWork
<1>5. AtWork' = b /\ b \in 1..Len(messages) /\ messages'[b] = messages[b]
  BY <1>1, <1>3, <1>4, <1>b DEF AtWork
<1>6. ASSUME NEW k \in 1..executed' PROVE Answer(b, k)'
  <2>1. CASE k = executed + 1
    <3>1. b + k = Len(messages) + 1
      BY <1>1, <1>3, <1>b, <2>1
    <3>2. messages'[b + k] = Message("tool", k) /\ b + k <= Len(messages')
      BY <1>3, <2>1, <3>1
    <3> HIDE DEF m
    <3> QED
      BY <3>2 DEF Answer
  <2>2. CASE k # executed + 1
    <3>1. k \in 1..executed /\ b \in Nat /\ k \in Nat /\ b + k > 0
      BY <1>1, <1>3, <1>4, <1>6, <1>b, <2>2
    <3>2. Answer(b, k)
      BY <1>4, <3>1
    <3> QED
      BY <1>1, <1>2, <3>1, <3>2, MoreSaid
  <2> QED
    BY <2>1, <2>2
<1>7. ASSUME NEW i \in 1..Len(messages'), messages'[i].role = "assistant", i # b,
             NEW k \in 1..messages'[i].n
      PROVE  Answer(i, k)'
  <2>1. i \in 1..Len(messages) /\ messages[i] = messages'[i]
    BY <1>2, <1>3, <1>7
  <2>2. messages[i].n \in Nat
    <3>1. messages[i] \in Messages
      BY <1>1, <2>1
    <3> QED
      BY <3>1 DEF Messages
  <2>3. Answer(i, k) /\ i \in Nat /\ k \in Nat /\ i + k > 0
    BY <1>7, <1>b, <2>1, <2>2 DEF Conversation, TurnAtWork, AllAnswered, AllAsked, AtWork
  <2> QED
    BY <1>1, <1>2, <2>3, MoreSaid
<1>8. ASSUME NEW j \in 1..Len(messages'), messages'[j].role = "tool"
      PROVE  LET i == j - messages'[j].n
             IN i > 0 /\ messages'[i].role = "assistant" /\ messages'[j].n <= messages'[i].n
  <2>1. CASE j = Len(messages) + 1
    <3>1. messages'[j].n = executed + 1 /\ j - (executed + 1) = b
      BY <1>1, <1>2, <1>3, <1>b, <2>1
    <3>2. messages'[b].role = "assistant" /\ messages'[b].n = toolCalls
      BY <1>1, <1>4, <1>5, MessagesAre
    <3> HIDE DEF m
    <3> QED
      BY <1>1, <1>4, <3>1, <3>2
  <2>2. CASE j # Len(messages) + 1
    <3>1. j \in 1..Len(messages)
      BY <1>3, <2>2
    <3> QED
      BY <1>1, <1>2, <1>8, <3>1, MoreSaid
  <2> QED
    BY <2>1, <2>2
<1> HIDE DEF m
<1>9. TurnAtWork'
  <2>1. \A k \in 1..executed' : Answer(AtWork, k)'
    BY <1>5, <1>6
  <2>2. messages'[AtWork'] = Message("assistant", toolCalls')
    BY <1>1, <1>4, <1>5
  <2>3. executed' <= toolCalls' /\ AtWork' > 0
    BY <1>1, <1>4, <1>5
  <2> QED
    BY <1>1, <2>1, <2>2, <2>3, Zenon DEF TurnAtWork
<1>10. AllAnswered' /\ AllAsked'
  BY <1>1, <1>5, <1>7, <1>8, Zenon DEF AllAnswered, AllAsked
<1> QED
  BY <1>9, <1>10 DEF Conversation

LEMMA ConversationStep == LoopTypes /\ Conversation /\ [ANext]_avars => Conversation'
<1> SUFFICES ASSUME LoopTypes, Conversation, [ANext]_avars PROVE Conversation'
  OBVIOUS
<1>1. ASSUME NEW goal \in BOOLEAN, Prompt(goal)
      PROVE  Conversation'
  BY <1>1, UserSaid DEF Prompt
<1>2. CASE SendBack
  BY <1>2, UserSaid DEF SendBack
<1>3. CASE StreamOver
  <2>1. IF toolCalls = 0 THEN pc' \in {"idle", "judge"} ELSE pc' = "tools"
    BY <1>3 DEF StreamOver, Return
  <2> QED
    BY <1>3, <2>1, AssistantSaid DEF StreamOver
<1>4. CASE Execute
  BY <1>4, ToolSaid
<1>5. CASE ReachMaxSteps \/ CancelledAtTop \/ StreamCannotStart \/ StartStream \/ CancelledInStream
           \/ ReceiveError \/ CancelledInJudge \/ StepDone \/ GiveUp
           \/ (\E word \in {"ok", "impossible", "failed"} : Settle(word))
  <2>1. UNCHANGED messages
    BY <1>5 DEF ReachMaxSteps, CancelledAtTop, StreamCannotStart, StartStream, CancelledInStream,
       ReceiveError, CancelledInJudge, StepDone, GiveUp, Settle
  <2>2. /\ pc # "tools" \/ executed = toolCalls
        /\ pc' \in {"idle", "top"} \/ (pc' = "stream" /\ executed' = 0)
    <3>1. CASE ReachMaxSteps \/ CancelledAtTop \/ StreamCannotStart \/ StartStream
      BY <3>1 DEF ReachMaxSteps, CancelledAtTop, StreamCannotStart, StartStream, Return
    <3>2. CASE CancelledInStream \/ ReceiveError \/ CancelledInJudge \/ GiveUp
               \/ \E word \in {"ok", "impossible", "failed"} : Settle(word)
      BY <3>2 DEF CancelledInStream, ReceiveError, CancelledInJudge, GiveUp, Settle, Return
    <3>3. CASE StepDone
      BY <3>3 DEF StepDone
    <3> QED
      BY <1>5, <3>1, <3>2, <3>3
  <2> QED
    BY <2>1, <2>2, NothingSaid
<1>6. CASE ReceivePart
  BY <1>6, NothingSaid DEF ReceivePart
<1>7. CASE (Produce /\ UNCHANGED loopVars) \/ TotalExpires \/ StepExpires \/ UNCHANGED avars
  <2>1. UNCHANGED <<pc, executed, toolCalls, messages>>
    BY <1>7 DEF TotalExpires, StepExpires, loopVars, avars
  <2> QED
    BY <2>1, NothingSaid
<1> QED
  BY <1>1, <1>2, <1>3, <1>4, <1>5, <1>6, <1>7 DEF ANext, LoopStep, JudgeStep

(* CallsAreAnswered (AgentLoop): every tool call of the conversation is    *)
(* answered right after it and in order, whenever the model is asked and   *)
(* in the history any return hands on to the next run.                     *)
THEOREM ConversationIsWellFormed == ASpec => []CallsAreAnswered
<1>1. LoopTypes /\ Conversation => CallsAreAnswered
  <2> SUFFICES ASSUME LoopTypes, Conversation PROVE CallsAreAnswered
    OBVIOUS
  <2> DEFINE Missing(i) == {k \in 1..messages[i].n : ~Answer(i, k)}
  <2>1. messages \in Seq(Messages) /\ DOMAIN messages = 1..Len(messages) /\ Len(messages) \in Nat
        /\ executed \in Nat /\ toolCalls \in Nat
    BY DEF LoopTypes
  <2>2. ASSUME NEW i \in DOMAIN messages, messages[i].role = "assistant"
        PROVE  Missing(i) = {} \/ (pc = "tools" /\ Missing(i) = (executed + 1)..toolCalls)
    <3>1. CASE \A k \in 1..messages[i].n : Answer(i, k)
      BY <3>1
    <3>2. CASE pc = "tools" /\ i = AtWork
      <4>1. messages[i].n = toolCalls /\ \A k \in 1..executed : Answer(i, k)
        BY <2>1, <3>2, MessagesAre DEF Conversation, TurnAtWork, AllAnswered, AllAsked
      <4>2. \A k \in (executed + 1)..toolCalls : ~Answer(i, k)
        BY <2>1, <3>2 DEF AtWork, Answer
      <4>3. \A k \in 1..toolCalls : k \in 1..executed \/ k \in (executed + 1)..toolCalls
        BY <2>1
      <4>4. (executed + 1)..toolCalls \subseteq 1..toolCalls
        BY <2>1
      <4>5. \A k : k \in Missing(i) <=> k \in (executed + 1)..toolCalls
        BY <4>1, <4>2, <4>3, <4>4, Zenon
      <4> QED
        BY <3>2, <4>5
    <3> QED
      BY <2>1, <2>2, <3>1, <3>2 DEF Conversation, TurnAtWork, AllAnswered, AllAsked
  <2>3. \A j \in DOMAIN messages : messages[j].role = "tool" =>
          LET i == j - messages[j].n
          IN i > 0 /\ messages[i].role = "assistant" /\ messages[j].n <= messages[i].n
    BY <2>1 DEF Conversation, TurnAtWork, AllAnswered, AllAsked
  <2>4. \A i, k : Answer(i, k) <=> i + k <= Len(messages) /\ messages[i + k] = Message("tool", k)
    BY DEF Answer
  <2> QED
    BY <2>2, <2>3, Zenon DEF CallsAreAnswered, Answer
<1> QED
  BY <1>1, LoopTypesInit, LoopTypesStep, ConversationInit, ConversationStep, PTL DEF ASpec

-----------------------------------------------------------------------------
(* A step's trace is closed before the next step begins, so that a return  *)
(* between two steps leaves none running.                                  *)
TraceInv ==
  /\ pc # "idle" => outcome = "none"
  /\ pc = "top" => trace \in {"none", "done"}
  /\ TracesAreClosed

(* TracesAreClosed (AgentLoop): however a run ends, no trace step is left  *)
(* running, and an answer is not reported as a failed step.                *)
THEOREM NoTraceIsLeftRunning == ASpec => []TracesAreClosed
<1>1. AInit => TraceInv
  BY DEF AInit, TraceInv, TracesAreClosed
<1>2. TraceInv /\ [ANext]_avars => TraceInv'
  <2> SUFFICES ASSUME TraceInv, [ANext]_avars PROVE TraceInv'
    OBVIOUS
  <2> USE DEF TraceInv, TracesAreClosed
  <2>1. ASSUME NEW goal \in BOOLEAN, Prompt(goal) PROVE TraceInv'
    BY <2>1 DEF Prompt
  <2>2. CASE ReachMaxSteps \/ CancelledAtTop
    BY <2>2 DEF ReachMaxSteps, CancelledAtTop, Return
  <2>3. CASE StartStream \/ StreamCannotStart
    BY <2>3 DEF StartStream, StreamCannotStart, Return
  <2>4. CASE CancelledInStream \/ ReceiveError \/ CancelledInJudge
    BY <2>4 DEF CancelledInStream, ReceiveError, CancelledInJudge, Return
  <2>5. CASE StreamOver
    BY <2>5 DEF StreamOver, Return
  <2>6. CASE ReceivePart \/ Execute
    BY <2>6 DEF ReceivePart, Execute
  <2>7. CASE StepDone \/ SendBack
    BY <2>7 DEF StepDone, SendBack
  <2>8. CASE GiveUp \/ \E word \in {"ok", "impossible", "failed"} : Settle(word)
    BY <2>8 DEF GiveUp, Settle, Return
  <2>9. CASE (Produce /\ UNCHANGED loopVars) \/ TotalExpires \/ StepExpires \/ UNCHANGED avars
    BY <2>9 DEF TotalExpires, StepExpires, loopVars, avars
  <2> QED
    BY <2>1, <2>2, <2>3, <2>4, <2>5, <2>6, <2>7, <2>8, <2>9 DEF ANext, LoopStep, JudgeStep
<1> QED
  BY <1>1, <1>2, PTL DEF ASpec, TraceInv

-----------------------------------------------------------------------------
(* The stream while its context is live: what is in the channel and what   *)
(* waits to be sent, in one sequence, is what the server has said and the  *)
(* loop has not received.                                                  *)
Pending == channel \o sends

Plain(e) == e.kind = "text" /\ e.calls = 0
Texts(p) == \A i \in 1..Len(p) : Plain(p[i])
Failing(p) ==
  /\ Len(p) > 0 /\ p[Len(p)].kind = "error"
  /\ \A i \in 1..Len(p) : i < Len(p) => Plain(p[i])
Ending(p, received, calls) ==
  /\ Len(p) > 0 /\ p[Len(p)].kind = "done" /\ p[Len(p)].calls = 0
  /\ \/ /\ received = calls
        /\ \A i \in 1..Len(p) : i < Len(p) => Plain(p[i])
     \/ /\ received = 0 /\ Len(p) > 1
        /\ p[Len(p) - 1].kind = "calls" /\ p[Len(p) - 1].calls = calls
        /\ \A i \in 1..Len(p) : i < Len(p) - 1 => Plain(p[i])

Told(p, received) ==
  \/ /\ producer \in {"request", "backoff", "body"} /\ response.ended = "no"
     /\ received = 0 /\ Texts(p)
  \/ /\ producer \in {"finish", "exited"} /\ response.ended = "failed"
     /\ Failing(p)
  \/ /\ producer \in {"finish", "exited"} /\ response.ended = "done"
     /\ Ending(p, received, response.calls)

Flow ==
  stepLive =>
    /\ pc = "stream"
    /\ closed => producer = "exited"
    /\ producer = "exited" => sends = <<>>
    /\ Told(Pending, toolCalls)

(* What becomes of it as events are sent and received.                     *)
LEMMA Moved ==
  ASSUME NEW S, NEW c \in Seq(S), NEW s \in Seq(S), s # <<>>
  PROVE  Append(c, Head(s)) \o Tail(s) = c \o s
OBVIOUS

LEMMA Taken ==
  ASSUME NEW S, NEW c \in Seq(S), NEW s \in Seq(S), c # <<>>
  PROVE  /\ Tail(c) \o s = Tail(c \o s) /\ Head(c) = (c \o s)[1]
         /\ c \o s \in Seq(S) /\ c \o s # <<>>
OBVIOUS

LEMMA NothingJoined ==
  ASSUME NEW S, NEW c \in Seq(S)
  PROVE  c \o <<>> = c /\ <<>> \o c = c
OBVIOUS

LEMMA OneJoined ==
  ASSUME NEW S, NEW c \in Seq(S), NEW e \in S
  PROVE  /\ c \o <<e>> = Append(c, e) /\ Append(c, e) \in Seq(S)
         /\ Len(Append(c, e)) = Len(c) + 1 /\ Append(c, e)[Len(c) + 1] = e
         /\ \A i \in 1..Len(c) : Append(c, e)[i] = c[i]
         /\ Len(c) \in Nat
OBVIOUS

LEMMA TwoJoined ==
  ASSUME NEW S, NEW c \in Seq(S), NEW d \in S, NEW e \in S
  PROVE  c \o Append(<<d>>, e) = Append(Append(c, d), e)
OBVIOUS

LEMMA Rest ==
  ASSUME NEW S, NEW p \in Seq(S), p # <<>>
  PROVE  /\ Len(Tail(p)) = Len(p) - 1 /\ Len(p) \in Nat \ {0} /\ Tail(p) \in Seq(S)
         /\ \A i \in 1..(Len(p) - 1) : Tail(p)[i] = p[i + 1]
OBVIOUS

LEMMA PrefixIsPlain ==
  ASSUME NEW c \in Seq(ModelEvents), NEW s \in Seq(ModelEvents), Texts(c \o s)
  PROVE  Texts(c)
<1>1. \A i \in 1..Len(c) : i \in 1..Len(c \o s) /\ (c \o s)[i] = c[i]
  OBVIOUS
<1> QED
  BY <1>1 DEF Texts

LEMMA LaterText ==
  ASSUME NEW c \in Seq(ModelEvents), Texts(c)
  PROVE  Texts(Append(c, Event("text", 0)))
<1> DEFINE e == Event("text", 0)
<1>1. e \in ModelEvents /\ Plain(e)
  BY DEF Event, ModelEvents, Kinds, Plain
<1> HIDE DEF e
<1>2. /\ Len(Append(c, e)) = Len(c) + 1 /\ Append(c, e)[Len(c) + 1] = e /\ Len(c) \in Nat
      /\ \A i \in 1..Len(c) : Append(c, e)[i] = c[i]
  BY <1>1, OneJoined
<1>3. \A i \in 1..Len(Append(c, e)) : i \in 1..Len(c) \/ i = Len(c) + 1
  BY <1>2
<1>4. Texts(Append(c, e))
  BY <1>1, <1>2, <1>3 DEF Texts
<1> QED
  BY <1>4 DEF e

LEMMA LastError ==
  ASSUME NEW c \in Seq(ModelEvents), Texts(c)
  PROVE  Failing(c \o <<Event("error", 0)>>)
<1> DEFINE e == Event("error", 0)
<1>1. e \in ModelEvents /\ e.kind = "error"
  BY DEF Event, ModelEvents, Kinds
<1> HIDE DEF e
<1>2. /\ Len(Append(c, e)) = Len(c) + 1 /\ Append(c, e)[Len(c) + 1] = e /\ Len(c) \in Nat
      /\ \A i \in 1..Len(c) : Append(c, e)[i] = c[i]
      /\ c \o <<e>> = Append(c, e)
  BY <1>1, OneJoined
<1>3. \A i \in 1..Len(Append(c, e)) : i < Len(Append(c, e)) => i \in 1..Len(c)
  BY <1>2
<1>4. Failing(Append(c, e))
  BY <1>1, <1>2, <1>3 DEF Failing, Texts
<1> QED
  BY <1>2, <1>4 DEF e

LEMMA LastDone ==
  ASSUME NEW c \in Seq(ModelEvents), Texts(c), response.calls \in Nat
  PROVE  Ending(c \o Append(Completed, Event("done", 0)), 0, response.calls)
<1> DEFINE e == Event("done", 0)
           d == Event("calls", response.calls)
<1>1. e \in ModelEvents /\ e.kind = "done" /\ e.calls = 0
      /\ d \in ModelEvents /\ d.kind = "calls" /\ d.calls = response.calls
  BY DEF Event, ModelEvents, Kinds
<1>2. Completed = IF response.calls = 0 THEN <<>> ELSE <<d>>
  BY DEF Completed
<1> HIDE DEF e, d
<1>3. CASE response.calls = 0
  <2>1. Append(Completed, e) = <<e>>
    BY <1>2, <1>3
  <2>2. /\ Len(Append(c, e)) = Len(c) + 1 /\ Append(c, e)[Len(c) + 1] = e /\ Len(c) \in Nat
        /\ \A i \in 1..Len(c) : Append(c, e)[i] = c[i]
        /\ c \o <<e>> = Append(c, e)
    BY <1>1, OneJoined
  <2>3. \A i \in 1..Len(Append(c, e)) : i < Len(Append(c, e)) => i \in 1..Len(c)
    BY <2>2
  <2>4. Ending(Append(c, e), 0, response.calls)
    BY <1>1, <1>3, <2>2, <2>3 DEF Ending, Texts
  <2> QED
    BY <2>1, <2>2, <2>4 DEF e
<1>4. CASE response.calls # 0
  <2> DEFINE b == Append(c, d)
             p == Append(b, e)
  <2>1. /\ Len(b) = Len(c) + 1 /\ b[Len(c) + 1] = d /\ Len(c) \in Nat /\ b \in Seq(ModelEvents)
        /\ \A i \in 1..Len(c) : b[i] = c[i]
    BY <1>1, OneJoined
  <2>2. c \o Append(<<d>>, e) = p
    BY <1>1, TwoJoined
  <2> HIDE DEF b
  <2>3. /\ Len(p) = Len(b) + 1 /\ p[Len(b) + 1] = e /\ Len(b) \in Nat
        /\ \A i \in 1..Len(b) : p[i] = b[i]
    BY <1>1, <2>1, OneJoined
  <2> HIDE DEF p
  <2>4. Len(p) = Len(c) + 2 /\ p[Len(p)] = e /\ p[Len(p) - 1] = d
        /\ \A i \in 1..Len(p) : i < Len(p) - 1 => i \in 1..Len(c) /\ p[i] = c[i]
    BY <2>1, <2>3
  <2>5. Ending(p, 0, response.calls)
    BY <1>1, <2>1, <2>4 DEF Ending, Texts
  <2> QED
    BY <1>2, <1>4, <2>2, <2>5 DEF e
<1> QED
  BY <1>1, <1>3, <1>4

LEMMA FlowTypes ==
  ASSUME LoopTypes
  PROVE  /\ channel \in Seq(ModelEvents) /\ sends \in Seq(ModelEvents) /\ Pending \in Seq(ModelEvents)
         /\ response \in Responses /\ response.calls \in Nat /\ toolCalls \in Nat
<1>1. channel \in Seq(ModelEvents) /\ sends \in Seq(ModelEvents) /\ response \in Responses /\ toolCalls \in Nat
  BY DEF LoopTypes, StreamTypes
<1>2. channel \o sends \in Seq(ModelEvents)
  BY <1>1
<1>3. response.calls \in Nat
  BY <1>1 DEF Responses
<1> QED
  BY <1>1, <1>2, <1>3 DEF Pending

LEMMA FailKeepsFlow ==
  ASSUME LoopTypes, Flow, stepLive, Finish(<<Event("error", 0)>>, "failed"),
         producer \in {"request", "backoff", "body"},
         UNCHANGED <<pc, channel, closed, toolCalls>>
  PROVE  Flow'
<1>1. Texts(Pending) /\ ~closed
  BY DEF Flow, Told
<1>2. Texts(channel)
  BY <1>1, FlowTypes, PrefixIsPlain DEF Pending
<1>3. Pending' = channel \o <<Event("error", 0)>> /\ producer' = "finish"
  BY DEF Pending, Finish
<1>4. Failing(Pending')
  BY <1>2, <1>3, FlowTypes, LastError
<1>5. response'.ended = "failed"
  BY FlowTypes DEF Finish, Responses
<1>6. Told(Pending, toolCalls)'
  BY <1>3, <1>4, <1>5 DEF Told, Failing, Plain
<1> QED
  BY <1>1, <1>3, <1>6 DEF Flow

LEMMA ProduceKeepsFlow ==
  ASSUME LoopTypes, Flow, Produce, UNCHANGED loopVars
  PROVE  Flow'
<1>0. stepLive' = stepLive /\ UNCHANGED <<pc, toolCalls>>
  BY DEF Produce, Unaided, Accepted, Retryable, WebSearchRefused, RequestFails, Chunk, BodyEnds, BodyFails,
     Send, Close, BackoffEnds, BackoffCancelled, loopVars
<1> SUFFICES ASSUME stepLive PROVE Flow'
  BY <1>0 DEF Flow
<1>1. /\ pc = "stream" /\ (closed => producer = "exited") /\ (producer = "exited" => sends = <<>>)
      /\ Told(Pending, toolCalls)
  BY DEF Flow
<1>2. CASE Accepted \/ WebSearchRefused \/ BackoffEnds \/ (Retryable /\ tries < Retries)
  <2>1. /\ UNCHANGED <<sends, channel, closed, response>>
        /\ producer \in {"request", "backoff", "body"} /\ producer' \in {"request", "backoff", "body"}
    BY <1>2 DEF Accepted, WebSearchRefused, BackoffEnds, Retryable
  <2>2. Pending' = Pending /\ ~closed
    BY <1>1, <2>1 DEF Pending
  <2>3. Told(Pending, toolCalls)'
    BY <1>0, <1>1, <2>1, <2>2 DEF Told, Texts, Plain
  <2> QED
    BY <1>0, <1>1, <2>1, <2>2, <2>3 DEF Flow
<1>3. CASE RequestFails \/ BodyFails \/ (Retryable /\ ~(tries < Retries))
  BY <1>0, <1>3, FailKeepsFlow DEF RequestFails, BodyFails, Retryable
<1>4. CASE BackoffCancelled
  BY <1>4 DEF BackoffCancelled
<1>5. ASSUME NEW kind \in {"text", "calls"}, Chunk(kind)
      PROVE  Flow'
  <2>1. /\ UNCHANGED <<producer, channel, closed>> /\ producer = "body" /\ sends = <<>>
    BY <1>5 DEF Chunk
  <2>2. (sends' = <<>> \/ sends' = <<Event("text", 0)>>) /\ response'.ended = response.ended
    BY <1>5, ChunkKeepsTypes DEF LoopTypes
  <2>3. Pending = channel /\ Texts(channel) /\ response.ended = "no" /\ toolCalls = 0 /\ ~closed
    <3>1. Pending = channel
      BY <2>1, FlowTypes, NothingJoined DEF Pending
    <3> QED
      BY <1>1, <2>1, <3>1 DEF Told
  <2>4. Pending' = channel \/ Pending' = Append(channel, Event("text", 0))
    <3>1. Pending' = channel \o sends'
      BY <2>1 DEF Pending
    <3>2. Event("text", 0) \in ModelEvents
      BY DEF Event, ModelEvents, Kinds
    <3>3. channel \o <<>> = channel
      BY FlowTypes, NothingJoined
    <3>4. channel \o <<Event("text", 0)>> = Append(channel, Event("text", 0))
      BY <3>2, FlowTypes, OneJoined
    <3> QED
      BY <2>2, <3>1, <3>3, <3>4, Zenon
  <2>5. Texts(Pending')
    BY <2>3, <2>4, FlowTypes, LaterText
  <2>6. Told(Pending, toolCalls)'
    BY <1>0, <2>1, <2>2, <2>3, <2>5 DEF Told, Texts, Plain
  <2> QED
    BY <1>0, <1>1, <2>1, <2>3, <2>6 DEF Flow
<1>6. CASE BodyEnds
  <2>1. /\ UNCHANGED <<channel, closed>> /\ producer = "body" /\ sends = <<>> /\ producer' = "finish"
        /\ sends' = Append(Completed, Event("done", 0))
        /\ response' = [response EXCEPT !.ended = "done"]
    BY <1>6 DEF BodyEnds, Finish
  <2>2. Pending = channel /\ Texts(channel) /\ toolCalls = 0 /\ ~closed
    <3>1. Pending = channel
      BY <2>1, FlowTypes, NothingJoined DEF Pending
    <3> QED
      BY <1>1, <2>1, <3>1 DEF Told
  <2>3. response'.ended = "done" /\ response'.calls = response.calls
    BY <2>1, FlowTypes DEF Responses
  <2>4. Ending(channel \o Append(Completed, Event("done", 0)), 0, response.calls)
    BY <2>2, FlowTypes, LastDone
  <2>5. Pending' = channel \o Append(Completed, Event("done", 0))
    BY <2>1 DEF Pending
  <2>6. Ending(Pending', toolCalls', response'.calls)
    BY <1>0, <2>2, <2>3, <2>4, <2>5
  <2>7. Told(Pending, toolCalls)'
    BY <2>1, <2>3, <2>6 DEF Told, Ending, Plain
  <2> QED
    BY <1>0, <1>1, <2>1, <2>2, <2>7 DEF Flow
<1>7. CASE Send
  <2>1. /\ UNCHANGED <<producer, closed, response>> /\ sends # <<>> /\ sends' = Tail(sends)
        /\ channel' = Append(channel, Head(sends))
    BY <1>7 DEF Send
  <2>2. Pending' = Pending
    BY <2>1, FlowTypes, Moved DEF Pending
  <2>3. Told(Pending, toolCalls)'
    BY <1>0, <1>1, <2>1, <2>2 DEF Told, Texts, Failing, Ending, Plain
  <2> QED
    BY <1>0, <1>1, <2>1, <2>3 DEF Flow
<1>8. CASE Close
  <2>1. /\ UNCHANGED <<sends, channel, response>> /\ producer = "finish" /\ sends = <<>>
        /\ producer' = "exited"
    BY <1>8 DEF Close
  <2>2. Pending' = Pending
    BY <2>1 DEF Pending
  <2>3. Told(Pending, toolCalls)'
    BY <1>0, <1>1, <2>1, <2>2 DEF Told, Texts, Failing, Ending, Plain
  <2> QED
    BY <1>0, <1>1, <2>1, <2>3 DEF Flow
<1> QED
  BY <1>2, <1>3, <1>4, <1>5, <1>6, <1>7, <1>8 DEF Produce, Unaided

LEMMA ReceiveKeepsFlow ==
  ASSUME LoopTypes, Flow, ReceivePart
  PROVE  Flow'
<1>0. /\ UNCHANGED <<stepLive, pc, producer, sends, closed, response>> /\ channel # <<>>
      /\ channel' = Tail(channel) /\ toolCalls' = toolCalls + Head(channel).calls
      /\ Head(channel).kind \in {"text", "calls"}
  BY DEF ReceivePart
<1> SUFFICES ASSUME stepLive PROVE Flow'
  BY <1>0 DEF Flow
<1>1. /\ pc = "stream" /\ (closed => producer = "exited") /\ (producer = "exited" => sends = <<>>)
      /\ Told(Pending, toolCalls)
  BY DEF Flow
<1>2. Pending' = Tail(Pending) /\ Head(channel) = Pending[1] /\ Pending # <<>>
  BY <1>0, FlowTypes, Taken DEF Pending
<1> DEFINE p == Pending
           q == Tail(Pending)
           n == Len(Pending)
<1>3. /\ n \in Nat \ {0} /\ Len(q) = n - 1
      /\ \A i \in 1..(n - 1) : q[i] = p[i + 1]
      /\ p[1].kind \in {"text", "calls"} /\ p \in Seq(ModelEvents)
      /\ toolCalls' = toolCalls + p[1].calls /\ toolCalls \in Nat
      /\ response.calls \in Nat
  BY <1>0, <1>2, FlowTypes, Rest
<1>t. Told(p, toolCalls)
  BY <1>1
<1> HIDE DEF p, q, n
<1>a. n = Len(p)
  BY DEF n, p
<1>4. ASSUME Texts(p) PROVE Texts(q) /\ p[1].calls = 0
  BY <1>3, <1>4, <1>a DEF Texts, Plain
<1>5. ASSUME Failing(p) PROVE Failing(q)
  <2>1. n # 1
    BY <1>3, <1>5, <1>a DEF Failing
  <2> QED
    BY <1>3, <1>5, <1>a, <2>1 DEF Failing
<1>6. ASSUME Ending(p, toolCalls, response.calls) PROVE Ending(q, toolCalls + p[1].calls, response.calls)
  <2>1. n # 1
    BY <1>3, <1>6, <1>a DEF Ending
  <2>2. q[n - 1] = p[n]
    BY <1>3, <2>1
  <2>3. CASE toolCalls = response.calls /\ \A i \in 1..n : i < n => Plain(p[i])
    <3>1. p[1].calls = 0
      BY <1>3, <2>1, <2>3 DEF Plain
    <3>2. \A i \in 1..Len(q) : i < Len(q) => Plain(q[i])
      BY <1>3, <2>3
    <3>3. toolCalls + p[1].calls = response.calls
      BY <1>3, <2>3, <3>1
    <3> QED
      BY <1>3, <1>6, <1>a, <2>1, <2>2, <3>2, <3>3 DEF Ending
  <2>4. CASE /\ toolCalls = 0 /\ n > 1
             /\ p[n - 1].kind = "calls" /\ p[n - 1].calls = response.calls
             /\ \A i \in 1..n : i < n - 1 => Plain(p[i])
    <3>1. CASE n = 2
      <4>1. toolCalls + p[1].calls = response.calls
        BY <1>3, <2>4, <3>1
      <4>2. \A i \in 1..Len(q) : ~(i < Len(q))
        BY <1>3, <3>1
      <4> QED
        BY <1>3, <1>6, <1>a, <2>1, <2>2, <4>1, <4>2 DEF Ending
    <3>2. CASE n # 2
      <4>1. p[1].calls = 0 /\ toolCalls + p[1].calls = 0
        BY <1>3, <2>1, <2>4, <3>2 DEF Plain
      <4>2. q[Len(q) - 1] = p[n - 1] /\ Len(q) > 1
        BY <1>3, <2>1, <3>2
      <4>3. ASSUME NEW i \in 1..Len(q), i < Len(q) - 1 PROVE Plain(q[i])
        <5>0. n \in Nat /\ Len(q) = n - 1 /\ \A k \in 1..(n - 1) : q[k] = p[k + 1]
          BY <1>3
        <5>1. i \in 1..(n - 1) /\ i + 1 < n - 1
          BY <4>3, <5>0
        <5>2. i + 1 \in 1..n
          BY <5>0, <5>1
        <5> QED
          BY <2>4, <5>0, <5>1, <5>2
      <4> QED
        BY <1>3, <1>6, <1>a, <2>1, <2>2, <2>4, <4>1, <4>2, <4>3 DEF Ending
    <3> QED
      BY <3>1, <3>2
  <2> QED
    BY <1>6, <1>a, <2>3, <2>4 DEF Ending
<1>7. Told(q, toolCalls')
  BY <1>3, <1>4, <1>5, <1>6, <1>t DEF Told
<1>8. Told(Pending, toolCalls)'
  <2>1. Pending' = q
    BY <1>2 DEF q
  <2> QED
    BY <1>0, <1>7, <2>1 DEF Told, Texts, Failing, Ending, Plain
<1> QED
  BY <1>0, <1>1, <1>8 DEF Flow

LEMMA FlowStep == LoopTypes /\ Flow /\ [ANext]_avars => Flow'
<1> SUFFICES ASSUME LoopTypes, Flow, [ANext]_avars PROVE Flow'
  OBVIOUS
<1>1. CASE StartStream
  <2>1. /\ producer' = "request" /\ sends' = <<>> /\ channel' = <<>> /\ closed' = FALSE
        /\ response' = Silence /\ pc' = "stream" /\ toolCalls' = 0
    BY <1>1 DEF StartStream, ChatStream
  <2>2. Len(Pending') = 0
    <3>1. Pending' = <<>> \o <<>>
      BY <2>1 DEF Pending
    <3>2. Len(<<>> \o <<>>) = 0
      OBVIOUS
    <3> QED
      BY <3>1, <3>2
  <2>3. Texts(Pending')
    BY <2>2 DEF Texts
  <2>4. Told(Pending, toolCalls)'
    BY <2>1, <2>3, SilenceIsResponse DEF Told, Texts, Plain
  <2> QED
    BY <2>1, <2>4 DEF Flow
<1>2. CASE CancelledInStream \/ ReceiveError \/ StreamOver \/ TotalExpires \/ StepExpires
  <2>1. ~stepLive'
    BY <1>2 DEF CancelledInStream, ReceiveError, StreamOver, TotalExpires, StepExpires, Abandon
  <2> QED
    BY <2>1 DEF Flow
<1>3. CASE ReceivePart
  BY <1>3, ReceiveKeepsFlow
<1>4. CASE Produce /\ UNCHANGED loopVars
  BY <1>4, ProduceKeepsFlow
<1>5. CASE ReachMaxSteps \/ CancelledAtTop \/ StreamCannotStart \/ CancelledInJudge \/ Execute \/ StepDone
           \/ SendBack \/ GiveUp \/ (\E word \in {"ok", "impossible", "failed"} : Settle(word))
           \/ \E goal \in BOOLEAN : Prompt(goal)
  <2>1. pc # "stream" /\ stepLive' = stepLive
    BY <1>5 DEF ReachMaxSteps, CancelledAtTop, StreamCannotStart, CancelledInJudge, Execute, StepDone,
       SendBack, GiveUp, Settle, Prompt, streamVars
  <2> QED
    BY <2>1 DEF Flow
<1>6. CASE UNCHANGED avars
  BY <1>6 DEF avars, loopVars, streamVars, Flow, Told, Pending, Texts, Failing, Ending, Plain
<1> QED
  BY <1>1, <1>2, <1>3, <1>4, <1>5, <1>6 DEF ANext, LoopStep, JudgeStep

(* LiveStreamIsWhole (AgentLoop): while the step context is live no event  *)
(* is lost, overtaken or invented on the way from the server to the loop,  *)
(* whatever the channel's capacity and however often the request was       *)
(* retried: the loop leaves the stream on a Done the server said, and with *)
(* every tool call of the response.                                        *)
THEOREM NothingIsLostWhileLive == ASpec => LiveStreamIsWhole
<1>1. AInit => Flow
  BY DEF AInit, StreamInit, Flow
<1>2. ASSUME LoopTypes, Flow, StreamOver, stepLive
      PROVE  response.ended = "done" /\ toolCalls = response.calls
  <2>1. /\ (closed => producer = "exited") /\ (producer = "exited" => sends = <<>>)
        /\ Told(Pending, toolCalls)
    BY <1>2 DEF Flow
  <2>2. IF channel = <<>> THEN closed ELSE Head(channel).kind = "done"
    BY <1>2 DEF StreamOver
  <2>3. channel # <<>>
    <3>1. SUFFICES ASSUME channel = <<>> PROVE FALSE
      OBVIOUS
    <3>2. producer = "exited" /\ sends = <<>>
      BY <2>1, <2>2, <3>1
    <3>3. Len(Pending) = 0
      <4>1. Len(<<>> \o <<>>) = 0
        OBVIOUS
      <4> QED
        BY <3>1, <3>2, <4>1 DEF Pending
    <3> QED
      BY <2>1, <3>2, <3>3 DEF Told, Failing, Ending
  <2>4. Pending[1].kind = "done" /\ Pending \in Seq(ModelEvents) /\ Pending # <<>>
    BY <1>2, <2>2, <2>3, FlowTypes, Taken DEF Pending
  <2>5. Len(Pending) \in Nat \ {0}
    BY <2>4, Rest
  <2>6. ~Texts(Pending) /\ ~Failing(Pending)
    BY <2>4, <2>5 DEF Texts, Failing, Plain
  <2>7. response.ended = "done" /\ Ending(Pending, toolCalls, response.calls)
    BY <2>1, <2>6 DEF Told
  <2>8. toolCalls = response.calls
    BY <2>4, <2>5, <2>7 DEF Ending, Plain
  <2> QED
    BY <2>7, <2>8
<1>3. LoopTypes /\ Flow /\ [ANext]_avars =>
        [StreamOver /\ stepLive => response.ended = "done" /\ toolCalls = response.calls]_avars
  BY <1>2
<1> QED
  BY <1>1, <1>3, FlowStep, LoopTypesInit, LoopTypesStep, PTL DEF ASpec, LiveStreamIsWhole
=============================================================================
