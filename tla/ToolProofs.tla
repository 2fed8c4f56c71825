------------------------------ MODULE ToolProofs ------------------------------
(***************************************************************************)
(* What is proved of the tools: the consent they need before they run, and *)
(* the undo of what they did.                                              *)
(*   ToolApproval  any number of calls, any room and any timeout; requests *)
(*                 reach the panel in the order of their calls and each at *)
(*                 most once, so that what the user says at the panel is   *)
(*                 said of one request, once                               *)
(*   Workspace     every set of files and of contents, whatever of them    *)
(*                 .gitignore hides, and any number of tools, edits and    *)
(*                 undos; the invariant says what an artifact's list of    *)
(*                 created files may hold, given what was seen before the  *)
(*                 tool, and that what an undo has still to delete is part *)
(*                 of that list                                            *)
(***************************************************************************)
EXTENDS ToolApproval, Workspace, TLAPS

-----------------------------------------------------------------------------
(* A request is asked from the moment it enters the approval channel.      *)
Asked(r) == r < call \/ (asking /\ r = call)

(* It is on its way until the panel has let go of it.                      *)
Among(r, queue) == \E i \in 1..Len(queue) : queue[i] = r
OnWay(r) == Among(r, approvalCh) \/ Among(r, uiEvents) \/ r = pending

(* The panel, the UI's events and the channel hold requests in order.      *)
Rising(queue) == \A i, j \in 1..Len(queue) : i < j => queue[i] < queue[j]
InOrder ==
  /\ Rising(approvalCh) /\ Rising(uiEvents)
  /\ \A r, q \in Requests : Among(r, uiEvents) /\ Among(q, approvalCh) => r < q
  /\ \A r \in Requests : Among(r, uiEvents) \/ Among(r, approvalCh) => pending < r

(* Nothing is said of a request that is not asked or is still on its way.  *)
Unanswered ==
  \A r \in Requests :
    /\ OnWay(r) => Asked(r)
    /\ OnWay(r) \/ ~Asked(r) => said[r] = {} /\ response[r] = "none"

(* An allowance in an answer channel was given at the panel, and nothing   *)
(* else was.                                                               *)
Answers == \A r \in Requests : response[r] = "allow" => said[r] = {"allow"}

(* The inductive invariant.                                                *)
Unsettled == \A r \in Requests : r >= call => result[r] = "none"
TInv == TTypeOK /\ InOrder /\ Unanswered /\ Answers /\ Unsettled /\ RunsWithConsent

-----------------------------------------------------------------------------
(* What the head and the rest of a rising queue hold.                      *)
LEMMA Popped ==
  ASSUME NEW queue \in Seq(Requests), queue # <<>>, Rising(queue)
  PROVE  /\ Tail(queue) \in Seq(Requests) /\ Head(queue) \in Requests
         /\ Len(Tail(queue)) = Len(queue) - 1
         /\ Rising(Tail(queue))
         /\ Among(Head(queue), queue)
         /\ \A r \in Requests : Among(r, Tail(queue)) => Among(r, queue) /\ Head(queue) < r
<1>1. /\ Tail(queue) \in Seq(Requests) /\ Head(queue) = queue[1] /\ queue[1] \in Requests
      /\ Len(queue) \in Nat \ {0} /\ Len(Tail(queue)) = Len(queue) - 1
      /\ \A i \in 1..Len(Tail(queue)) : Tail(queue)[i] = queue[i + 1]
  OBVIOUS
<1>2. \A i \in 1..Len(Tail(queue)) : i + 1 \in 1..Len(queue) /\ 1 < i + 1
  BY <1>1
<1>3. Rising(Tail(queue))
  BY <1>1, <1>2 DEF Rising
<1>4. 1 \in 1..Len(queue)
  BY <1>1
<1> QED BY <1>1, <1>2, <1>3, <1>4 DEF Rising, Among

(* What a queue holds after a request.                                     *)
LEMMA Pushed ==
  ASSUME NEW queue \in Seq(Requests), NEW r \in Requests
  PROVE  /\ Append(queue, r) \in Seq(Requests)
         /\ Len(Append(queue, r)) = Len(queue) + 1
         /\ \A q \in Requests : Among(q, Append(queue, r)) <=> Among(q, queue) \/ q = r
         /\ Rising(queue) /\ (\A q \in Requests : Among(q, queue) => q < r)
              => Rising(Append(queue, r))
<1> DEFINE more == Append(queue, r)
<1>1. /\ more \in Seq(Requests) /\ Len(queue) \in Nat /\ Len(more) = Len(queue) + 1
      /\ more[Len(queue) + 1] = r
      /\ \A i \in 1..Len(queue) : more[i] = queue[i] /\ queue[i] \in Requests
  OBVIOUS
<1> HIDE DEF more
<1>2. \A i : i \in 1..Len(more) <=> i \in 1..Len(queue) \/ i = Len(queue) + 1
  BY <1>1
<1>3. \A q \in Requests : Among(q, more) <=> Among(q, queue) \/ q = r
  BY <1>1, <1>2 DEF Among
<1>4. ASSUME Rising(queue), \A q \in Requests : Among(q, queue) => q < r PROVE Rising(more)
  <2>1. \A i \in 1..Len(queue) : queue[i] < r
    BY <1>1, <1>4 DEF Among
  <2>2. \A i \in 1..Len(queue) : ~(Len(queue) + 1 < i)
    BY <1>1
  <2>3. ~(Len(queue) + 1 < Len(queue) + 1)
    BY <1>1
  <2> QED BY <1>1, <1>2, <1>4, <2>1, <2>2, <2>3 DEF Rising
<1> QED BY <1>1, <1>3, <1>4 DEF more

(* Nothing is asked at the start.                                          *)
LEMMA Initially == TInit => TInv
<1> SUFFICES ASSUME TInit PROVE TInv
  OBVIOUS
<1> USE ApprovalAssumption DEF TInit, Requests
<1>1. TTypeOK
  <2>1. ExecTyped
    BY DEF ExecTyped
  <2>2. QueuesTyped
    BY DEF QueuesTyped
  <2>3. AnswersTyped
    BY DEF AnswersTyped, Decisions
  <2>4. PanelTyped
    BY DEF PanelTyped
  <2>5. FlagsTyped
    BY DEF FlagsTyped
  <2> QED BY <2>1, <2>2, <2>3, <2>4, <2>5 DEF TTypeOK
<1>2. \A r \in Requests : ~Among(r, approvalCh) /\ ~Among(r, uiEvents) /\ r # pending /\ ~Asked(r)
  BY DEF Among, Asked
<1>3. InOrder
  BY <1>2 DEF InOrder, Rising
<1>4. Unanswered
  BY <1>2 DEF Unanswered, OnWay
<1>5. Answers /\ Unsettled /\ RunsWithConsent
  BY DEF Answers, Unsettled, RunsWithConsent
<1> QED BY <1>1, <1>3, <1>4, <1>5 DEF TInv

-----------------------------------------------------------------------------
(* The call that is decided is asked for the first time, or settled at     *)
(* once.                                                                   *)
LEMMA DecideStep ==
  ASSUME TInv, NEW perm \in {"allow", "listed", "ask", "deny"}, Decide(perm)
  PROVE  TInv'
<1> USE ApprovalAssumption DEF uiVars
<1>0. /\ call \in Requests /\ call \in Nat /\ Calls \in Nat /\ ~asking
      /\ UNCHANGED <<response, uiEvents, pending, countdown, ticking, ticks, said>>
      /\ permission' = [permission EXCEPT ![call] = perm]
  BY DEF Decide, TInv, TTypeOK, ExecTyped, QueuesTyped, AnswersTyped, PanelTyped, Requests
<1>1. CASE perm = "ask" /\ Len(approvalCh) < ChanRoom
  <2>1. /\ approvalCh' = Append(approvalCh, call) /\ asking' = TRUE
        /\ UNCHANGED <<call, result>>
    BY <1>1 DEF Decide
  <2>2. /\ approvalCh \in Seq(Requests)
        /\ \A r \in Requests : Among(r, approvalCh) \/ Among(r, uiEvents) \/ r = pending => r < call
    BY <1>0 DEF TInv, TTypeOK, QueuesTyped, Unanswered, OnWay, Asked
  <2>3. /\ approvalCh' \in Seq(Requests) /\ Len(approvalCh') = Len(approvalCh) + 1
        /\ \A q \in Requests : Among(q, approvalCh') <=> Among(q, approvalCh) \/ q = call
        /\ Rising(approvalCh')
    BY <1>0, <2>1, <2>2, Pushed DEF TInv, InOrder
  <2>4. TTypeOK'
    <3>1. Len(approvalCh') <= ChanRoom
      BY <1>1, <2>2, <2>3
    <3>2. ExecTyped'
      BY <1>0, <2>1, <2>3, <3>1 DEF TInv, TTypeOK, ExecTyped
    <3>3. QueuesTyped'
      BY <1>0, <2>1, <2>3, <3>1 DEF TInv, TTypeOK, QueuesTyped
    <3>4. AnswersTyped'
      BY <1>0, <2>1, <2>3, <3>1 DEF TInv, TTypeOK, AnswersTyped, Decisions
    <3>5. PanelTyped'
      BY <1>0, <2>1, <2>3, <3>1 DEF TInv, TTypeOK, PanelTyped
    <3>6. FlagsTyped'
      BY <1>0, <2>1, <2>3, <3>1 DEF TInv, TTypeOK, FlagsTyped
    <3> QED BY <3>2, <3>3, <3>4, <3>5, <3>6 DEF TTypeOK
  <2>5. pending < call
    <3>1. pending \in 0..Calls /\ call > 0
      BY <1>0 DEF TInv, TTypeOK, PanelTyped, Requests
    <3>2. pending # 0 => pending \in Requests
      BY <3>1 DEF Requests
    <3> QED BY <1>0, <2>2, <3>1, <3>2
  <2>6. InOrder'
    BY <1>0, <2>2, <2>3, <2>5 DEF TInv, InOrder
  <2>7. \A r \in Requests : Asked(r)' <=> Asked(r) \/ r = call
    BY <1>0, <2>1 DEF Asked
  <2>8. Unanswered'
    <3>1. \A r \in Requests : OnWay(r)' <=> OnWay(r) \/ r = call
      BY <1>0, <2>3 DEF OnWay
    <3>2. ~Asked(call)
      BY <1>0 DEF Asked
    <3> QED BY <1>0, <2>7, <3>1, <3>2 DEF TInv, Unanswered
  <2>9. Answers' /\ Unsettled'
    BY <1>0, <2>1 DEF TInv, Answers, Unsettled
  <2>10. RunsWithConsent'
    <3>1. result[call] = "none"
      BY <1>0 DEF TInv, Unsettled
    <3>2. \A r \in Requests : r # call => permission'[r] = permission[r]
      BY <1>0 DEF TInv, TTypeOK
    <3> QED BY <1>0, <2>1, <3>1, <3>2 DEF TInv, RunsWithConsent
  <2> QED BY <2>4, <2>6, <2>8, <2>9, <2>10 DEF TInv
<1>2. CASE ~(perm = "ask" /\ Len(approvalCh) < ChanRoom)
  <2>1. PICK how \in {"ran", "skipped", "channelFull"} :
          Settle(how) /\ (how = "ran" => perm \in {"allow", "listed"})
    BY <1>2 DEF Decide
  <2>2. /\ result' = [result EXCEPT ![call] = how] /\ call' = call + 1 /\ asking' = FALSE
    BY <2>1 DEF Settle
  <2>3. UNCHANGED approvalCh
    BY <1>2 DEF Decide
  <2>4. TTypeOK'
    <3>1. ExecTyped'
      BY <1>0, <2>2, <2>3 DEF TInv, TTypeOK, ExecTyped, Requests
    <3>2. QueuesTyped'
      BY <1>0, <2>2, <2>3 DEF TInv, TTypeOK, QueuesTyped
    <3>3. AnswersTyped'
      BY <1>0, <2>2, <2>3 DEF TInv, TTypeOK, AnswersTyped, Decisions
    <3>4. PanelTyped'
      BY <1>0, <2>2, <2>3 DEF TInv, TTypeOK, PanelTyped
    <3>5. FlagsTyped'
      BY <1>0, <2>2, <2>3 DEF TInv, TTypeOK, FlagsTyped
    <3> QED BY <3>1, <3>2, <3>3, <3>4, <3>5 DEF TTypeOK
  <2>5. InOrder'
    BY <1>0, <2>3 DEF TInv, InOrder
  <2>6. Unanswered'
    <3>1. \A r \in Requests : Asked(r)' <=> r <= call
      BY <1>0, <2>2 DEF Asked, Requests
    <3>2. \A r \in Requests : Asked(r) => r <= call
      BY <1>0 DEF Asked, Requests
    <3>3. \A r \in Requests : OnWay(r)' <=> OnWay(r)
      BY <1>0, <2>3 DEF OnWay
    <3> QED BY <1>0, <3>1, <3>2, <3>3 DEF TInv, Unanswered
  <2>7. Answers'
    BY <1>0 DEF TInv, Answers
  <2>8. \A r \in Requests : r # call => result'[r] = result[r] /\ permission'[r] = permission[r]
    BY <1>0, <2>2 DEF TInv, TTypeOK
  <2>9. Unsettled'
    BY <1>0, <2>2, <2>8 DEF TInv, Unsettled, Requests
  <2>10. result'[call] = how /\ permission'[call] = perm
    BY <1>0, <2>2 DEF TInv, TTypeOK, ExecTyped
  <2>11. RunsWithConsent'
    BY <1>0, <2>1, <2>8, <2>10 DEF TInv, RunsWithConsent
  <2> QED BY <2>4, <2>5, <2>6, <2>7, <2>9, <2>11 DEF TInv
<1> QED BY <1>1, <1>2

(* The executor settles the call it asked for, by its answer or without.   *)
LEMMA SettleStep ==
  ASSUME TInv, TakeDecision \/ TimeOut
  PROVE  TInv'
<1> USE ApprovalAssumption DEF uiVars
<1>1. PICK how \in {"ran", "denied", "timedOut"} :
        Settle(how) /\ (how = "ran" => response[call] = "allow")
  BY DEF TakeDecision, TimeOut
<1>2. /\ asking /\ UNCHANGED <<permission, approvalCh, uiEvents, pending, countdown, ticking, ticks, said>>
      /\ response' \in {response, [response EXCEPT ![call] = "none"]}
  BY DEF TakeDecision, TimeOut
<1>3. /\ result' = [result EXCEPT ![call] = how] /\ call' = call + 1 /\ asking' = FALSE
  BY <1>1 DEF Settle
<1>0. call \in Requests /\ call \in Nat /\ Calls \in Nat
  BY <1>2 DEF TInv, TTypeOK, FlagsTyped, Requests
<1>4. \A r \in Requests : response'[r] \in {response[r], "none"}
  BY <1>2 DEF TInv, TTypeOK, AnswersTyped
<1>5. TTypeOK'
  <2>1. ExecTyped'
    BY <1>0, <1>2, <1>3 DEF TInv, TTypeOK, ExecTyped, Requests
  <2>2. QueuesTyped'
    BY <1>0, <1>2, <1>3 DEF TInv, TTypeOK, QueuesTyped
  <2>3. AnswersTyped'
    BY <1>0, <1>2, <1>3 DEF TInv, TTypeOK, AnswersTyped, Decisions
  <2>4. PanelTyped'
    BY <1>0, <1>2, <1>3 DEF TInv, TTypeOK, PanelTyped
  <2>5. FlagsTyped'
    BY <1>0, <1>2, <1>3 DEF TInv, TTypeOK, FlagsTyped
  <2> QED BY <2>1, <2>2, <2>3, <2>4, <2>5 DEF TTypeOK
<1>6. InOrder'
  BY <1>2 DEF TInv, InOrder
<1>7. Unanswered'
  <2>1. \A r \in Requests : Asked(r)' <=> Asked(r)
    BY <1>0, <1>2, <1>3 DEF Asked, Requests
  <2>2. \A r \in Requests : OnWay(r)' <=> OnWay(r)
    BY <1>2 DEF OnWay
  <2> QED BY <1>2, <1>4, <2>1, <2>2 DEF TInv, Unanswered
<1>8. Answers'
  BY <1>2, <1>4 DEF TInv, Answers
<1>9. \A r \in Requests : result'[r] = IF r = call THEN how ELSE result[r]
  BY <1>3 DEF TInv, TTypeOK, ExecTyped
<1>10. Unsettled'
  BY <1>0, <1>3, <1>9 DEF TInv, Unsettled, Requests
<1>11. RunsWithConsent'
  BY <1>0, <1>1, <1>2, <1>9 DEF TInv, RunsWithConsent, Answers
<1> QED BY <1>5, <1>6, <1>7, <1>8, <1>10, <1>11 DEF TInv

(* A request moves from the channel to the UI's events, or is dropped.     *)
LEMMA BridgeStep ==
  ASSUME TInv, Bridge
  PROVE  TInv'
<1> USE ApprovalAssumption DEF execVars, uiVars
<1> DEFINE r0 == Head(approvalCh)
<1>0. /\ approvalCh # <<>> /\ approvalCh' = Tail(approvalCh)
      /\ uiEvents' \in {uiEvents, Append(uiEvents, r0)}
      /\ UNCHANGED <<call, asking, permission, result, response, pending, countdown, ticking, ticks, said>>
  BY DEF Bridge
<1>1. /\ approvalCh' \in Seq(Requests) /\ r0 \in Requests /\ Len(approvalCh') = Len(approvalCh) - 1
      /\ Rising(approvalCh') /\ Among(r0, approvalCh)
      /\ \A r \in Requests : Among(r, approvalCh') => Among(r, approvalCh) /\ r0 < r
  BY <1>0, Popped DEF TInv, TTypeOK, QueuesTyped, InOrder
<1> HIDE DEF r0
<1>2. /\ uiEvents' \in Seq(Requests) /\ Rising(uiEvents')
      /\ \A r \in Requests : Among(r, uiEvents') => Among(r, uiEvents) \/ r = r0
  <2>1. uiEvents \in Seq(Requests) /\ Rising(uiEvents)
    BY DEF TInv, TTypeOK, QueuesTyped, InOrder
  <2>2. \A q \in Requests : Among(q, uiEvents) => q < r0
    BY <1>1 DEF TInv, InOrder
  <2>3. CASE uiEvents' = uiEvents
    BY <2>1, <2>3
  <2>4. CASE uiEvents' = Append(uiEvents, r0)
    BY <1>1, <2>1, <2>2, <2>4, Pushed
  <2> QED BY <1>0, <2>3, <2>4
<1>3. TTypeOK'
  <2>1. Len(approvalCh') <= ChanRoom
    BY <1>1 DEF TInv, TTypeOK, QueuesTyped
  <2>2. ExecTyped'
    BY <1>0, <1>1, <1>2, <2>1 DEF TInv, TTypeOK, ExecTyped
  <2>3. QueuesTyped'
    BY <1>0, <1>1, <1>2, <2>1 DEF TInv, TTypeOK, QueuesTyped
  <2>4. AnswersTyped'
    BY <1>0, <1>1, <1>2, <2>1 DEF TInv, TTypeOK, AnswersTyped, Decisions
  <2>5. PanelTyped'
    BY <1>0, <1>1, <1>2, <2>1 DEF TInv, TTypeOK, PanelTyped
  <2>6. FlagsTyped'
    BY <1>0, <1>1, <1>2, <2>1 DEF TInv, TTypeOK, FlagsTyped
  <2> QED BY <2>2, <2>3, <2>4, <2>5, <2>6 DEF TTypeOK
<1>4. InOrder'
  BY <1>0, <1>1, <1>2 DEF TInv, InOrder
<1>5. \A r \in Requests : OnWay(r)' => OnWay(r)
  BY <1>0, <1>1, <1>2 DEF OnWay
<1>6. Unanswered'
  BY <1>0, <1>5 DEF TInv, Unanswered, Asked
<1>7. Answers' /\ Unsettled' /\ RunsWithConsent'
  BY <1>0 DEF TInv, Answers, Unsettled, RunsWithConsent
<1> QED BY <1>3, <1>4, <1>6, <1>7 DEF TInv

(* The panel takes the next request, whatever it shows.                    *)
LEMMA ShowStep ==
  ASSUME TInv, Show
  PROVE  TInv'
<1> USE ApprovalAssumption DEF execVars
<1>0. /\ uiEvents # <<>> /\ uiEvents' = Tail(uiEvents) /\ pending' = Head(uiEvents)
      /\ countdown' = Seconds /\ ticking' \in BOOLEAN /\ ticks' \in {ticks, ticks + 1}
      /\ UNCHANGED <<call, asking, permission, result, approvalCh, response, said>>
  BY DEF Show, Arm
<1>1. /\ uiEvents' \in Seq(Requests) /\ pending' \in Requests /\ Rising(uiEvents')
      /\ Among(pending', uiEvents)
      /\ \A r \in Requests : Among(r, uiEvents') => Among(r, uiEvents) /\ pending' < r
  BY <1>0, Popped DEF TInv, TTypeOK, QueuesTyped, InOrder
<1>2. TTypeOK'
  <2>1. ExecTyped'
    BY <1>0, <1>1 DEF TInv, TTypeOK, ExecTyped
  <2>2. QueuesTyped'
    BY <1>0, <1>1 DEF TInv, TTypeOK, QueuesTyped
  <2>3. AnswersTyped'
    BY <1>0, <1>1 DEF TInv, TTypeOK, AnswersTyped, Decisions
  <2>4. PanelTyped'
    BY <1>0, <1>1 DEF TInv, TTypeOK, PanelTyped, Requests
  <2>5. FlagsTyped'
    BY <1>0, <1>1 DEF TInv, TTypeOK, FlagsTyped
  <2> QED BY <2>1, <2>2, <2>3, <2>4, <2>5 DEF TTypeOK
<1>3. InOrder'
  BY <1>0, <1>1 DEF TInv, InOrder
<1>4. \A r \in Requests : OnWay(r)' => OnWay(r)
  BY <1>0, <1>1 DEF OnWay
<1>5. Unanswered'
  BY <1>0, <1>4 DEF TInv, Unanswered, Asked
<1>6. Answers' /\ Unsettled' /\ RunsWithConsent'
  BY <1>0 DEF TInv, Answers, Unsettled, RunsWithConsent
<1> QED BY <1>2, <1>3, <1>5, <1>6 DEF TInv

(* The user or the countdown answers what the panel shows, and lets go.    *)
LEMMA AnswerStep ==
  ASSUME TInv, TickDenies \/ \E decision \in {"allow", "deny"} : FinishApproval(decision)
  PROVE  TInv'
<1> USE ApprovalAssumption DEF execVars
<1>1. PICK decision \in {"allow", "deny"} :
        /\ response' = [response EXCEPT ![pending] = decision]
        /\ \/ said' = [said EXCEPT ![pending] = @ \union {decision}]
           \/ decision = "deny" /\ said' = said
  BY DEF TickDenies, FinishApproval, Answer
<1>2. /\ pending # 0 /\ pending' = 0 /\ countdown' = 0 /\ ticking' = FALSE
      /\ ticks' = ticks \/ (ticks > 0 /\ ticks' = ticks - 1)
      /\ UNCHANGED <<call, asking, permission, result, approvalCh, uiEvents>>
  BY DEF TickDenies, FinishApproval
<1>3. pending \in Requests /\ said[pending] = {} /\ Asked(pending)
  BY <1>2 DEF TInv, TTypeOK, PanelTyped, Requests, Unanswered, OnWay
<1>4. \A r \in Requests :
        /\ r # pending => response'[r] = response[r] /\ said'[r] = said[r]
        /\ response'[pending] = decision
        /\ decision = "allow" => said'[pending] = {"allow"}
  BY <1>1, <1>3 DEF TInv, TTypeOK, AnswersTyped
<1>5. TTypeOK'
  <2>1. ExecTyped'
    BY <1>1, <1>2 DEF TInv, TTypeOK, ExecTyped
  <2>2. QueuesTyped'
    BY <1>1, <1>2 DEF TInv, TTypeOK, QueuesTyped
  <2>3. AnswersTyped'
    BY <1>1, <1>2 DEF TInv, TTypeOK, AnswersTyped, Decisions
  <2>4. PanelTyped'
    BY <1>1, <1>2 DEF TInv, TTypeOK, PanelTyped
  <2>5. FlagsTyped'
    BY <1>1, <1>2 DEF TInv, TTypeOK, FlagsTyped
  <2> QED BY <2>1, <2>2, <2>3, <2>4, <2>5 DEF TTypeOK
<1>6. \A r \in Requests : Among(r, uiEvents) \/ Among(r, approvalCh) => r # pending
  BY <1>3 DEF TInv, InOrder, Requests
<1>7. InOrder'
  BY <1>2 DEF TInv, InOrder, Requests
<1>8. Unanswered'
  <2>1. \A r \in Requests : OnWay(r)' => OnWay(r) /\ r # pending
    BY <1>2, <1>6 DEF OnWay, Requests
  <2>2. \A r \in Requests : Asked(r)' <=> Asked(r)
    BY <1>2 DEF Asked
  <2> QED BY <1>3, <1>4, <2>1, <2>2 DEF TInv, Unanswered
<1>9. Answers'
  BY <1>1, <1>3, <1>4 DEF TInv, Answers
<1>10. Unsettled'
  BY <1>2 DEF TInv, Unsettled
<1>11. RunsWithConsent'
  BY <1>2, <1>3, <1>4 DEF TInv, RunsWithConsent
<1> QED BY <1>5, <1>7, <1>8, <1>9, <1>10, <1>11 DEF TInv

(* Timers and other events touch the countdown only.                       *)
LEMMA TimerStep ==
  ASSUME TInv, OtherEvent \/ TickDies \/ TickCounts
  PROVE  TInv'
<1> USE ApprovalAssumption DEF execVars
<1>1. UNCHANGED <<call, asking, permission, result, approvalCh, response, uiEvents, pending, said>>
  BY DEF OtherEvent, TickDies, TickCounts
<1>2. /\ countdown' = countdown \/ (countdown > 1 /\ pending # 0 /\ countdown' = countdown - 1)
      /\ ticks' \in {ticks, ticks + 1} \/ (ticks > 0 /\ ticks' = ticks - 1)
  BY DEF OtherEvent, TickDies, TickCounts, Arm
<1>3. ticking' \in BOOLEAN
  <2>1. ticking \in BOOLEAN
    BY DEF TInv, TTypeOK, FlagsTyped
  <2>2. CASE OtherEvent
    BY <2>2 DEF OtherEvent, Arm
  <2>3. CASE TickDies \/ TickCounts
    BY <2>1, <2>3 DEF TickDies, TickCounts
  <2> QED BY <2>2, <2>3
<1>4. TTypeOK'
  <2>1. ExecTyped'
    BY <1>1, <1>2 DEF TInv, TTypeOK, ExecTyped
  <2>2. QueuesTyped'
    BY <1>1, <1>2 DEF TInv, TTypeOK, QueuesTyped
  <2>3. AnswersTyped'
    BY <1>1, <1>2 DEF TInv, TTypeOK, AnswersTyped, Decisions
  <2>4. PanelTyped'
    BY <1>1, <1>2 DEF TInv, TTypeOK, PanelTyped
  <2>5. FlagsTyped'
    BY <1>1, <1>3 DEF TInv, TTypeOK, FlagsTyped
  <2> QED BY <2>1, <2>2, <2>3, <2>4, <2>5 DEF TTypeOK
<1> QED BY <1>1, <1>4 DEF TInv, InOrder, Unanswered, OnWay, Asked, Answers, Unsettled, RunsWithConsent

-----------------------------------------------------------------------------
(* Every step of executor, bridge, UI and timers keeps the invariant.      *)
LEMMA Inductive == TSpec => []TInv
<1>1. ASSUME TInv, [TNext]_tvars PROVE TInv'
  <2>1. CASE UNCHANGED tvars
    <3> USE <2>1 DEF tvars, execVars, uiVars
    <3>1. TTypeOK' /\ InOrder' /\ Answers' /\ Unsettled' /\ RunsWithConsent'
      BY <1>1 DEF TInv, TTypeOK, FlagsTyped, ExecTyped, QueuesTyped, AnswersTyped, PanelTyped, InOrder, Answers, Unsettled, RunsWithConsent
    <3>2. Unanswered'
      BY <1>1 DEF TInv, Unanswered, OnWay, Asked
    <3> QED BY <3>1, <3>2 DEF TInv
  <2> QED BY <1>1, <2>1, DecideStep, SettleStep, BridgeStep, ShowStep, AnswerStep, TimerStep
          DEF TNext, Tick
<1> QED BY <1>1, Initially, PTL DEF TSpec

(* The state is of its type; the approval channel keeps within its room.   *)
THEOREM TypeCorrect == TSpec => []TTypeOK
<1>1. TInv => TTypeOK
  BY DEF TInv
<1> QED BY <1>1, Inductive, PTL

(* No tool that had to ask runs but by consent given to that very call,    *)
(* with any timeouts of executor and panel and any loss on the bus.        *)
THEOREM ConsentIsItsOwn == TSpec => []RunsWithConsent
<1>1. TInv => RunsWithConsent
  BY DEF TInv
<1> QED BY <1>1, Inductive, PTL

(* The UI never waits on a full answer channel.                            *)
THEOREM UiIsFree == TSpec => []UiNeverBlocks
<1>1. TInv => UiNeverBlocks
  BY DEF TInv, TTypeOK, PanelTyped, Unanswered, OnWay, UiNeverBlocks, Requests
<1> QED BY <1>1, Inductive, PTL

-----------------------------------------------------------------------------
Snap == [err : BOOLEAN, diff : SUBSET Files, old : [Files -> State], new : [Files -> State],
         edits : Nat, untracked : SUBSET Files,
         was : [Files -> State], had : [Files -> State], blind : BOOLEAN]
Names == {"pre_state", "created_files", "applied_at"}
Artifact == [kind : {"rollback", "rollback_apply"}, files : SUBSET Names,
             meta : {"none", "torn", "whole"}, snap : Snap, created : SUBSET Files]

Types ==
  /\ index \in [Files -> State] /\ tree \in [Files -> State]
  /\ tool \in {"idle", "listing", "running", "ran", "storing"}
  /\ snap \in Snap
  /\ artifacts \in Seq(Artifact)
  /\ undo \in [pc : {"free", "reverse", "delete", "record", "done", "failed"},
               id : Nat, todo : SUBSET Files]
  /\ bounds \in [tools : Nat, writes : Nat, edits : Nat, undos : Nat]

(* The metadata is written behind the payloads.                            *)
Complete(a) == a.kind = "rollback" /\ a.meta = "whole" => Payloads \subseteq a.files

(* What was untracked when the tool began is known, unless it was ignored  *)
(* or git failed.                                                          *)
Seen(s) ==
  s.blind \/ \A f \in Files \ Ignored(s.had) :
               s.was[f] = Absent /\ s.had[f] # Absent => f \in s.untracked

(* Any other file that was there, untracked, is on no list.                *)
Spared(s, f) ==
  /\ f \notin Own
  /\ s.had[f] = Absent \/ s.was[f] # Absent \/ f \in Ignored(s.had) \/ s.blind
Honest(a) == \A f \in a.created : Spared(a.snap, f)

(* An undo under way has an artifact, and deletes what that lists.         *)
UndoOfOne ==
  /\ undo.id # 0 =>
       undo.id \in 1..Len(artifacts) /\ undo.todo \subseteq artifacts[undo.id].created
  /\ undo.pc \in {"reverse", "delete"} => undo.id # 0

WInv ==
  /\ Types /\ Seen(snap) /\ UndoOfOne
  /\ \A i \in 1..Len(artifacts) : Complete(artifacts[i]) /\ Honest(artifacts[i])

-----------------------------------------------------------------------------
LEMMA WorkspaceInit == WInit => WInv
<1> SUFFICES ASSUME WInit PROVE WInv
  OBVIOUS
<1>1. NoSnap \in Snap /\ Seen(NoSnap)
  BY DEF NoSnap, Snap, Seen, Nothing, State
<1>2. Types
  BY <1>1 DEF WInit, Types, Free
<1>3. UndoOfOne /\ Len(artifacts) = 0
  BY DEF WInit, UndoOfOne, Free
<1> QED
  BY <1>1, <1>2, <1>3 DEF WInit, WInv

(* Stored changes files or metadata of an artifact, and nothing else.      *)
LEMMA StoredKeeps ==
  ASSUME NEW a \in Artifact, NEW meta \in {"none", "torn", "whole"}, Complete(a)
  PROVE  /\ Stored(a, meta) \in Artifact
         /\ Complete(Stored(a, meta))
         /\ Stored(a, meta).snap = a.snap /\ Stored(a, meta).created = a.created
<1>1. CASE Unwritten(a) = "metadata"
  <2>1. Stored(a, meta) = [a EXCEPT !.meta = meta]
    BY <1>1 DEF Stored
  <2>2. a.kind = "rollback" => Payloads \subseteq a.files
    BY <1>1 DEF Unwritten, Payloads
  <2> QED
    BY <2>1, <2>2 DEF Artifact, Complete
<1>2. CASE Unwritten(a) # "metadata"
  <2>1. Stored(a, meta) = [a EXCEPT !.files = @ \cup {Unwritten(a)}]
    BY <1>2 DEF Stored
  <2>2. Unwritten(a) \in Names
    BY <1>2 DEF Unwritten, Names
  <2>3. [a EXCEPT !.files = @ \cup {Unwritten(a)}] \in Artifact
    BY <2>2 DEF Artifact
  <2> QED
    BY <2>1, <2>3 DEF Artifact, Complete
<1> QED
  BY <1>1, <1>2

(* A step of a store leaves the order of the artifacts alone.              *)
LEMMA WriteNextKeeps ==
  ASSUME WInv, NEW kind, NEW meta \in {"none", "torn", "whole"}, WriteNext(kind, meta)
  PROVE  /\ artifacts' \in Seq(Artifact) /\ Len(artifacts') = Len(artifacts)
         /\ \A i \in 1..Len(artifacts) :
              /\ Complete(artifacts'[i]) /\ Honest(artifacts'[i])
              /\ artifacts'[i].created = artifacts[i].created
<1> DEFINE y == Youngest(kind)
<1>1. artifacts \in Seq(Artifact) /\ artifacts' = [artifacts EXCEPT ![y] = Stored(@, meta)]
  BY DEF WInv, Types, WriteNext
<1>2. DOMAIN artifacts = 1..Len(artifacts) /\ Len(artifacts) \in Nat
  BY <1>1
<1>3. \A i \in 1..Len(artifacts) :
        artifacts'[i] = IF i = y THEN Stored(artifacts[i], meta) ELSE artifacts[i]
  BY <1>1, <1>2
<1>4. \A i \in 1..Len(artifacts) : artifacts[i] \in Artifact /\ Complete(artifacts[i]) /\ Honest(artifacts[i])
  BY <1>1 DEF WInv
<1>5. \A i \in 1..Len(artifacts) :
        /\ artifacts'[i] \in Artifact /\ Complete(artifacts'[i])
        /\ artifacts'[i].snap = artifacts[i].snap /\ artifacts'[i].created = artifacts[i].created
  BY <1>3, <1>4, StoredKeeps
<1>6. DOMAIN artifacts' = DOMAIN artifacts
  BY <1>1
<1>7. artifacts' \in Seq(Artifact) /\ Len(artifacts') = Len(artifacts)
  <2>1. artifacts' = [i \in 1..Len(artifacts) |-> artifacts'[i]]
    BY <1>1, <1>2
  <2> QED
    BY <2>1, <1>2, <1>5
<1>8. \A i \in 1..Len(artifacts) : Honest(artifacts'[i])
  BY <1>4, <1>5 DEF Honest
<1> QED
  BY <1>5, <1>7, <1>8

(* A new artifact is put behind the others.                                *)
LEMMA AppendKeeps ==
  ASSUME WInv, NEW a \in Artifact, Complete(a), Honest(a), artifacts' = Append(artifacts, a)
  PROVE  /\ artifacts' \in Seq(Artifact) /\ Len(artifacts') = Len(artifacts) + 1
         /\ \A i \in 1..Len(artifacts') : Complete(artifacts'[i]) /\ Honest(artifacts'[i])
         /\ \A i \in 1..Len(artifacts) : artifacts'[i] = artifacts[i]
<1>1. artifacts \in Seq(Artifact)
  BY DEF WInv, Types
<1>2. /\ artifacts' \in Seq(Artifact) /\ Len(artifacts') = Len(artifacts) + 1
      /\ \A i \in 1..Len(artifacts) : artifacts'[i] = artifacts[i]
      /\ artifacts'[Len(artifacts) + 1] = a
  BY <1>1
<1>3. \A i \in 1..Len(artifacts') : i \in 1..Len(artifacts) \/ i = Len(artifacts) + 1
  BY <1>1, <1>2
<1> QED
  BY <1>2, <1>3 DEF WInv

-----------------------------------------------------------------------------
(* A change keeps index and working tree what they are.                    *)
LEMMA ChangeTypes ==
  ASSUME Types, NEW f \in Files, Change(f)
  PROVE  index' \in [Files -> State] /\ tree' \in [Files -> State]
BY DEF Types, Change, State

(* What the executor takes down before the tool.                           *)
LEMMA TakeDiffKeeps == WInv /\ TakeDiff => WInv'
<1> SUFFICES ASSUME WInv, TakeDiff PROVE WInv'
  OBVIOUS
<1>1. NoSnap \in Snap /\ Seen(NoSnap) /\ NoSnap.had = Nothing
  BY DEF NoSnap, Snap, Seen, Nothing, State
<1>2. GitDiff \subseteq Files /\ index \in [Files -> State] /\ tree \in [Files -> State]
      /\ bounds.edits \in Nat
  BY DEF GitDiff, WInv, Types
<1>3. snap' \in Snap /\ snap'.had = Nothing
  <2>1. CASE snap' = NoSnap
    BY <1>1, <2>1
  <2>2. CASE snap' = [NoSnap EXCEPT !.err = FALSE, !.diff = GitDiff, !.old = index,
                                    !.new = tree, !.edits = bounds.edits]
    BY <1>1, <1>2, <2>2 DEF Snap
  <2> QED
    BY <2>1, <2>2 DEF TakeDiff
<1>4. Seen(snap')
  BY <1>3 DEF Seen, Nothing
<1>5. bounds' \in [tools : Nat, writes : Nat, edits : Nat, undos : Nat]
  BY DEF WInv, Types, TakeDiff
<1>6. tool' \in {"listing", "running"} /\ UNCHANGED <<index, tree, artifacts, undo>>
  BY DEF TakeDiff
<1> QED
  BY <1>3, <1>4, <1>5, <1>6 DEF WInv, Types, UndoOfOne

LEMMA ListUntrackedKeeps == WInv /\ ListUntracked => WInv'
<1> SUFFICES ASSUME WInv, ListUntracked PROVE WInv'
  OBVIOUS
<1>1. PICK blind \in BOOLEAN :
        snap' = [snap EXCEPT !.untracked = IF blind THEN {} ELSE Untracked,
                             !.was = index, !.had = tree, !.blind = blind]
  BY DEF ListUntracked
<1>2. /\ snap \in Snap /\ (IF blind THEN {} ELSE Untracked) \in SUBSET Files
      /\ index \in [Files -> State] /\ tree \in [Files -> State]
  BY DEF Untracked, WInv, Types
<1>3. /\ snap' \in Snap /\ snap'.blind = blind /\ snap'.was = index /\ snap'.had = tree
      /\ snap'.untracked = IF blind THEN {} ELSE Untracked
  BY <1>1, <1>2 DEF Snap
<1>4. Seen(snap')
  BY <1>3 DEF Seen, Untracked
<1>5. tool' = "running" /\ UNCHANGED <<index, tree, artifacts, undo, bounds>>
  BY DEF ListUntracked
<1> QED
  BY <1>3, <1>4, <1>5 DEF WInv, Types, UndoOfOne

(* What it writes down after it: Created holds nothing that was seen.      *)
LEMMA CreatedIsHonest ==
  ASSUME WInv, NEW created \in {Created, {}}
  PROVE  /\ Record(created) \in Artifact
         /\ Complete(Record(created)) /\ Honest(Record(created))
<1>1. created \subseteq Files
  BY DEF Created, Untracked
<1>2. Record(created) \in Artifact
  BY <1>1 DEF Record, Artifact, WInv, Types
<1>3. Complete(Record(created))
  BY DEF Record, Complete
<1>4. ASSUME NEW f \in created PROVE Spared(snap, f)
  <2>1. f \in Files /\ f \notin snap.untracked /\ f \notin Own
    BY <1>4 DEF Created, Untracked
  <2> QED
    BY <2>1 DEF WInv, Seen, Spared
<1>5. Honest(Record(created))
  BY <1>4 DEF Honest, Record
<1> QED
  BY <1>2, <1>3, <1>5

LEMMA MakeArtifactKeeps == WInv /\ MakeArtifact => WInv'
<1> SUFFICES ASSUME WInv, MakeArtifact PROVE WInv'
  OBVIOUS
<1>1. snap' \in Snap /\ Seen(snap')
  BY DEF MakeArtifact, NoSnap, Snap, Seen, Nothing, State
<1>2. tool' \in {"idle", "storing"} /\ UNCHANGED <<index, tree, undo, bounds>>
  BY DEF MakeArtifact
<1>3. CASE UNCHANGED artifacts
  BY <1>1, <1>2, <1>3 DEF WInv, Types, UndoOfOne
<1>4. CASE \E created \in {Created, {}} : artifacts' = Append(artifacts, Record(created))
  <2>1. /\ artifacts' \in Seq(Artifact) /\ Len(artifacts') = Len(artifacts) + 1
        /\ \A i \in 1..Len(artifacts') : Complete(artifacts'[i]) /\ Honest(artifacts'[i])
        /\ \A i \in 1..Len(artifacts) : artifacts'[i] = artifacts[i]
    BY <1>4, CreatedIsHonest, AppendKeeps
  <2>2. UndoOfOne'
    BY <1>2, <2>1 DEF WInv, Types, UndoOfOne
  <2> QED
    BY <1>1, <1>2, <2>1, <2>2 DEF WInv, Types
<1> QED
  BY <1>3, <1>4 DEF MakeArtifact

(* The steps that write payloads and metadata.                             *)
LEMMA StoringKeeps ==
  ASSUME WInv, NEW kind, NEW meta \in {"none", "torn", "whole"},
         WriteNext(kind, meta) \/ UNCHANGED artifacts,
         UNCHANGED <<index, tree, snap, bounds>>,
         tool' \in {"idle", "listing", "running", "ran", "storing"},
         undo' \in [pc : {"free", "reverse", "delete", "record", "done", "failed"},
                    id : Nat, todo : SUBSET Files],
         undo'.id = undo.id, undo'.todo = undo.todo,
         undo'.pc \in {"reverse", "delete"} => undo.pc = undo'.pc
  PROVE  WInv'
<1>1. /\ artifacts' \in Seq(Artifact) /\ Len(artifacts') = Len(artifacts)
      /\ \A i \in 1..Len(artifacts) :
           /\ Complete(artifacts'[i]) /\ Honest(artifacts'[i])
           /\ artifacts'[i].created = artifacts[i].created
  BY WriteNextKeeps DEF WInv, Types
<1> QED
  BY <1>1 DEF WInv, Types, UndoOfOne

LEMMA StoreKeeps == WInv /\ (StoreStep \/ StoreFails) => WInv'
<1> SUFFICES ASSUME WInv, StoreStep \/ StoreFails PROVE WInv'
  OBVIOUS
<1>1. undo \in [pc : {"free", "reverse", "delete", "record", "done", "failed"},
                id : Nat, todo : SUBSET Files]
  BY DEF WInv, Types
<1>2. CASE StoreStep
  BY <1>1, <1>2, StoringKeeps DEF StoreStep
<1>3. CASE StoreFails
  BY <1>1, <1>3, StoringKeeps DEF StoreFails
<1> QED
  BY <1>2, <1>3

-----------------------------------------------------------------------------
(* The undo.                                                               *)
LEMMA UndoKeeps ==
  WInv /\ (StartUndo \/ ReverseApply \/ Delete \/ RecordStep \/ UndoEnds) => WInv'
<1> SUFFICES ASSUME WInv, StartUndo \/ ReverseApply \/ Delete \/ RecordStep \/ UndoEnds
             PROVE  WInv'
  OBVIOUS
<1> DEFINE Undo == [pc : {"free", "reverse", "delete", "record", "done", "failed"},
                    id : Nat, todo : SUBSET Files]
<1>1. undo \in Undo /\ artifacts \in Seq(Artifact) /\ Free \in Undo
  BY DEF WInv, Types, Free
<1>2. CASE StartUndo
  <2>1. PICK i \in 1..Len(artifacts) :
          undo' = IF Readable(i) THEN [pc |-> "reverse", id |-> i, todo |-> artifacts[i].created]
                  ELSE [Free EXCEPT !.pc = "failed"]
    BY <1>2 DEF StartUndo
  <2>2. artifacts[i] \in Artifact /\ i \in Nat \ {0}
    BY <1>1
  <2>3. artifacts[i].created \subseteq Files
    BY <2>2 DEF Artifact
  <2>4. /\ undo' \in Undo
        /\ undo'.id # 0 => /\ undo'.id \in 1..Len(artifacts)
                           /\ undo'.todo \subseteq artifacts[undo'.id].created
        /\ undo'.pc \in {"reverse", "delete"} => undo'.id # 0
    BY <2>1, <2>2, <2>3 DEF Free
  <2>5. UNCHANGED <<index, tree, tool, snap, artifacts>>
        /\ bounds' = [bounds EXCEPT !.undos = @ + 1]
    BY <1>2 DEF StartUndo
  <2>6. bounds' \in [tools : Nat, writes : Nat, edits : Nat, undos : Nat]
    BY <2>5 DEF WInv, Types
  <2> QED
    BY <2>4, <2>5, <2>6 DEF WInv, Types, UndoOfOne
<1>3. CASE ReverseApply
  <2>1. /\ undo' \in Undo
        /\ undo'.id # 0 => undo'.id = undo.id /\ undo'.todo = undo.todo
        /\ undo'.pc \in {"reverse", "delete"} => undo'.id = undo.id
        /\ UNCHANGED <<index, tool, snap, artifacts, bounds>>
    BY <1>1, <1>3 DEF ReverseApply, Free
  <2>2. artifacts[undo.id] \in Artifact
    BY <1>1, <1>3 DEF ReverseApply, WInv, UndoOfOne
  <2>3. artifacts[undo.id].snap.old \in [Files -> State]
    BY <2>2 DEF Artifact, Snap
  <2>4. tree' \in [Files -> State]
    BY <1>3, <2>3 DEF ReverseApply, WInv, Types
  <2> QED
    BY <1>3, <2>1, <2>4 DEF ReverseApply, Free, WInv, Types, UndoOfOne
<1>4. CASE Delete
  <2>1. PICK f \in undo.todo :
          /\ tree' \in {tree, [tree EXCEPT ![f] = Absent]}
          /\ undo' = [undo EXCEPT !.todo = @ \ {f}]
    BY <1>4 DEF Delete
  <2>2. tree' \in [Files -> State]
    BY <2>1 DEF WInv, Types, State
  <2>3. undo' \in Undo /\ undo'.id = undo.id /\ undo'.pc = undo.pc /\ undo'.todo \subseteq undo.todo
    BY <1>1, <2>1
  <2> QED
    BY <1>4, <2>2, <2>3 DEF Delete, WInv, Types, UndoOfOne
<1>5. CASE RecordStep
  <2>1. undo' \in Undo /\ undo'.id = undo.id /\ undo'.todo = undo.todo
        /\ undo'.pc \notin {"reverse", "delete"}
    BY <1>1, <1>5 DEF RecordStep
  <2> QED
    BY <1>5, <2>1, StoringKeeps DEF RecordStep, WInv, Types
<1>6. CASE UndoEnds
  BY <1>1, <1>6 DEF UndoEnds, WInv, Types, UndoOfOne, Free
<1> QED
  BY <1>2, <1>3, <1>4, <1>5, <1>6

(* Its record carries the snapshot of the artifact undone, and no list.    *)
LEMMA RecordApplyKeeps == WInv /\ RecordApply => WInv'
<1> SUFFICES ASSUME WInv, RecordApply PROVE WInv'
  OBVIOUS
<1> DEFINE a == [kind |-> "rollback_apply", files |-> {}, meta |-> "none",
                 snap |-> artifacts[undo.id].snap, created |-> {}]
<1>1. artifacts[undo.id] \in Artifact
  BY DEF RecordApply, WInv, Types, UndoOfOne
<1>2. a \in Artifact /\ Complete(a) /\ Honest(a)
  BY <1>1 DEF Artifact, Complete, Honest
<1>3. artifacts' = Append(artifacts, a)
  BY DEF RecordApply
<1>4. /\ artifacts' \in Seq(Artifact) /\ Len(artifacts') = Len(artifacts) + 1
      /\ \A i \in 1..Len(artifacts') : Complete(artifacts'[i]) /\ Honest(artifacts'[i])
      /\ \A i \in 1..Len(artifacts) : artifacts'[i] = artifacts[i]
  <2> HIDE DEF a
  <2> QED
    BY <1>2, <1>3, AppendKeeps
<1>5. /\ undo'.id = undo.id /\ undo'.todo = undo.todo /\ undo'.pc = "record"
      /\ undo' \in [pc : {"free", "reverse", "delete", "record", "done", "failed"},
                    id : Nat, todo : SUBSET Files]
      /\ UNCHANGED <<index, tree, tool, snap, bounds>>
  BY DEF RecordApply, WInv, Types
<1>6. UndoOfOne'
  BY <1>4, <1>5 DEF WInv, Types, UndoOfOne
<1> QED
  BY <1>4, <1>5, <1>6 DEF WInv, Types

LEMMA WorkspaceStep == WInv /\ [WNext]_wvars => WInv'
<1> SUFFICES ASSUME WInv, [WNext]_wvars PROVE WInv'
  OBVIOUS
<1>1. CASE ToolWrites \/ UserEdits
  <2>1. index' \in [Files -> State] /\ tree' \in [Files -> State]
    BY <1>1, ChangeTypes DEF ToolWrites, UserEdits, WInv
  <2>2. bounds' \in [tools : Nat, writes : Nat, edits : Nat, undos : Nat]
    BY <1>1 DEF ToolWrites, UserEdits, WInv, Types
  <2> QED
    BY <1>1, <2>1, <2>2 DEF ToolWrites, UserEdits, WInv, Types, UndoOfOne
<1>2. CASE ToolReturns
  BY <1>2 DEF ToolReturns, WInv, Types, UndoOfOne
<1>3. CASE SessionDies
  <2>1. snap' \in Snap /\ Seen(snap')
    BY <1>3 DEF SessionDies, NoSnap, Snap, Seen, Nothing, State
  <2> QED
    BY <1>3, <2>1 DEF SessionDies, WInv, Types, UndoOfOne
<1>4. CASE UNCHANGED wvars
  BY <1>4 DEF wvars, WInv, Types, UndoOfOne
<1> QED
  BY <1>1, <1>2, <1>3, <1>4, TakeDiffKeeps, ListUntrackedKeeps, MakeArtifactKeeps,
     StoreKeeps, UndoKeeps, RecordApplyKeeps DEF WNext

THEOREM WorkspaceInvariant == WSpec => []WInv
BY WorkspaceInit, WorkspaceStep, PTL DEF WSpec

-----------------------------------------------------------------------------
(* ListedIsWhole (Workspace): what -rollback-list shows has its payloads,  *)
(* wherever the process that wrote it was killed or failed.                *)
THEOREM WhatIsListedIsWhole == WSpec => []ListedIsWhole
<1>1. WInv => ListedIsWhole
  BY DEF WInv, ListedIsWhole, Listed, Complete
<1> QED
  BY <1>1, WorkspaceInvariant, PTL

(* UserFilesSurvive (Workspace): an undo deletes nothing of the agent's    *)
(* own, and nothing that was there when the tool began, untracked and not  *)
(* ignored, if ls-files could tell: whatever is done to .gitignore, to the *)
(* index and to the files while the tool is looked at, at work and undone. *)
THEOREM UserFilesAreSpared == WSpec => UserFilesSurvive
<1>1. WInv /\ [WNext]_wvars =>
        [\A f \in Files :
           undo.id # 0 /\ undo'.todo = undo.todo \ {f} /\ f \in undo.todo
             /\ tree[f] # Absent /\ tree'[f] = Absent
           => LET s == artifacts[undo.id].snap
              IN /\ f \notin Own
                 /\ \/ s.had[f] = Absent
                    \/ s.was[f] # Absent \/ f \in Ignored(s.had) \/ s.blind]_wvars
  <2> SUFFICES ASSUME WInv, NEW f \in undo.todo, undo.id # 0
               PROVE  Spared(artifacts[undo.id].snap, f)
    BY DEF Spared
  <2> QED
    BY DEF WInv, UndoOfOne, Honest
<1> QED
  BY <1>1, WorkspaceInvariant, PTL DEF WSpec, UserFilesSurvive

=============================================================================
