------------------------------ MODULE ToolApproval ------------------------------
(***************************************************************************)
(* How a tool call gets the user's consent.  The executor (internal/tools) *)
(* decides whether to run, skip or ask, and waits for the answer or for    *)
(* its own timer; the bridge goroutine of cmd/mimo turns each request into *)
(* a bus event, which the bus drops when the UI is behind; the UI          *)
(* (internal/tui) shows one request at a time and counts down in one       *)
(* second ticks.  Each request carries its own one-place answer channel.   *)
(***************************************************************************)
EXTENDS Integers, Sequences

CONSTANTS
  Calls,     \* bound: tool calls, executed one after the other
  ChanRoom,  \* room of the approval channel (8 in the code)
  Seconds    \* TimeoutSeconds of a request

ASSUME ApprovalAssumption ==
  Calls \in Nat \ {0} /\ ChanRoom \in Nat \ {0} /\ Seconds \in Nat \ {0}

VARIABLES
  call,        \* the call being executed, Calls + 1 at the end
  asking,      \* the executor waits for a decision on it
  permission,  \* what policy and tool said of each call
  result,      \* how each call was settled
  approvalCh,  \* requests on their way to the bridge
  response,    \* the answer channel of each request, none when empty
  uiEvents,    \* approval events on their way to the UI
  pending,     \* the request on the panel, 0 when there is none
  countdown, ticking,
  ticks,       \* timers in flight that will send a tickMsg
  said         \* what the user answered at a panel showing the request

execVars == <<call, asking, permission, result>>
uiVars   == <<pending, countdown, ticking, ticks, said>>
tvars    == <<execVars, approvalCh, response, uiEvents, uiVars>>

Requests == 1..Calls

TInit ==
  /\ call = 1 /\ asking = FALSE
  /\ permission = [r \in Requests |-> "none"]
  /\ result = [r \in Requests |-> "none"]
  /\ approvalCh = <<>> /\ uiEvents = <<>>
  /\ response = [r \in Requests |-> "none"]
  /\ pending = 0 /\ countdown = 0 /\ ticking = FALSE /\ ticks = 0
  /\ said = [r \in Requests |-> {}]

-----------------------------------------------------------------------------
(* Execute.  "listed" is an Ask for a tool on the executor's allow list.   *)
Settle(how) ==
  /\ result' = [result EXCEPT ![call] = how]
  /\ call' = call + 1
  /\ asking' = FALSE

Decide(perm) ==
  /\ call \in Requests /\ ~asking
  /\ permission' = [permission EXCEPT ![call] = perm]
  /\ \/ /\ perm = "ask" /\ Len(approvalCh) < ChanRoom
        /\ approvalCh' = Append(approvalCh, call)
        /\ asking' = TRUE
        /\ UNCHANGED <<call, result>>
     \/ /\ \/ perm = "ask" /\ Len(approvalCh) >= ChanRoom /\ Settle("channelFull")
           \/ perm \in {"allow", "listed"} /\ Settle("ran")
           \/ perm = "deny" /\ Settle("skipped")
        /\ UNCHANGED approvalCh
  /\ UNCHANGED <<response, uiEvents, uiVars>>

FaultyTakeDecision ==   \* mutant: one answer channel for every request
  /\ asking
  /\ \E r \in Requests :
       /\ response[r] # "none"
       /\ response' = [response EXCEPT ![r] = "none"]
       /\ Settle(IF response[r] = "allow" THEN "ran" ELSE "denied")
  /\ UNCHANGED <<permission, approvalCh, uiEvents, uiVars>>
TakeDecision ==
  /\ asking /\ response[call] # "none"
  /\ response' = [response EXCEPT ![call] = "none"]
  /\ Settle(IF response[call] = "allow" THEN "ran" ELSE "denied")
  /\ UNCHANGED <<permission, approvalCh, uiEvents, uiVars>>

FaultyTimeOut ==   \* mutant: the timer starts when the panel shows the request
  /\ asking /\ pending = call
  /\ Settle("timedOut")
  /\ UNCHANGED <<permission, approvalCh, response, uiEvents, uiVars>>
(* Nobody takes the request back: the UI may still show it, or come to.    *)
TimeOut ==
  /\ asking
  /\ Settle("timedOut")
  /\ UNCHANGED <<permission, approvalCh, response, uiEvents, uiVars>>

-----------------------------------------------------------------------------
(* The bridge publishes; the UI's buffer may be full of other events.      *)
Bridge ==
  /\ approvalCh # <<>>
  /\ approvalCh' = Tail(approvalCh)
  /\ uiEvents' \in {uiEvents, Append(uiEvents, Head(approvalCh))}
  /\ UNCHANGED <<execVars, response, uiVars>>

(* After any agent event: arm a tick loop unless one is thought to run.    *)
FaultyArm(counting, seconds) ==   \* mutant: forgets to arm for a new request
  /\ ticking' = counting /\ UNCHANGED ticks
Arm(counting, seconds) ==
  LET starts == seconds > 0 /\ ~counting
  IN /\ ticking' = (counting \/ starts)
     /\ ticks' = IF starts THEN ticks + 1 ELSE ticks

(* EventApprovalNeeded replaces whatever the panel shows.                  *)
Show ==
  /\ uiEvents # <<>>
  /\ uiEvents' = Tail(uiEvents)
  /\ pending' = Head(uiEvents)
  /\ countdown' = Seconds
  /\ Arm(FALSE, Seconds)
  /\ UNCHANGED <<execVars, approvalCh, response, said>>

OtherEvent ==
  /\ pending # 0
  /\ Arm(ticking, countdown)
  /\ UNCHANGED <<execVars, approvalCh, response, uiEvents, pending, countdown, said>>

(* The send finishApproval and tickMsg do; it blocks on a full channel.    *)
Answer(decision) ==
  /\ response[pending] = "none"
  /\ response' = [response EXCEPT ![pending] = decision]

FaultyFinishApproval(decision) ==   \* mutant: the panel stays
  /\ pending # 0
  /\ Answer(decision)
  /\ said' = [said EXCEPT ![pending] = @ \union {decision}]
  /\ countdown' = 0 /\ ticking' = FALSE
  /\ UNCHANGED <<execVars, approvalCh, uiEvents, pending, ticks>>
FinishApproval(decision) ==
  /\ pending # 0
  /\ Answer(decision)
  /\ said' = [said EXCEPT ![pending] = @ \union {decision}]
  /\ pending' = 0 /\ countdown' = 0 /\ ticking' = FALSE
  /\ UNCHANGED <<execVars, approvalCh, uiEvents, ticks>>

(* tickMsg: dies, denies, or counts down and arms the next tick.           *)
TickDies ==
  /\ ticks > 0
  /\ pending = 0 \/ countdown <= 0
  /\ ticks' = ticks - 1 /\ ticking' = FALSE
  /\ UNCHANGED <<execVars, approvalCh, response, uiEvents, pending, countdown, said>>

TickDenies ==
  /\ ticks > 0 /\ pending # 0 /\ countdown = 1
  /\ Answer("deny")
  /\ pending' = 0 /\ countdown' = 0 /\ ticking' = FALSE /\ ticks' = ticks - 1
  /\ UNCHANGED <<execVars, approvalCh, uiEvents, said>>

TickCounts ==
  /\ ticks > 0 /\ pending # 0 /\ countdown > 1
  /\ countdown' = countdown - 1
  /\ UNCHANGED <<execVars, approvalCh, response, uiEvents, pending, ticking, ticks, said>>

Tick == TickDies \/ TickDenies \/ TickCounts

-----------------------------------------------------------------------------
TNext ==
  \/ \E perm \in {"allow", "listed", "ask", "deny"} : Decide(perm)
  \/ TakeDecision
  \/ TimeOut
  \/ Bridge
  \/ Show
  \/ OtherEvent
  \/ \E decision \in {"allow", "deny"} : FinishApproval(decision)
  \/ Tick

(* Goroutines are scheduled and timers fire; the user owes nothing.        *)
TSpec ==
  /\ TInit /\ [][TNext]_tvars
  /\ WF_tvars(\E perm \in {"allow", "listed", "ask", "deny"} : Decide(perm))
  /\ WF_tvars(TimeOut)
  /\ WF_tvars(Bridge)
  /\ WF_tvars(Show)
  /\ WF_tvars(Tick)

-----------------------------------------------------------------------------
Decisions == {"none", "allow", "deny"}

FlagsTyped ==
  /\ asking \in BOOLEAN /\ (asking => call \in Requests)
  /\ ticking \in BOOLEAN

ExecTyped ==
  /\ call \in 1..(Calls + 1)
  /\ permission \in [Requests -> {"none", "allow", "listed", "ask", "deny"}]
  /\ result \in [Requests -> {"none", "ran", "skipped", "denied", "timedOut", "channelFull"}]

QueuesTyped ==
  /\ approvalCh \in Seq(Requests) /\ Len(approvalCh) <= ChanRoom
  /\ uiEvents \in Seq(Requests)

AnswersTyped ==
  /\ response \in [Requests -> Decisions]
  /\ said \in [Requests -> SUBSET {"allow", "deny"}]

PanelTyped ==
  /\ pending \in 0..Calls
  /\ countdown \in 0..Seconds
  /\ pending = 0 <=> countdown = 0
  /\ ticks \in Nat

TTypeOK == FlagsTyped /\ ExecTyped /\ QueuesTyped /\ AnswersTyped /\ PanelTyped

(* A call that had to ask runs only if the user allowed this very call,    *)
(* and did not deny it; an answer that comes too late for its own call     *)
(* never settles the next one.                                             *)
RunsWithConsent ==
  \A r \in Requests : result[r] = "ran" =>
    permission[r] \in {"allow", "listed"} \/ said[r] = {"allow"}

(* model.go sends the answer from Update: were the one-place channel of    *)
(* the request on the panel ever full, the whole UI would freeze.          *)
UiNeverBlocks == pending # 0 => response[pending] = "none"

(* A request leaves the panel even if the user never answers and the       *)
(* executor gave it up: some tick loop always counts it down.              *)
PanelGoesAway == \A r \in Requests : pending = r ~> pending # r

(* Every call is settled, whether or not its request reached the UI.       *)
CallsAreSettled == <>(call = Calls + 1)

(* model.go, agentEventMsg: "Arm exactly one countdown tick loop on entry  *)
(* into approval mode" (or "the countdown would drain N x too fast").      *)
OneTickLoop == ticks <= 1
=============================================================================
