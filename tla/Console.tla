-------------------------------- MODULE Console --------------------------------
(***************************************************************************)
(* The terminal UI (internal/tui) as the one goroutine it is: Update takes *)
(* a key, a timer message or the next bus event, and what it holds decides *)
(* three things that matter outside it: which tool call is approved, which *)
(* prompt is sent, and which claims of the answer are shown as verified.   *)
(* The runtime on the other side of the bus is here only as the events it  *)
(* can publish; the bus drops what does not fit into the UI's buffer.      *)
(***************************************************************************)
EXTENDS Integers, Sequences

CONSTANTS
  Checks,    \* tools whose success backs a claim (trust.rules: verifies)
  Others,    \* tools whose success backs none
  FeedCap,   \* bound: room of the UI's event buffer (256 in the code)
  MaxRuns,   \* bound: agent runs
  CallsPerRun, \* bound: tool calls of a run
  MaxAsks    \* bound: approval requests

ASSUME ConsoleAssumption == FeedCap \in Nat

VARIABLES
  \* the runtime, as far as its events tell
  run, live,     \* the agent run that was begun last, and whether it still runs
  open,          \* calls announced by the stream and not yet worked off
  doing,         \* how far the loop is with the first of them
  calls,         \* how many this run has made
  asked, waits,  \* requests made so far; the one the executor waits on, or 0
  inbox,         \* prompts published and not begun
  feed,          \* the UI's buffer
  \* the Model of the UI
  mode, overlays, line, pending,
  working,       \* Model.running
  queued,        \* Len(promptQueue)
  rows, turnToolStart, streaming, answer,
  \* history
  turn,          \* the run of the last event the UI has taken
  unannounced,   \* runs whose AgentStarted the bus dropped
  allowed        \* requests the UI answered with Allowed

rtVars   == <<run, live, open, doing, calls, asked, waits>>
keyVars  == <<mode, overlays, line, pending>>
turnVars == <<rows, turnToolStart, streaming, answer>>
cvars    == <<rtVars, inbox, feed, keyVars, working, queued, turnVars, turn,
              unannounced, allowed>>

(* What a line says when it is read as an answer, a command or a prompt.   *)
(* line.of is the request that was on the panel when the first character   *)
(* of this text was typed; an empty line has none.                         *)
Texts == {"", "yes", "no", "/command"}
Blank == [text |-> "", of |-> 0]

CInit ==
  /\ run = 0 /\ live = FALSE /\ open = <<>> /\ doing = "idle"
  /\ calls = 0 /\ asked = 0 /\ waits = 0 /\ inbox = 0 /\ feed = <<>>
  /\ mode = "none" /\ overlays = {} /\ line = Blank /\ pending = 0
  /\ working = FALSE /\ queued = 0
  /\ rows = <<>> /\ turnToolStart = 0 /\ streaming = FALSE /\ answer = {}
  /\ turn = 0 /\ unannounced = {} /\ allowed = {}

-----------------------------------------------------------------------------
(* The runtime.  Publish drops an event when the buffer is full.           *)
FirstOf(all, n) == IF Len(all) <= n THEN all ELSE SubSeq(all, 1, n)
Emit(events) == feed' = FirstOf(feed \o events, FeedCap)
Event(kind) == [kind |-> kind, run |-> run]

Rest == <<inbox, keyVars, working, queued, turnVars, turn, allowed>>

RunBegins ==
  /\ ~live /\ inbox > 0 /\ run < MaxRuns
  /\ run' = run + 1 /\ live' = TRUE /\ inbox' = inbox - 1
  /\ Emit(<<[kind |-> "started", run |-> run + 1]>>)
  /\ unannounced' = IF Len(feed) = FeedCap THEN unannounced \union {run + 1}
                    ELSE unannounced
  /\ UNCHANGED <<open, doing, calls, asked, waits, keyVars, working, queued,
                 turnVars, turn, allowed>>

Streams ==   \* text; a failed activity; a context map
  /\ live /\ doing = "idle"
  /\ \E kind \in {"text", "context", "note"} : Emit(<<Event(kind)>>)
  /\ UNCHANGED <<rtVars, Rest, unannounced>>

Announces(t) ==
  /\ live /\ doing = "idle" /\ calls < CallsPerRun
  /\ calls' = calls + 1 /\ open' = Append(open, t)
  /\ Emit(<<[kind |-> "toolStart", run |-> run, tool |-> t]>>)
  /\ UNCHANGED <<run, live, doing, asked, waits, Rest, unannounced>>

(* The loop works off what was announced, one call after the other and     *)
(* without looking at its context: the executor says that the call starts, *)
(* may ask, and gives its result; then the loop gives this result again.   *)
Result(ok) == [kind |-> "toolResult", run |-> run, tool |-> Head(open), ok |-> ok]

Executes ==
  /\ open # <<>> /\ doing \in {"idle", "next"} /\ doing' = "begun"
  /\ Emit(<<[kind |-> "toolStart", run |-> run, tool |-> Head(open)]>>)
  /\ UNCHANGED <<run, live, open, calls, asked, waits, Rest, unannounced>>

AsksFor ==
  /\ doing = "begun" /\ asked < MaxAsks
  /\ asked' = asked + 1 /\ waits' = asked + 1 /\ doing' = "asked"
  /\ Emit(<<[kind |-> "approval", run |-> run, request |-> asked + 1]>>)
  /\ UNCHANGED <<run, live, open, calls, Rest, unannounced>>

GivesUp ==   \* the executor's own timer; the UI is not told
  /\ waits # 0 /\ waits' = 0
  /\ UNCHANGED <<run, live, open, doing, calls, asked, feed, Rest,
                 unannounced>>

Reports(ok) ==
  /\ doing \in {"begun", "asked"} /\ waits = 0
  /\ doing' = IF ok THEN "done" ELSE "failed"
  /\ Emit(<<Result(ok)>>)
  /\ UNCHANGED <<run, live, open, calls, asked, waits, Rest, unannounced>>

Finishes ==
  /\ doing \in {"done", "failed"}
  /\ open' = Tail(open) /\ doing' = IF Tail(open) = <<>> THEN "idle" ELSE "next"
  /\ Emit(<<Result(doing = "done")>>)
  /\ UNCHANGED <<run, live, calls, asked, waits, Rest, unannounced>>

Ends(events) ==   \* with calls announced and never executed after an error
  /\ live' = FALSE /\ open' = <<>> /\ calls' = 0
  /\ Emit(events)
  /\ UNCHANGED <<run, doing, asked, waits, Rest, unannounced>>
RunFails == live /\ doing = "idle" /\ Ends(<<Event("error"), Event("done")>>)
RunAnswers == live /\ open = <<>> /\ Ends(<<Event("done")>>)

-----------------------------------------------------------------------------
(* applyEvent.                                                             *)
HasRunning(t) ==
  rows # <<>> /\ rows[Len(rows)].tool = t /\ rows[Len(rows)].status = "running"

(* finishTool: the last running row of that name, else a row of its own.   *)
RunningRows(t) == {i \in DOMAIN rows : rows[i].tool = t /\ rows[i].status = "running"}
Finished(e) ==
  [tool |-> e.tool, status |-> IF e.ok THEN "done" ELSE "failed", by |-> e.run]
FinishTool(e) ==
  IF RunningRows(e.tool) = {} THEN Append(rows, Finished(e))
  ELSE LET i == CHOOSE i \in RunningRows(e.tool) : \A j \in RunningRows(e.tool) : j <= i
       IN [rows EXCEPT ![i] = Finished(e)]

FaultyAgentStarted ==   \* mutant: the last turn's answer stays in the ledger
  /\ working' = TRUE /\ streaming' = FALSE
  /\ turnToolStart' = Len(rows)
  /\ UNCHANGED <<rows, answer, keyVars, queued, inbox>>
AgentStarted ==
  /\ working' = TRUE /\ streaming' = FALSE
  /\ turnToolStart' = Len(rows) /\ answer' = {}
  /\ UNCHANGED <<rows, keyVars, queued, inbox>>

MessageDelta(e) ==   \* the text may claim success
  /\ streaming' = TRUE
  /\ \E claims \in {{}, {e.run}} :
       answer' = claims \union (IF streaming THEN answer ELSE {})
  /\ UNCHANGED <<rows, turnToolStart, keyVars, working, queued, inbox>>

ToolEvent(e) ==
  /\ rows' = IF e.kind = "toolResult" THEN FinishTool(e)
             ELSE IF HasRunning(e.tool) THEN rows
             ELSE Append(rows, [tool |-> e.tool, status |-> "running", by |-> 0])
  /\ UNCHANGED <<turnToolStart, streaming, answer, keyVars, working, queued,
                 inbox>>

(* Whatever the user was typing is gone, and an overlay stays in front.    *)
FaultyApprovalNeeded(e) ==   \* mutant: what was being typed stays in the line
  /\ mode' = "approve" /\ pending' = e.request
  /\ UNCHANGED <<line, overlays, turnVars, working, queued, inbox>>
ApprovalNeeded(e) ==
  /\ mode' = "approve" /\ pending' = e.request /\ line' = Blank
  /\ UNCHANGED <<overlays, turnVars, working, queued, inbox>>

RunEvent(e) ==   \* error, done; done sends the next queued prompt
  LET next == e.kind = "done" /\ queued > 0
  IN /\ streaming' = FALSE /\ working' = next
     /\ queued' = IF next THEN queued - 1 ELSE queued
     /\ inbox' = IF next THEN inbox + 1 ELSE inbox
     /\ UNCHANGED <<rows, turnToolStart, answer, keyVars>>

OtherUpdate(e) ==   \* a note ends the streamed block, a context map does not
  /\ streaming' = (streaming /\ e.kind # "note")
  /\ UNCHANGED <<rows, turnToolStart, answer, keyVars, working, queued,
                 inbox>>

ApplyEvent ==
  /\ feed # <<>>
  /\ feed' = Tail(feed)
  /\ LET e == Head(feed)
     IN /\ turn' = e.run
        /\ \/ e.kind = "started" /\ AgentStarted
           \/ e.kind = "text" /\ MessageDelta(e)
           \/ e.kind \in {"toolStart", "toolResult"} /\ ToolEvent(e)
           \/ e.kind = "approval" /\ ApprovalNeeded(e)
           \/ e.kind \in {"error", "done"} /\ RunEvent(e)
           \/ e.kind \in {"context", "note"} /\ OtherUpdate(e)
  /\ UNCHANGED <<rtVars, unannounced, allowed>>

-----------------------------------------------------------------------------
(* Keys.  Beside them only the feed, the runtime's waiting and the ghosts. *)
World == <<run, live, open, doing, calls, asked, feed, turn, unannounced>>

HelpKey ==
  /\ mode = "none"
  /\ overlays' = IF "help" \in overlays THEN overlays \ {"help"}
                 ELSE overlays \union {"help"}
  /\ UNCHANGED <<World, waits, inbox, mode, line, pending, working, queued,
                 turnVars, allowed>>

CloseOverlay ==   \* esc: help lies in front of the timeline
  /\ overlays # {}
  /\ overlays' = IF "help" \in overlays THEN overlays \ {"help"} ELSE {}
  /\ UNCHANGED <<World, waits, inbox, mode, line, pending, working, queued,
                 turnVars, allowed>>

Typing == mode # "none" /\ overlays = {}

Edit ==   \* a character, backspace, delete, the cursor keys
  /\ Typing
  /\ \E text \in Texts :
       line' = IF text = "" THEN Blank
               ELSE [text |-> text, of |-> IF line.text = "" THEN pending ELSE line.of]
  /\ UNCHANGED <<World, waits, inbox, mode, overlays, pending, working,
                 queued, turnVars, allowed>>

BeginPrompt ==   \* "/" or any other character that is not a command key
  /\ mode = "none" /\ overlays = {}
  /\ mode' = "prompt"
  /\ \E text \in Texts \ {""} : line' = [text |-> text, of |-> 0]
  /\ UNCHANGED <<World, waits, inbox, overlays, pending, working, queued,
                 turnVars, allowed>>

ClearChat ==   \* ctrl+l, /clear: the next text starts a new block
  /\ mode = "none" /\ overlays = {}
  /\ streaming' = FALSE
  /\ UNCHANGED <<World, waits, inbox, keyVars, working, queued, rows,
                 turnToolStart, answer, allowed>>

Interrupt ==   \* ctrl+g; the run it cancels fails later, if it is still there
  /\ mode = "none" /\ overlays = {} /\ working
  /\ queued' = 0
  /\ UNCHANGED <<World, waits, inbox, keyVars, working, turnVars, allowed>>

LeavePrompt == mode' = "none" /\ line' = Blank /\ UNCHANGED pending

CancelPrompt ==
  /\ Typing /\ mode = "prompt"
  /\ LeavePrompt
  /\ UNCHANGED <<World, waits, inbox, overlays, working, queued, turnVars,
                 allowed>>

(* An empty line; /help, /timeline if there is one, or another command.    *)
Command ==
  /\ Typing /\ mode = "prompt" /\ line.text \in {"", "/command"}
  /\ overlays' \in IF line.text = "" THEN {{}}
                   ELSE {{}, {"help"}, {"timeline"}}
  /\ LeavePrompt
  /\ UNCHANGED <<World, waits, inbox, working, queued, turnVars, allowed>>

Submit ==
  /\ Typing /\ mode = "prompt" /\ line.text \in {"yes", "no"}
  /\ run + inbox + queued < MaxRuns
  /\ IF working THEN queued' = queued + 1 /\ UNCHANGED <<working, inbox>>
     ELSE working' = TRUE /\ inbox' = inbox + 1 /\ UNCHANGED queued
  /\ LeavePrompt
  /\ streaming' = FALSE
  /\ UNCHANGED <<World, waits, overlays, rows, turnToolStart, answer,
                 allowed>>

(* finishApproval: the answer goes to the channel of the request shown;    *)
(* the executor takes it if it still waits for this one.                   *)
FinishApproval(yes) ==
  /\ mode' = "none" /\ pending' = 0 /\ line' = Blank
  /\ waits' = IF waits = pending THEN 0 ELSE waits
  /\ allowed' = IF yes THEN allowed \union {pending} ELSE allowed
  /\ UNCHANGED <<World, inbox, overlays, working, queued, turnVars>>

SubmitApproval ==   \* enter; an empty line approves
  /\ Typing /\ mode = "approve"
  /\ \/ line.text \in {"", "yes"} /\ FinishApproval(TRUE)
     \/ line.text = "no" /\ FinishApproval(FALSE)

CancelApproval == Typing /\ mode = "approve" /\ FinishApproval(FALSE)   \* esc

(* tickMsg with the last second gone; no overlay stops it.                 *)
AutoDeny ==
  /\ mode = "approve"
  /\ mode' = "none" /\ pending' = 0
  /\ waits' = IF waits = pending THEN 0 ELSE waits
  /\ UNCHANGED <<World, inbox, overlays, line, working, queued, turnVars,
                 allowed>>

-----------------------------------------------------------------------------
CNext ==
  \/ RunBegins \/ Streams \/ AsksFor \/ GivesUp \/ RunFails \/ RunAnswers
  \/ \E t \in Checks \union Others : Announces(t)
  \/ Executes \/ Finishes \/ \E ok \in BOOLEAN : Reports(ok)
  \/ ApplyEvent
  \/ HelpKey \/ CloseOverlay \/ Edit \/ BeginPrompt \/ ClearChat \/ Interrupt
  \/ CancelPrompt \/ Command \/ Submit
  \/ SubmitApproval \/ CancelApproval \/ AutoDeny

CSpec == CInit /\ [][CNext]_cvars

-----------------------------------------------------------------------------
(* View: what lies in front.                                               *)
InFront ==
  IF "help" \in overlays THEN "help"
  ELSE IF "timeline" \in overlays THEN "timeline"
  ELSE IF mode = "approve" THEN "approval" ELSE "body"

(* trustActions and trust.Analyze: a claim of the last answer is backed by *)
(* a successful row of this turn.                                          *)
TurnRows == {i \in DOMAIN rows : i > turnToolStart}
Verified ==
  /\ answer # {}
  /\ \E i \in TurnRows : rows[i].tool \in Checks /\ rows[i].status = "done"

(* A tool call is approved only from the panel that shows this very        *)
(* request, with nothing in front of it, and whatever text the line holds  *)
(* was typed since the request came: an overlay's key, the text of a       *)
(* prompt the user was typing when the request cut in, or an answer typed  *)
(* for the request before, is never taken for consent.  An empty line      *)
(* approves as well, so a bare enter does, whatever it was meant for.      *)
ConsentIsGivenInView ==
  [][\A r \in allowed' \ allowed :
       /\ InFront = "approval" /\ pending = r
       /\ line.text = "" \/ line.of = r]_cvars

(* "Reset per-turn state so the trust ledger scopes to THIS run's answer   *)
(* and tools (not a stale prior answer or an earlier turn's test run)"     *)
(* (model.go:1449): a claim shown as verified was made, and is backed by a *)
(* check that succeeded, in the run whose events the UI is taking.  Only   *)
(* an AgentStarted that the bus dropped can mix two runs.                  *)
VerifiedThisTurn ==
  Verified /\ turn \notin unannounced =>
    /\ answer = {turn}
    /\ \E i \in TurnRows :
         rows[i].tool \in Checks /\ rows[i].status = "done" /\ rows[i].by = turn
=============================================================================
