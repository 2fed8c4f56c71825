----------------------------- MODULE ConsoleProofs -----------------------------
(***************************************************************************)
(* Consent and evidence in the terminal UI, for every number of runs,      *)
(* calls, requests and places in its event buffer, and for every           *)
(* interleaving of keys with timers and events.                            *)
(*   LineIsTheAnswer  whose answer the line is: while the panel is up, any *)
(*                    text in it was begun after the request on the panel  *)
(*   TurnInv          whose evidence the ledger holds: the events come run *)
(*                    by run, each announced run with its AgentStarted in  *)
(*                    front, and what was there before is out of scope     *)
(***************************************************************************)
EXTENDS Console, TLAPS

LineIsRecord == line = [text |-> line.text, of |-> line.of]

LineIsTheAnswer ==
  /\ LineIsRecord
  /\ mode = "approve" => line.text = "" \/ line.of = pending

(* Keys and events that leave the input alone, and those that close it.    *)
LEMMA KeysUntouched ==
  ASSUME LineIsTheAnswer, UNCHANGED keyVars
  PROVE  LineIsTheAnswer'
BY DEF LineIsTheAnswer, LineIsRecord, keyVars

LEMMA PromptLeft ==
  ASSUME LeavePrompt
  PROVE  LineIsTheAnswer'
BY DEF LeavePrompt, LineIsTheAnswer, LineIsRecord, Blank

LEMMA ApprovalFinished ==
  ASSUME NEW yes \in BOOLEAN, FinishApproval(yes)
  PROVE  LineIsTheAnswer'
BY DEF FinishApproval, LineIsTheAnswer, LineIsRecord, Blank

(* Whatever the runtime does, the input is not part of it.                 *)
LEMMA RuntimeHasNoKeys ==
  ASSUME \/ RunBegins \/ Streams \/ AsksFor \/ GivesUp \/ RunFails \/ RunAnswers
         \/ \E t \in Checks \union Others : Announces(t)
         \/ Executes \/ Finishes \/ \E ok \in BOOLEAN : Reports(ok)
  PROVE  UNCHANGED <<keyVars, allowed>>
BY DEF RunBegins, Streams, AsksFor, GivesUp, RunFails, RunAnswers, Ends, Announces, Executes,
       Reports, Finishes, Rest

(* Of the events only an approval request touches the input, and none      *)
(* touches what was allowed.                                               *)
LEMMA EventsAndKeys ==
  ASSUME LineIsTheAnswer, ApplyEvent
  PROVE  LineIsTheAnswer' /\ UNCHANGED allowed
<1> DEFINE e == Head(feed)
<1>1. \/ AgentStarted \/ MessageDelta(e) \/ ToolEvent(e) \/ ApprovalNeeded(e)
      \/ RunEvent(e) \/ OtherUpdate(e)
  BY DEF ApplyEvent
<1>2. CASE ApprovalNeeded(e)
  BY <1>2 DEF ApprovalNeeded, ApplyEvent, LineIsTheAnswer, LineIsRecord, Blank
<1>3. CASE \/ AgentStarted \/ MessageDelta(e) \/ ToolEvent(e) \/ RunEvent(e) \/ OtherUpdate(e)
  <2>1. UNCHANGED keyVars
    BY <1>3 DEF AgentStarted, MessageDelta, ToolEvent, RunEvent, OtherUpdate
  <2> QED
    BY <2>1, KeysUntouched DEF ApplyEvent
<1> QED
  BY <1>1, <1>2, <1>3

LEMMA ConsoleInit == CInit => LineIsTheAnswer
BY DEF CInit, LineIsTheAnswer, LineIsRecord, Blank

LEMMA ConsoleStep == LineIsTheAnswer /\ [CNext]_cvars => LineIsTheAnswer'
<1> SUFFICES ASSUME LineIsTheAnswer, [CNext]_cvars PROVE LineIsTheAnswer'
  OBVIOUS
<1>1. CASE \/ RunBegins \/ Streams \/ AsksFor \/ GivesUp \/ RunFails \/ RunAnswers
           \/ \E t \in Checks \union Others : Announces(t)
           \/ Executes \/ Finishes \/ \E ok \in BOOLEAN : Reports(ok)
  BY <1>1, RuntimeHasNoKeys, KeysUntouched
<1>2. CASE ApplyEvent
  BY <1>2, EventsAndKeys
<1>3. CASE HelpKey \/ CloseOverlay
  BY <1>3 DEF HelpKey, CloseOverlay, LineIsTheAnswer, LineIsRecord
<1>4. CASE ClearChat \/ Interrupt
  BY <1>4, KeysUntouched DEF ClearChat, Interrupt
<1>5. CASE Edit
  <2>1. PICK text \in Texts :
          line' = IF text = "" THEN Blank
                  ELSE [text |-> text, of |-> IF line.text = "" THEN pending ELSE line.of]
    BY <1>5 DEF Edit
  <2>2. UNCHANGED <<mode, pending>>
    BY <1>5 DEF Edit
  <2>3. CASE text = ""
    BY <2>1, <2>3 DEF LineIsTheAnswer, LineIsRecord, Blank
  <2>4. CASE text # ""
    <3>1. PICK of : of = IF line.text = "" THEN pending ELSE line.of
      OBVIOUS
    <3>2. line' = [text |-> text, of |-> of]
      BY <2>1, <2>4, <3>1
    <3>3. line'.text = text /\ line'.of = of
      BY <3>2
    <3>4. mode = "approve" => of = pending
      BY <3>1 DEF LineIsTheAnswer
    <3> QED
      BY <2>2, <3>2, <3>3, <3>4 DEF LineIsTheAnswer, LineIsRecord
  <2> QED
    BY <2>3, <2>4
<1>6. CASE BeginPrompt
  BY <1>6 DEF BeginPrompt, LineIsTheAnswer, LineIsRecord
<1>7. CASE CancelPrompt \/ Command \/ Submit
  BY <1>7, PromptLeft DEF CancelPrompt, Command, Submit
<1>8. CASE SubmitApproval \/ CancelApproval
  BY <1>8, ApprovalFinished DEF SubmitApproval, CancelApproval
<1>9. CASE AutoDeny
  BY <1>9 DEF AutoDeny, LineIsTheAnswer, LineIsRecord
<1>10. CASE UNCHANGED cvars
  BY <1>10, KeysUntouched DEF cvars
<1> QED
  BY <1>1, <1>2, <1>3, <1>4, <1>5, <1>6, <1>7, <1>8, <1>9, <1>10 DEF CNext

(* The line is an answer to nothing but the request shown.                 *)
THEOREM AnswersTheRequestShown == CSpec => []LineIsTheAnswer
<1> QED
  BY ConsoleInit, ConsoleStep, PTL DEF CSpec

-----------------------------------------------------------------------------
(* One step.  Only the enter key allows, and where it does the panel is in *)
(* front, no overlay being open.                                           *)
LEMMA AllowedInView ==
  ASSUME LineIsTheAnswer, [CNext]_cvars
  PROVE  \A r \in allowed' \ allowed : /\ InFront = "approval" /\ pending = r
                                       /\ line.text = "" \/ line.of = r
<1>1. CASE \/ RunBegins \/ Streams \/ AsksFor \/ GivesUp \/ RunFails \/ RunAnswers
           \/ \E t \in Checks \union Others : Announces(t)
           \/ Executes \/ Finishes \/ \E ok \in BOOLEAN : Reports(ok)
  BY <1>1, RuntimeHasNoKeys
<1>2. CASE ApplyEvent
  BY <1>2, EventsAndKeys
<1>3. CASE \/ HelpKey \/ CloseOverlay \/ ClearChat \/ Interrupt \/ Edit \/ BeginPrompt
           \/ CancelPrompt \/ Command \/ Submit \/ AutoDeny \/ UNCHANGED cvars
  <2>1. UNCHANGED allowed
    BY <1>3 DEF HelpKey, CloseOverlay, ClearChat, Interrupt, Edit, BeginPrompt, CancelPrompt,
                Command, Submit, AutoDeny, cvars
  <2> QED
    BY <2>1
<1>4. CASE SubmitApproval \/ CancelApproval
  <2>1. mode = "approve" /\ overlays = {}
    BY <1>4 DEF SubmitApproval, CancelApproval, Typing
  <2>2. InFront = "approval" /\ (line.text = "" \/ line.of = pending)
    BY <2>1 DEF InFront, LineIsTheAnswer
  <2>3. allowed' \subseteq allowed \union {pending}
    BY <1>4 DEF SubmitApproval, CancelApproval, FinishApproval
  <2> QED
    BY <2>2, <2>3
<1> QED
  BY <1>1, <1>2, <1>3, <1>4 DEF CNext

(* ConsentIsGivenInView (Console): a call is allowed only from the panel   *)
(* that shows its request, with nothing in front of it, and by no text     *)
(* that was typed, for a prompt or another request, before this one came.  *)
THEOREM ConsentInView == CSpec => ConsentIsGivenInView
<1>1. LineIsTheAnswer /\ [CNext]_cvars =>
        [\A r \in allowed' \ allowed :
           /\ InFront = "approval" /\ pending = r
           /\ line.text = "" \/ line.of = r]_cvars
  BY AllowedInView
<1> QED
  BY <1>1, AnswersTheRequestShown, PTL DEF CSpec, ConsentIsGivenInView
-----------------------------------------------------------------------------
(* Turns.  What is typed here is what the events carry from the runtime to *)
(* the ledger.                                                             *)
Tools == Checks \union Others
Marked == {"started", "text", "context", "note", "error", "done"}
Events == [kind : Marked, run : Nat]
            \union [kind : {"toolStart"}, run : Nat, tool : Tools]
            \union [kind : {"approval"}, run : Nat, request : Nat]
            \union [kind : {"toolResult"}, run : Nat, tool : Tools, ok : BOOLEAN]
Rows == [tool : Tools, status : {"running", "done", "failed"}, by : Nat]

Types ==
  /\ run \in Nat /\ turn \in Nat /\ asked \in Nat /\ turnToolStart \in Nat
  /\ open \in Seq(Tools) /\ feed \in Seq(Events) /\ rows \in Seq(Rows)
  /\ doing # "idle" => open # <<>>
  /\ Len(feed) <= FeedCap

(* The events come in the order of their runs.                             *)
Ordered(events, t, r) ==
  /\ t <= r
  /\ \A i \in 1..Len(events) : t <= events[i].run /\ events[i].run <= r
  /\ \A i, j \in 1..Len(events) : i <= j => events[i].run <= events[j].run

(* A run that has not begun for the UI, and was announced, will begin: its *)
(* AgentStarted is in the buffer, in front of all its other events.        *)
Begins(event, r) == event.kind = "started" /\ event.run = r
BegunBy(events, r, n) == \E j \in 1..Len(events) : j <= n /\ Begins(events[j], r)
Starts(events, t, r, lost) ==
  /\ t < r /\ r \notin lost => BegunBy(events, r, Len(events))
  /\ \A i \in 1..Len(events) :
       t < events[i].run /\ events[i].run \notin lost => BegunBy(events, events[i].run, i)

(* What the ledger holds of an announced turn is this turn's.              *)
LedgerOfTurn ==
  turn \notin unannounced =>
    /\ answer \subseteq {turn}
    /\ \A i \in TurnRows : rows[i].status = "done" => rows[i].by = turn

TurnInv ==
  /\ Types
  /\ Ordered(feed, turn, run)
  /\ Starts(feed, turn, run, unannounced)
  /\ LedgerOfTurn

(* Emit keeps what was in the buffer and puts behind it those of the new   *)
(* events that fit.                                                        *)
Kept(old, new) == FirstOf(old \o new, FeedCap)

LEMMA CutSequence ==
  ASSUME NEW old \in Seq(Events), NEW new \in Seq(Events),
         ConsoleAssumption, Len(old) <= FeedCap,
         NEW all, all = Kept(old, new)
  PROVE  /\ all \in Seq(Events) /\ Len(all) <= FeedCap
         /\ Len(old) <= Len(all) /\ Len(all) <= Len(old) + Len(new)
         /\ Len(all) = FeedCap \/ Len(all) = Len(old) + Len(new)
         /\ \A i \in 1..Len(old) : all[i] = old[i]
         /\ \A i \in 1..Len(all) : i > Len(old) =>
              i - Len(old) \in 1..Len(new) /\ all[i] = new[i - Len(old)]
<1> DEFINE both == old \o new
<1>1. /\ both \in Seq(Events) /\ Len(both) = Len(old) + Len(new)
      /\ \A i \in 1..Len(old) : both[i] = old[i]
      /\ \A i \in 1..Len(both) : i > Len(old) =>
           i - Len(old) \in 1..Len(new) /\ both[i] = new[i - Len(old)]
  OBVIOUS
<1>2. Len(old) \in Nat /\ Len(new) \in Nat /\ FeedCap \in Nat
  BY DEF ConsoleAssumption
<1>3. CASE Len(both) <= FeedCap
  BY <1>1, <1>2, <1>3 DEF Kept, FirstOf
<1>4. CASE ~(Len(both) <= FeedCap)
  <2>1. all = SubSeq(both, 1, FeedCap)
    BY <1>4 DEF Kept, FirstOf
  <2>2. FeedCap < Len(both)
    BY <1>1, <1>2, <1>4
  <2> HIDE DEF both
  <2>3. all \in Seq(Events) /\ Len(all) = FeedCap /\ \A i \in 1..FeedCap : all[i] = both[i]
    BY <1>1, <1>2, <2>1, <2>2
  <2> QED
    BY <1>1, <1>2, <2>2, <2>3
<1> QED
  BY <1>3, <1>4

LEMMA EventsHaveRuns ==
  ASSUME NEW s \in Seq(Events)
  PROVE  Len(s) \in Nat /\ \A i \in 1..Len(s) : s[i] \in Events /\ s[i].run \in Nat
<1>1. \A e \in Events : e.run \in Nat
  BY DEF Events
<1>2. Len(s) \in Nat /\ \A i \in 1..Len(s) : s[i] \in Events
  OBVIOUS
<1> QED
  BY <1>1, <1>2

(* What the runtime says of the run begun last, or of the next one, keeps  *)
(* the order of runs.                                                      *)
LEMMA GrowsOrdered ==
  ASSUME NEW old \in Seq(Events), NEW all \in Seq(Events), NEW t \in Nat,
         NEW before \in Nat, NEW r \in Nat, before <= r,
         Len(old) <= Len(all), \A i \in 1..Len(old) : all[i] = old[i],
         \A i \in 1..Len(all) : i > Len(old) => all[i].run = r,
         Ordered(old, t, before)
  PROVE  Ordered(all, t, r)
<1>1. Len(old) \in Nat /\ \A i \in 1..Len(old) : old[i].run \in Nat
  BY EventsHaveRuns
<1>2. Len(all) \in Nat /\ \A i \in 1..Len(all) : all[i].run \in Nat
  BY EventsHaveRuns
<1>3. t <= r
  BY DEF Ordered
<1>4. ASSUME NEW i \in 1..Len(all) PROVE t <= all[i].run /\ all[i].run <= r
  <2>1. CASE i <= Len(old)
    BY <1>1, <1>2, <2>1 DEF Ordered
  <2>2. CASE i > Len(old)
    BY <1>3, <2>2
  <2> QED
    BY <1>1, <1>2, <2>1, <2>2
<1>5. ASSUME NEW i \in 1..Len(all), NEW j \in 1..Len(all), i <= j
      PROVE  all[i].run <= all[j].run
  <2>1. CASE j <= Len(old)
    <3>1. i \in 1..Len(old) /\ j \in 1..Len(old)
      BY <1>1, <1>2, <1>5, <2>1
    <3> QED
      BY <1>5, <3>1 DEF Ordered
  <2>2. CASE j > Len(old)
    BY <1>4, <2>2
  <2> QED
    BY <1>1, <1>2, <2>1, <2>2
<1> QED
  BY <1>3, <1>4, <1>5 DEF Ordered

(* And a run begun with room in the buffer begins there.                   *)
LEMMA GrowsStarted ==
  ASSUME NEW old \in Seq(Events), NEW all \in Seq(Events), NEW t \in Nat,
         NEW before \in Nat, NEW r \in Nat, before <= r, NEW lost, NEW gone, lost \subseteq gone,
         Len(old) <= Len(all), \A i \in 1..Len(old) : all[i] = old[i],
         \A i \in 1..Len(all) : i > Len(old) => all[i].run = r,
         before < r => \/ r \in gone
                       \/ Len(all) = Len(old) + 1 /\ Begins(all[Len(old) + 1], r),
         Starts(old, t, before, lost)
  PROVE  Starts(all, t, r, gone)
<1>1. Len(old) \in Nat /\ Len(all) \in Nat
  BY EventsHaveRuns
<1>2. ASSUME NEW q, NEW n \in Nat, BegunBy(old, q, n)
      PROVE  \E j \in 1..Len(all) : j <= n /\ j <= Len(old) /\ Begins(all[j], q)
  BY <1>1, <1>2 DEF BegunBy
<1>3. ASSUME t < r, r \notin gone
      PROVE  \E j \in 1..Len(all) : j <= Len(old) + 1 /\ Begins(all[j], r)
  <2>1. CASE before = r
    <3>1. BegunBy(old, r, Len(old))
      BY <1>3, <2>1 DEF Starts
    <3>2. PICK j \in 1..Len(all) : j <= Len(old) /\ Begins(all[j], r)
      BY <1>1, <1>2, <3>1
    <3> QED
      BY <1>1, <3>2
  <2>2. CASE before < r
    BY <1>1, <1>3, <2>2
  <2> QED
    BY <2>1, <2>2
<1>4. ASSUME NEW i \in 1..Len(all), t < all[i].run, all[i].run \notin gone
      PROVE  BegunBy(all, all[i].run, i)
  <2>1. CASE i <= Len(old)
    <3>1. i \in 1..Len(old) /\ all[i] = old[i]
      BY <1>1, <2>1
    <3>2. BegunBy(old, old[i].run, i)
      BY <1>4, <3>1 DEF Starts
    <3> QED
      BY <1>1, <1>2, <3>1, <3>2 DEF BegunBy
  <2>2. CASE i > Len(old)
    <3>1. all[i].run = r
      BY <2>2
    <3>2. PICK j \in 1..Len(all) : j <= Len(old) + 1 /\ Begins(all[j], r)
      BY <1>3, <1>4, <3>1
    <3> QED
      BY <1>1, <2>2, <3>1, <3>2 DEF BegunBy
  <2> QED
    BY <1>1, <2>1, <2>2
<1>5. t < r /\ r \notin gone => BegunBy(all, r, Len(all))
  BY <1>1, <1>3 DEF BegunBy
<1> QED
  BY <1>4, <1>5 DEF Starts

LEMMA EmitKeeps ==
  ASSUME ConsoleAssumption, TurnInv, NEW r \in Nat, NEW new \in Seq(Events), Emit(new),
         \A k \in 1..Len(new) : new[k].run = r,
         run' = r, run <= r, UNCHANGED turn, unannounced \subseteq unannounced',
         run < r => \/ r \in unannounced'
                    \/ Len(feed) < FeedCap /\ Len(new) = 1 /\ new[1].kind = "started"
  PROVE  /\ feed' \in Seq(Events) /\ Len(feed') <= FeedCap
         /\ Ordered(feed, turn, run)'
         /\ Starts(feed, turn, run, unannounced)'
<1>1. PICK all : all = FirstOf(feed \o new, FeedCap)
  OBVIOUS
<1>2. feed \in Seq(Events) /\ Len(feed) <= FeedCap /\ FeedCap \in Nat /\ turn \in Nat /\ run \in Nat
  BY DEF ConsoleAssumption, TurnInv, Types
<1>3. PICK old : old = feed
  OBVIOUS
<1>4. all = Kept(old, new) /\ old \in Seq(Events) /\ Len(old) <= FeedCap
  BY <1>1, <1>2, <1>3 DEF Kept
<1>5. /\ all \in Seq(Events) /\ Len(all) <= FeedCap
      /\ Len(old) <= Len(all) /\ Len(all) <= Len(old) + Len(new)
      /\ Len(all) = FeedCap \/ Len(all) = Len(old) + Len(new)
      /\ \A i \in 1..Len(old) : all[i] = old[i]
      /\ \A i \in 1..Len(all) : i > Len(old) =>
           i - Len(old) \in 1..Len(new) /\ all[i] = new[i - Len(old)]
  BY <1>2, <1>4, CutSequence
<1>6. \A i \in 1..Len(all) : i > Len(old) => all[i].run = r
  BY <1>5
<1>7. Ordered(old, turn, run) /\ Starts(old, turn, run, unannounced)
  BY <1>3 DEF TurnInv
<1>8. Ordered(all, turn, r)
  BY <1>2, <1>4, <1>5, <1>6, <1>7, GrowsOrdered
<1>9. run < r => \/ r \in unannounced'
                 \/ Len(all) = Len(old) + 1 /\ Begins(all[Len(old) + 1], r)
  <2> SUFFICES ASSUME run < r, r \notin unannounced'
               PROVE  Len(all) = Len(old) + 1 /\ Begins(all[Len(old) + 1], r)
    OBVIOUS
  <2>1. Len(old) < FeedCap /\ Len(new) = 1 /\ new[1].kind = "started" /\ new[1].run = r
    BY <1>3
  <2>2. Len(old) \in Nat /\ Len(all) \in Nat
    BY <1>4, <1>5, EventsHaveRuns
  <2>3. Len(all) = Len(old) + 1
    BY <1>2, <1>5, <2>1, <2>2
  <2>4. Len(old) + 1 \in 1..Len(all) /\ Len(old) + 1 > Len(old) /\ (Len(old) + 1) - Len(old) = 1
    BY <2>2, <2>3
  <2>5. all[Len(old) + 1] = new[1]
    BY <1>5, <2>4
  <2> QED
    BY <2>1, <2>3, <2>5 DEF Begins
<1>10. Starts(all, turn, r, unannounced')
  BY <1>2, <1>4, <1>5, <1>6, <1>7, <1>9, GrowsStarted
<1>11. feed' = all /\ run' = r /\ turn' = turn
  BY <1>1 DEF Emit
<1> QED
  BY <1>5, <1>8, <1>10, <1>11

-----------------------------------------------------------------------------
(* The runtime's steps.                                                    *)
LEMMA OneEvent ==
  ASSUME NEW e \in Events
  PROVE  <<e>> \in Seq(Events) /\ Len(<<e>>) = 1 /\ <<e>>[1] = e
OBVIOUS

LEMMA RuntimeEvents ==
  ASSUME NEW n \in Nat, NEW t \in Tools, NEW ok \in BOOLEAN
  PROVE  /\ \A kind \in Marked : [kind |-> kind, run |-> n] \in Events
         /\ [kind |-> "toolStart", run |-> n, tool |-> t] \in Events
         /\ [kind |-> "toolResult", run |-> n, tool |-> t, ok |-> ok] \in Events
BY DEF Events

LEMMA ApprovalEvents ==
  ASSUME NEW n \in Nat, NEW a \in Nat
  PROVE  [kind |-> "approval", run |-> n, request |-> a] \in Events
BY DEF Events

LEMMA MarkedEvents ==
  ASSUME NEW n \in Nat
  PROVE  \A kind \in Marked : [kind |-> kind, run |-> n] \in Events
BY DEF Events

(* The part of the ledger that no step of the runtime touches.             *)
LEMMA LedgerStays ==
  ASSUME TurnInv, UNCHANGED <<turnVars, turn>>, unannounced \subseteq unannounced'
  PROVE  LedgerOfTurn' /\ turn' \in Nat /\ turnToolStart' \in Nat /\ rows' \in Seq(Rows)
<1>1. UNCHANGED <<rows, turnToolStart, answer, turn>>
  BY DEF turnVars
<1>2. TurnRows' = TurnRows
  BY <1>1 DEF TurnRows
<1> QED
  BY <1>1, <1>2 DEF TurnInv, Types, LedgerOfTurn

LEMMA Says ==
  ASSUME ConsoleAssumption, TurnInv, NEW new \in Seq(Events), Emit(new),
         \A k \in 1..Len(new) : new[k].run = run,
         UNCHANGED <<run, turnVars, turn, unannounced>>,
         asked' \in Nat, open' \in Seq(Tools), doing' # "idle" => open' # <<>>
  PROVE  TurnInv'
<1>1. run \in Nat
  BY DEF TurnInv, Types
<1>2. /\ feed' \in Seq(Events) /\ Len(feed') <= FeedCap
      /\ Ordered(feed, turn, run)'
      /\ Starts(feed, turn, run, unannounced)'
  BY <1>1, EmitKeeps
<1>3. LedgerOfTurn' /\ turn' \in Nat /\ turnToolStart' \in Nat /\ rows' \in Seq(Rows)
  BY LedgerStays
<1> QED
  BY <1>1, <1>2, <1>3 DEF TurnInv, Types

LEMMA RunBeginsKeeps ==
  ASSUME ConsoleAssumption, TurnInv, RunBegins
  PROVE  TurnInv'
<1> DEFINE e == [kind |-> "started", run |-> run + 1]
<1>1. run \in Nat /\ run + 1 \in Nat
  BY DEF TurnInv, Types
<1>2. e \in Events
  BY <1>1, MarkedEvents DEF Marked
<1>3. e.kind = "started" /\ e.run = run + 1
  OBVIOUS
<1>4. Emit(<<e>>) /\ run' = run + 1 /\ UNCHANGED <<turn, turnVars, asked, open, doing>>
  BY DEF RunBegins
<1>5. /\ unannounced \subseteq unannounced'
      /\ Len(feed) = FeedCap => run + 1 \in unannounced'
  BY DEF RunBegins
<1>6. Len(feed) \in Nat /\ Len(feed) <= FeedCap /\ FeedCap \in Nat
  BY DEF TurnInv, Types, ConsoleAssumption
<1>7. run + 1 \in unannounced' \/ Len(feed) < FeedCap
  BY <1>5, <1>6
<1>8. PICK new : new = <<e>>
  OBVIOUS
<1> HIDE DEF e
<1>9. /\ new \in Seq(Events) /\ Len(new) = 1 /\ new[1].kind = "started"
      /\ \A k \in 1..Len(new) : new[k].run = run + 1
      /\ Emit(new)
  BY <1>2, <1>3, <1>4, <1>8, OneEvent
<1>10. /\ feed' \in Seq(Events) /\ Len(feed') <= FeedCap
       /\ Ordered(feed, turn, run)'
       /\ Starts(feed, turn, run, unannounced)'
  BY <1>1, <1>4, <1>5, <1>7, <1>9, EmitKeeps
<1>11. LedgerOfTurn' /\ turn' \in Nat /\ turnToolStart' \in Nat /\ rows' \in Seq(Rows)
  BY <1>4, <1>5, LedgerStays
<1> QED
  BY <1>1, <1>4, <1>10, <1>11 DEF TurnInv, Types

LEMMA SaysOne ==
  ASSUME ConsoleAssumption, TurnInv, NEW e \in Events, e.run = run, Emit(<<e>>),
         UNCHANGED <<run, turnVars, turn, unannounced>>,
         asked' \in Nat, open' \in Seq(Tools), doing' # "idle" => open' # <<>>
  PROVE  TurnInv'
<1>1. <<e>> \in Seq(Events) /\ Len(<<e>>) = 1 /\ <<e>>[1] = e
  BY OneEvent
<1>2. \A k \in 1..Len(<<e>>) : <<e>>[k].run = run
  BY <1>1
<1> QED
  BY <1>1, <1>2, Says

LEMMA RuntimeKeeps ==
  ASSUME ConsoleAssumption, TurnInv,
         \/ RunBegins \/ Streams \/ AsksFor \/ GivesUp \/ RunFails \/ RunAnswers
         \/ \E t \in Checks \union Others : Announces(t)
         \/ Executes \/ Finishes \/ \E ok \in BOOLEAN : Reports(ok)
  PROVE  TurnInv'
<1>1. /\ run \in Nat /\ asked \in Nat /\ asked + 1 \in Nat /\ open \in Seq(Tools)
      /\ doing # "idle" => open # <<>>
  BY DEF TurnInv, Types
<1>2. \A kind \in Marked : Event(kind) \in Events /\ Event(kind).run = run
  BY <1>1, MarkedEvents DEF Event
<1>3. <<>> \in Seq(Tools)
  OBVIOUS
<1>4. CASE RunBegins
  BY <1>4, RunBeginsKeeps
<1>5. CASE Streams
  <2>1. PICK kind \in {"text", "context", "note"} : Emit(<<Event(kind)>>)
    BY <1>5 DEF Streams
  <2>2. UNCHANGED <<run, asked, open, doing, turnVars, turn, unannounced>>
    BY <1>5 DEF Streams, Rest, rtVars
  <2>3. Event(kind) \in Events /\ Event(kind).run = run
    BY <1>2 DEF Marked
  <2> QED
    BY <1>1, <2>1, <2>2, <2>3, SaysOne
<1>6. CASE AsksFor
  <2> DEFINE e == [kind |-> "approval", run |-> run, request |-> asked + 1]
  <2>1. /\ Emit(<<e>>) /\ asked' = asked + 1 /\ doing # "idle"
        /\ UNCHANGED <<run, open, turnVars, turn, unannounced>>
    BY <1>6 DEF AsksFor, Rest
  <2>2. e \in Events /\ e.run = run
    BY <1>1, ApprovalEvents
  <2> QED
    BY <1>1, <2>1, <2>2, SaysOne
<1>7. CASE GivesUp
  <2>1. UNCHANGED <<run, asked, open, doing, feed, turnVars, turn, unannounced>>
    BY <1>7 DEF GivesUp, Rest
  <2>2. LedgerOfTurn'
    BY <2>1, LedgerStays
  <2>3. UNCHANGED <<rows, turnToolStart>>
    BY <2>1 DEF turnVars
  <2> QED
    BY <2>1, <2>2, <2>3 DEF TurnInv, Types
<1>8. CASE RunAnswers
  <2>1. Emit(<<Event("done")>>) /\ open' = <<>> /\ open = <<>>
        /\ UNCHANGED <<run, asked, doing, turnVars, turn, unannounced>>
    BY <1>8 DEF RunAnswers, Ends, Rest
  <2>2. Event("done") \in Events /\ Event("done").run = run
    BY <1>2 DEF Marked
  <2> QED
    BY <1>1, <1>3, <2>1, <2>2, SaysOne
<1>9. CASE RunFails
  <2>1. Emit(<<Event("error"), Event("done")>>) /\ open' = <<>> /\ doing = "idle"
        /\ UNCHANGED <<run, asked, doing, turnVars, turn, unannounced>>
    BY <1>9 DEF RunFails, Ends, Rest
  <2>2. /\ Event("error") \in Events /\ Event("error").run = run
        /\ Event("done") \in Events /\ Event("done").run = run
    BY <1>2 DEF Marked
  <2> DEFINE new == <<Event("error"), Event("done")>>
  <2>3. new \in Seq(Events) /\ \A k \in 1..Len(new) : new[k].run = run
    BY <2>2
  <2> HIDE DEF new
  <2>4. Emit(new)
    BY <2>1 DEF new
  <2> QED
    BY <1>1, <1>3, <2>1, <2>3, <2>4, Says
<1>10. CASE \E t \in Checks \union Others : Announces(t)
  <2>1. PICK t \in Tools : Announces(t)
    BY <1>10 DEF Tools
  <2> DEFINE e == [kind |-> "toolStart", run |-> run, tool |-> t]
  <2>2. Emit(<<e>>) /\ open' = Append(open, t) /\ doing = "idle"
        /\ UNCHANGED <<run, asked, doing, turnVars, turn, unannounced>>
    BY <2>1 DEF Announces, Rest
  <2>3. e \in Events /\ e.run = run
    BY <1>1, RuntimeEvents
  <2>4. open' \in Seq(Tools)
    BY <1>1, <2>2
  <2> QED
    BY <1>1, <2>2, <2>3, <2>4, SaysOne
<1>11. CASE Executes
  <2> DEFINE e == [kind |-> "toolStart", run |-> run, tool |-> Head(open)]
  <2>1. /\ Emit(<<e>>) /\ open # <<>>
        /\ UNCHANGED <<run, asked, open, turnVars, turn, unannounced>>
    BY <1>11 DEF Executes, Rest
  <2>2. Head(open) \in Tools
    BY <1>1, <2>1
  <2>3. e \in Events /\ e.run = run
    BY <1>1, <2>2, RuntimeEvents
  <2> QED
    BY <1>1, <2>1, <2>3, SaysOne
<1>12. ASSUME NEW ok \in BOOLEAN, open # <<>>
       PROVE  Result(ok) \in Events /\ Result(ok).run = run
  <2>1. Head(open) \in Tools
    BY <1>1, <1>12
  <2> QED
    BY <1>1, <2>1, RuntimeEvents DEF Result
<1>13. CASE \E ok \in BOOLEAN : Reports(ok)
  <2>1. PICK ok \in BOOLEAN : Reports(ok)
    BY <1>13
  <2>2. /\ Emit(<<Result(ok)>>) /\ doing # "idle"
        /\ UNCHANGED <<run, asked, open, turnVars, turn, unannounced>>
    BY <2>1 DEF Reports, Rest
  <2> QED
    BY <1>1, <1>12, <2>2, SaysOne
<1>14. CASE Finishes
  <2>1. PICK ok \in BOOLEAN : ok = (doing = "done")
    OBVIOUS
  <2>2. /\ Emit(<<Result(ok)>>) /\ doing # "idle" /\ open' = Tail(open)
        /\ doing' # "idle" => open' # <<>>
        /\ UNCHANGED <<run, asked, turnVars, turn, unannounced>>
    BY <1>14, <2>1 DEF Finishes, Rest
  <2>3. open' \in Seq(Tools)
    BY <1>1, <2>2
  <2> QED
    BY <1>1, <1>12, <2>2, <2>3, SaysOne
<1> QED
  BY <1>4, <1>5, <1>6, <1>7, <1>8, <1>9, <1>10, <1>11, <1>13, <1>14

-----------------------------------------------------------------------------
(* The UI takes the first event.                                           *)
LEMMA TailOf ==
  ASSUME NEW s \in Seq(Events), s # <<>>
  PROVE  /\ Head(s) = s[1] /\ 1 \in 1..Len(s) /\ Tail(s) \in Seq(Events)
         /\ Len(Tail(s)) = Len(s) - 1
         /\ \A i \in 1..Len(Tail(s)) : i + 1 \in 1..Len(s) /\ Tail(s)[i] = s[i + 1]
OBVIOUS

LEMMA TakenOrdered ==
  ASSUME NEW s \in Seq(Events), s # <<>>, NEW t \in Nat, NEW r \in Nat, Ordered(s, t, r)
  PROVE  t <= Head(s).run /\ Head(s).run \in Nat /\ Ordered(Tail(s), Head(s).run, r)
<1>1. Len(s) \in Nat /\ \A i \in 1..Len(s) : s[i].run \in Nat
  BY EventsHaveRuns
<1>2. PICK rest : rest = Tail(s)
  OBVIOUS
<1>3. /\ Head(s) = s[1] /\ 1 \in 1..Len(s) /\ Len(rest) = Len(s) - 1
      /\ \A i \in 1..Len(rest) : i + 1 \in 1..Len(s) /\ rest[i] = s[i + 1]
  BY <1>2, TailOf
<1>4. t <= s[1].run /\ s[1].run <= r
  BY <1>3 DEF Ordered
<1>5. \A i \in 1..Len(rest) : s[1].run <= rest[i].run /\ rest[i].run <= r
  BY <1>1, <1>3 DEF Ordered
<1>6. \A i, j \in 1..Len(rest) : i <= j => rest[i].run <= rest[j].run
  <2> SUFFICES ASSUME NEW i \in 1..Len(rest), NEW j \in 1..Len(rest), i <= j
               PROVE  rest[i].run <= rest[j].run
    OBVIOUS
  <2>1. /\ i + 1 \in 1..Len(s) /\ j + 1 \in 1..Len(s) /\ i + 1 <= j + 1
        /\ rest[i] = s[i + 1] /\ rest[j] = s[j + 1]
    BY <1>1, <1>3
  <2> QED
    BY <2>1 DEF Ordered
<1> QED
  BY <1>1, <1>2, <1>3, <1>4, <1>5, <1>6 DEF Ordered

LEMMA TakenStarts ==
  ASSUME NEW s \in Seq(Events), s # <<>>, NEW t \in Nat, NEW r \in Nat, NEW lost,
         Ordered(s, t, r), Starts(s, t, r, lost)
  PROVE  /\ Starts(Tail(s), Head(s).run, r, lost)
         /\ t < Head(s).run /\ Head(s).run \notin lost => Head(s).kind = "started"
<1>1. Len(s) \in Nat /\ \A i \in 1..Len(s) : s[i].run \in Nat
  BY EventsHaveRuns
<1>2. PICK rest : rest = Tail(s)
  OBVIOUS
<1>3. /\ Head(s) = s[1] /\ 1 \in 1..Len(s) /\ Len(rest) = Len(s) - 1
      /\ \A i \in 1..Len(rest) : i + 1 \in 1..Len(s) /\ rest[i] = s[i + 1]
  BY <1>2, TailOf
<1>4. t <= s[1].run
  BY <1>3 DEF Ordered
<1>5. ASSUME NEW q \in Nat, s[1].run < q, NEW n \in Nat, BegunBy(s, q, n + 1)
      PROVE  BegunBy(rest, q, n)
  <2>1. PICK j \in 1..Len(s) : j <= n + 1 /\ Begins(s[j], q)
    BY <1>5 DEF BegunBy
  <2>2. j # 1
    BY <1>1, <1>3, <1>5, <2>1 DEF Begins
  <2>3. j - 1 \in 1..Len(rest) /\ j - 1 <= n /\ (j - 1) + 1 = j
    BY <1>1, <1>3, <2>1, <2>2
  <2>4. rest[j - 1] = s[j]
    BY <1>3, <2>3
  <2> QED
    BY <2>1, <2>3, <2>4 DEF BegunBy
<1>6. s[1].run < r /\ r \notin lost => BegunBy(rest, r, Len(rest))
  <2> SUFFICES ASSUME s[1].run < r, r \notin lost PROVE BegunBy(rest, r, Len(rest))
    OBVIOUS
  <2>1. t < r
    BY <1>1, <1>3, <1>4
  <2>2. BegunBy(s, r, Len(s))
    BY <2>1 DEF Starts
  <2>3. Len(rest) \in Nat /\ Len(rest) + 1 = Len(s)
    BY <1>1, <1>3
  <2> QED
    BY <1>5, <2>2, <2>3
<1>7. ASSUME NEW i \in 1..Len(rest), s[1].run < rest[i].run, rest[i].run \notin lost
      PROVE  BegunBy(rest, rest[i].run, i)
  <2>1. i + 1 \in 1..Len(s) /\ rest[i] = s[i + 1] /\ i \in Nat
    BY <1>1, <1>3
  <2>2. s[i + 1].run \in Nat /\ t < s[i + 1].run
    BY <1>1, <1>3, <1>4, <1>7, <2>1
  <2>3. BegunBy(s, s[i + 1].run, i + 1)
    BY <1>7, <2>1, <2>2 DEF Starts
  <2> QED
    BY <1>5, <1>7, <2>1, <2>2, <2>3
<1>8. t < s[1].run /\ s[1].run \notin lost => s[1].kind = "started"
  <2> SUFFICES ASSUME t < s[1].run, s[1].run \notin lost PROVE s[1].kind = "started"
    OBVIOUS
  <2>1. BegunBy(s, s[1].run, 1)
    BY <1>3 DEF Starts
  <2>2. PICK j \in 1..Len(s) : j <= 1 /\ Begins(s[j], s[1].run)
    BY <2>1 DEF BegunBy
  <2>3. j = 1
    BY <1>1, <2>2
  <2> QED
    BY <2>2, <2>3 DEF Begins
<1> QED
  BY <1>2, <1>3, <1>6, <1>7, <1>8 DEF Starts

(* What becomes of the rows.                                               *)
RowsOf(t) == \A i \in 1..Len(rows) : i > turnToolStart =>
               (rows[i].status = "done" => rows[i].by = t)

LEMMA LedgerRows == TurnInv => (LedgerOfTurn <=> (turn \notin unannounced =>
                                                   answer \subseteq {turn} /\ RowsOf(turn)))
<1> SUFFICES ASSUME TurnInv PROVE DOMAIN rows = 1..Len(rows)
  BY DEF LedgerOfTurn, RowsOf, TurnRows
<1> QED
  BY DEF TurnInv, Types

LEMMA RowAdded ==
  ASSUME NEW s \in Seq(Rows), NEW row \in Rows
  PROVE  /\ Append(s, row) \in Seq(Rows) /\ Len(Append(s, row)) = Len(s) + 1
         /\ \A i \in 1..Len(s) : Append(s, row)[i] = s[i]
         /\ Append(s, row)[Len(s) + 1] = row
OBVIOUS

LEMMA RowReplaced ==
  ASSUME NEW s \in Seq(Rows), NEW row \in Rows, NEW k \in DOMAIN s
  PROVE  /\ [s EXCEPT ![k] = row] \in Seq(Rows) /\ Len([s EXCEPT ![k] = row]) = Len(s)
         /\ \A i \in 1..Len(s) : [s EXCEPT ![k] = row][i] = IF i = k THEN row ELSE s[i]
OBVIOUS

(* Each row of the new list is one of the old, one that still runs, or one *)
(* of the event's run.                                                     *)
RowsChange(s, t) ==
  /\ rows' \in Seq(Rows) /\ Len(s) <= Len(rows')
  /\ \A i \in 1..Len(rows') :
       \/ i \in 1..Len(s) /\ rows'[i] = s[i]
       \/ rows'[i].status = "running"
       \/ rows'[i].by = t

LEMMA ToolRows ==
  ASSUME TurnInv, NEW e \in Events, e.kind \in {"toolStart", "toolResult"}, ToolEvent(e)
  PROVE  RowsChange(rows, e.run)
<1>1. rows \in Seq(Rows) /\ Len(rows) \in Nat /\ DOMAIN rows = 1..Len(rows)
  BY DEF TurnInv, Types
<1>2. CASE e.kind = "toolStart"
  <2> DEFINE row == [tool |-> e.tool, status |-> "running", by |-> 0]
  <2>1. e.tool \in Tools
    BY <1>2 DEF Events, Marked
  <2>2. row \in Rows /\ row.status = "running"
    BY <2>1 DEF Rows
  <2>3. rows' = rows \/ rows' = Append(rows, row)
    BY <1>2 DEF ToolEvent
  <2> HIDE DEF row
  <2>4. CASE rows' = rows
    BY <1>1, <2>4 DEF RowsChange
  <2>5. CASE rows' = Append(rows, row)
    <3>1. PICK new : new = Append(rows, row)
      OBVIOUS
    <3>2. /\ new \in Seq(Rows) /\ Len(new) = Len(rows) + 1
          /\ \A i \in 1..Len(rows) : new[i] = rows[i]
          /\ new[Len(rows) + 1] = row
      BY <1>1, <2>2, <3>1, RowAdded
    <3>3. \A i \in 1..Len(new) : i \in 1..Len(rows) \/ i = Len(rows) + 1
      BY <1>1, <3>2
    <3> QED
      BY <1>1, <2>2, <2>5, <3>1, <3>2, <3>3 DEF RowsChange
  <2> QED
    BY <2>3, <2>4, <2>5
<1>3. CASE e.kind = "toolResult"
  <2>1. e.tool \in Tools /\ e.run \in Nat
    BY <1>3 DEF Events, Marked
  <2>2. Finished(e) \in Rows /\ Finished(e).by = e.run
    BY <2>1 DEF Finished, Rows
  <2>3. rows' = FinishTool(e)
    BY <1>3 DEF ToolEvent
  <2>4. CASE RunningRows(e.tool) = {}
    <3>1. PICK new : new = Append(rows, Finished(e))
      OBVIOUS
    <3>2. /\ new \in Seq(Rows) /\ Len(new) = Len(rows) + 1
          /\ \A i \in 1..Len(rows) : new[i] = rows[i]
          /\ new[Len(rows) + 1] = Finished(e)
      BY <1>1, <2>2, <3>1, RowAdded
    <3>3. \A i \in 1..Len(new) : i \in 1..Len(rows) \/ i = Len(rows) + 1
      BY <1>1, <3>2
    <3>4. rows' = new
      BY <2>3, <2>4, <3>1 DEF FinishTool
    <3> QED
      BY <1>1, <2>2, <3>2, <3>3, <3>4 DEF RowsChange
  <2>5. CASE RunningRows(e.tool) # {}
    <3> DEFINE k == CHOOSE k \in RunningRows(e.tool) : \A j \in RunningRows(e.tool) : j <= k
    <3>1. rows' = [rows EXCEPT ![k] = Finished(e)]
      BY <2>3, <2>5 DEF FinishTool
    <3> HIDE DEF k
    <3>2. CASE k \in DOMAIN rows
      <4>1. PICK new : new = [rows EXCEPT ![k] = Finished(e)]
        OBVIOUS
      <4>2. /\ new \in Seq(Rows) /\ Len(new) = Len(rows)
            /\ \A i \in 1..Len(rows) : new[i] = IF i = k THEN Finished(e) ELSE rows[i]
        BY <1>1, <2>2, <3>2, <4>1, RowReplaced
      <4>3. rows' = new
        BY <3>1, <4>1
      <4> QED
        BY <1>1, <2>2, <4>2, <4>3 DEF RowsChange
    <3>3. CASE k \notin DOMAIN rows
      <4>1. rows' = rows
        BY <1>1, <3>1, <3>3
      <4> QED
        BY <1>1, <4>1 DEF RowsChange
    <3> QED
      BY <3>2, <3>3
  <2> QED
    BY <2>4, <2>5
<1> QED
  BY <1>2, <1>3

LEMMA ToolsOfTurn ==
  ASSUME TurnInv, NEW e \in Events, e.run = turn, RowsOf(turn), RowsChange(rows, e.run),
         UNCHANGED <<turn, turnToolStart>>
  PROVE  RowsOf(turn)'
<1> SUFFICES ASSUME NEW i \in 1..Len(rows'), i > turnToolStart, rows'[i].status = "done"
             PROVE  rows'[i].by = turn
  BY DEF RowsOf
<1> QED
  BY DEF RowsOf, RowsChange

LEMMA ApplyKeeps ==
  ASSUME ConsoleAssumption, TurnInv, ApplyEvent
  PROVE  TurnInv'
<1>1. PICK e : e = Head(feed)
  OBVIOUS
<1>2. /\ feed # <<>> /\ feed' = Tail(feed) /\ turn' = e.run
      /\ UNCHANGED <<run, asked, open, doing, unannounced>>
  BY <1>1 DEF ApplyEvent, rtVars
<1>3. /\ feed \in Seq(Events) /\ turn \in Nat /\ run \in Nat /\ Len(feed) \in Nat
      /\ Ordered(feed, turn, run) /\ Starts(feed, turn, run, unannounced)
      /\ rows \in Seq(Rows) /\ turnToolStart \in Nat /\ Len(rows) \in Nat
  BY DEF TurnInv, Types
<1>4. e \in Events
  BY <1>1, <1>2, <1>3, TailOf, EventsHaveRuns
<1>5. feed' \in Seq(Events) /\ Len(feed') = Len(feed) - 1
  BY <1>2, <1>3, TailOf
<1>6. turn <= e.run /\ e.run \in Nat /\ Ordered(feed, turn, run)'
  BY <1>1, <1>2, <1>3, TakenOrdered
<1>7. /\ Starts(feed, turn, run, unannounced)'
      /\ turn < e.run /\ e.run \notin unannounced => e.kind = "started"
  BY <1>1, <1>2, <1>3, TakenStarts
<1>8. \/ e.kind = "started" /\ AgentStarted
      \/ e.kind = "text" /\ MessageDelta(e)
      \/ e.kind \in {"toolStart", "toolResult"} /\ ToolEvent(e)
      \/ e.kind = "approval" /\ ApprovalNeeded(e)
      \/ e.kind \in {"error", "done"} /\ RunEvent(e)
      \/ e.kind \in {"context", "note"} /\ OtherUpdate(e)
  BY <1>1 DEF ApplyEvent
<1> DEFINE Typed == rows' \in Seq(Rows) /\ turnToolStart' \in Nat
           Told == e.run \notin unannounced => answer' \subseteq {e.run} /\ RowsOf(turn)'
<1>9. ASSUME e.kind = "started" /\ AgentStarted
      PROVE  Typed /\ Told
  <2>1. turnToolStart' = Len(rows) /\ answer' = {} /\ rows' = rows
    BY <1>9 DEF AgentStarted
  <2>2. RowsOf(turn)'
    BY <1>3, <2>1 DEF RowsOf
  <2> QED
    BY <1>3, <2>1, <2>2
<1>10. ASSUME e.kind # "started", e.run \notin unannounced
       PROVE  e.run = turn /\ answer \subseteq {turn} /\ RowsOf(turn) /\ turn' = turn
  <2>1. e.run = turn
    BY <1>3, <1>6, <1>7, <1>10
  <2> QED
    BY <1>2, <1>10, <2>1, LedgerRows DEF TurnInv
<1>11. ASSUME e.kind \in {"toolStart", "toolResult"} /\ ToolEvent(e)
       PROVE  Typed /\ Told
  <2>1. RowsChange(rows, e.run) /\ UNCHANGED <<turnToolStart, answer>>
    BY <1>4, <1>11, ToolRows DEF ToolEvent
  <2>2. rows' \in Seq(Rows)
    BY <2>1 DEF RowsChange
  <2>3. Told
    BY <1>4, <1>10, <1>11, <2>1, ToolsOfTurn
  <2> QED
    BY <1>3, <2>1, <2>2, <2>3
<1>12. ASSUME e.kind = "text" /\ MessageDelta(e)
       PROVE  Typed /\ Told
  <2>1. /\ answer' \subseteq answer \union {e.run} /\ UNCHANGED <<rows, turnToolStart>>
    BY <1>12 DEF MessageDelta
  <2>2. turn' = turn => (RowsOf(turn) <=> RowsOf(turn)')
    BY <2>1 DEF RowsOf
  <2> QED
    BY <1>3, <1>10, <1>12, <2>1, <2>2
<1>13. ASSUME \/ e.kind = "approval" /\ ApprovalNeeded(e)
              \/ e.kind \in {"error", "done"} /\ RunEvent(e)
              \/ e.kind \in {"context", "note"} /\ OtherUpdate(e)
       PROVE  Typed /\ Told
  <2>1. UNCHANGED <<rows, turnToolStart, answer>> /\ e.kind # "started"
    BY <1>13 DEF ApprovalNeeded, RunEvent, OtherUpdate, turnVars
  <2>2. turn' = turn => (RowsOf(turn) <=> RowsOf(turn)')
    BY <2>1 DEF RowsOf
  <2> QED
    BY <1>3, <1>10, <2>1, <2>2
<1>14. Typed /\ Told
  BY <1>8, <1>9, <1>11, <1>12, <1>13
<1>15. Types'
  <2>1. Len(feed') <= FeedCap
    BY <1>3, <1>5 DEF ConsoleAssumption, TurnInv, Types
  <2> QED
    BY <1>2, <1>5, <1>6, <1>14, <2>1 DEF TurnInv, Types
<1>16. LedgerOfTurn'
  <2>1. DOMAIN rows' = 1..Len(rows')
    BY <1>14
  <2> QED
    BY <1>2, <1>14, <2>1 DEF LedgerOfTurn, RowsOf, TurnRows
<1> QED
  BY <1>6, <1>7, <1>15, <1>16 DEF TurnInv

-----------------------------------------------------------------------------
(* No key touches the buffer, the ledger or the ghosts.                    *)
LEMMA KeysKeep ==
  ASSUME TurnInv, UNCHANGED <<World, rows, turnToolStart, answer>>
  PROVE  TurnInv'
<1>1. UNCHANGED <<run, open, doing, asked, feed, turn, unannounced, rows, turnToolStart, answer>>
  BY DEF World
<1>2. TurnRows' = TurnRows
  BY <1>1 DEF TurnRows
<1> QED
  BY <1>1, <1>2 DEF TurnInv, Types, LedgerOfTurn

LEMMA KeysLeaveTurns ==
  ASSUME \/ HelpKey \/ CloseOverlay \/ Edit \/ BeginPrompt \/ ClearChat \/ Interrupt
         \/ CancelPrompt \/ Command \/ Submit
         \/ SubmitApproval \/ CancelApproval \/ AutoDeny
  PROVE  UNCHANGED <<World, rows, turnToolStart, answer>>
BY DEF HelpKey, CloseOverlay, Edit, BeginPrompt, ClearChat, Interrupt, CancelPrompt, Command,
       Submit, SubmitApproval, CancelApproval, AutoDeny, FinishApproval, turnVars

LEMMA TurnInit == ConsoleAssumption /\ CInit => TurnInv
<1> SUFFICES ASSUME ConsoleAssumption, CInit PROVE TurnInv
  OBVIOUS
<1>1. Types
  BY DEF CInit, ConsoleAssumption, Types
<1>2. feed = <<>> /\ Len(feed) = 0 /\ run = 0 /\ turn = 0 /\ rows = <<>> /\ answer = {}
  BY DEF CInit
<1>3. Ordered(feed, turn, run) /\ Starts(feed, turn, run, unannounced)
  BY <1>2 DEF Ordered, Starts
<1>4. LedgerOfTurn
  BY <1>2 DEF LedgerOfTurn, TurnRows
<1> QED
  BY <1>1, <1>3, <1>4 DEF TurnInv

LEMMA TurnStep == ConsoleAssumption /\ TurnInv /\ [CNext]_cvars => TurnInv'
<1> SUFFICES ASSUME ConsoleAssumption, TurnInv, [CNext]_cvars PROVE TurnInv'
  OBVIOUS
<1>1. CASE \/ RunBegins \/ Streams \/ AsksFor \/ GivesUp \/ RunFails \/ RunAnswers
           \/ \E t \in Checks \union Others : Announces(t)
           \/ Executes \/ Finishes \/ \E ok \in BOOLEAN : Reports(ok)
  BY <1>1, RuntimeKeeps
<1>2. CASE ApplyEvent
  BY <1>2, ApplyKeeps
<1>3. CASE \/ HelpKey \/ CloseOverlay \/ Edit \/ BeginPrompt \/ ClearChat \/ Interrupt
           \/ CancelPrompt \/ Command \/ Submit
           \/ SubmitApproval \/ CancelApproval \/ AutoDeny
  BY <1>3, KeysLeaveTurns, KeysKeep
<1>4. CASE UNCHANGED cvars
  BY <1>4, KeysKeep DEF cvars, rtVars, World, turnVars
<1> QED
  BY <1>1, <1>2, <1>3, <1>4 DEF CNext

(* VerifiedThisTurn (Console): what the ledger shows as verified was       *)
(* claimed, and is backed by a check that succeeded, in the run whose      *)
(* events the UI is taking, for any numbers of runs and calls, any room in *)
(* the buffer, and whatever it drops but that run's AgentStarted.          *)
THEOREM EvidenceIsOfThisTurn == CSpec => []VerifiedThisTurn
<1>1. TurnInv => VerifiedThisTurn
  <2> SUFFICES ASSUME TurnInv, Verified, turn \notin unannounced
               PROVE  /\ answer = {turn}
                      /\ \E i \in TurnRows : /\ rows[i].tool \in Checks
                                             /\ rows[i].status = "done"
                                             /\ rows[i].by = turn
    BY DEF VerifiedThisTurn
  <2>1. answer \subseteq {turn}
        /\ \A i \in TurnRows : rows[i].status = "done" => rows[i].by = turn
    BY DEF TurnInv, LedgerOfTurn
  <2> QED
    BY <2>1 DEF Verified
<1> QED
  BY <1>1, ConsoleAssumption, TurnInit, TurnStep, PTL DEF CSpec
=============================================================================
