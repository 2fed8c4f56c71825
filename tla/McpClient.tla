------------------------------- MODULE McpClient -------------------------------
(***************************************************************************)
(* The JSON-RPC client of internal/mcp.  Any number of goroutines call it; *)
(* a table maps the id of each request to the one-place channel its caller *)
(* waits on.  The read loop takes an entry out of the table under the      *)
(* mutex and sends to its channel after letting go of it; failAll, run by  *)
(* the read loop at the end of the input or by Close, takes all of them;   *)
(* a caller whose write fails or whose context is done takes its own.      *)
(* Writes are serialised by a second mutex, under which nobody looks at a  *)
(* context.  The server answers what it likes, in any order, or not.       *)
(***************************************************************************)
EXTENDS Integers, Sequences, FiniteSets, Functions

CONSTANTS
  Calls,     \* calls made through the client, each by a goroutine of its own
  Notices,   \* those that are notifications: no id, no answer
  ServerIds, \* ids the server's messages carry
  MaxLines,  \* bound: messages the server sends
  Empty,     \* a channel with nothing in it
  Broken     \* the error failAll sends

ASSUME McpAssumption ==
  /\ Notices \subseteq Calls
  /\ ServerIds \subseteq Nat \ {0}
  /\ MaxLines \in Nat
  /\ Empty # Broken /\ Empty \notin ServerIds /\ Broken \notin ServerIds

VARIABLES
  pc,        \* where each call is
  idOf,      \* its request id, 0 when it has none
  box,       \* its channel: Empty, Broken, or the id an answer in it carries
  result,    \* how it returned
  got,       \* what it received
  nextID, pending, closed, doneCloses,
  writer,    \* the calls between Lock and Unlock of writeMu
  reader, hand, lines,  \* the read loop, the entry it has taken from the table
  closer,           \* the goroutine in Close
  failing,   \* channels each failAll has still to send to
  down       \* the transport is torn down

callVars == <<pc, idOf, box, result, got>>
tableVars == <<nextID, pending, closed, doneCloses>>
readVars == <<reader, hand, lines>>
closeVars == <<closer, failing, down>>
mvars == <<callVars, tableVars, writer, readVars, closeVars>>

Failers == {"reader", "closer"}
Without(i) == [j \in DOMAIN pending \ {i} |-> pending[j]]

MInit ==
  /\ pc = [c \in Calls |-> "new"] /\ idOf = [c \in Calls |-> 0]
  /\ box = [c \in Calls |-> Empty]
  /\ result = [c \in Calls |-> "none"] /\ got = [c \in Calls |-> Empty]
  /\ nextID = 0 /\ pending = [i \in {} |-> i] /\ closed = FALSE /\ doneCloses = 0
  /\ writer = {} /\ lines = 0 /\ reader = "scan" /\ hand = [i \in {} |-> i]
  /\ closer = "none" /\ failing = [f \in Failers |-> {}] /\ down = FALSE

-----------------------------------------------------------------------------
(* call, under mu: refused once closed, else a fresh id and channel.       *)
LateRegister(c) ==   \* mutant: does not look whether the client is closed
  /\ pc[c] = "new" /\ c \notin Notices
  /\ nextID' = nextID + 1
  /\ idOf' = [idOf EXCEPT ![c] = nextID + 1]
  /\ pending' = [j \in DOMAIN pending \union {nextID + 1} |->
                   IF j = nextID + 1 THEN c ELSE pending[j]]
  /\ pc' = [pc EXCEPT ![c] = "locking"]
  /\ UNCHANGED <<box, result, got, closed, doneCloses, writer, readVars, closeVars>>
FaultyRegister(c) ==   \* mutant: ids come from the size of the table
  /\ pc[c] = "new" /\ c \notin Notices /\ ~closed
  /\ LET i == Cardinality(DOMAIN pending) + 1
     IN /\ idOf' = [idOf EXCEPT ![c] = i]
        /\ pending' = [j \in DOMAIN pending \union {i} |-> IF j = i THEN c ELSE pending[j]]
  /\ pc' = [pc EXCEPT ![c] = "locking"]
  /\ UNCHANGED <<nextID, box, result, got, closed, doneCloses, writer, readVars, closeVars>>
Register(c) ==
  /\ pc[c] = "new" /\ c \notin Notices /\ ~closed
  /\ nextID' = nextID + 1
  /\ idOf' = [idOf EXCEPT ![c] = nextID + 1]
  /\ pending' = [j \in DOMAIN pending \union {nextID + 1} |->
                   IF j = nextID + 1 THEN c ELSE pending[j]]
  /\ pc' = [pc EXCEPT ![c] = "locking"]
  /\ UNCHANGED <<box, result, got, closed, doneCloses, writer, readVars, closeVars>>

Refused(c) ==
  /\ pc[c] = "new" /\ c \notin Notices /\ closed
  /\ pc' = [pc EXCEPT ![c] = "returned"] /\ result' = [result EXCEPT ![c] = "refused"]
  /\ UNCHANGED <<idOf, box, got, tableVars, writer, readVars, closeVars>>

(* notify goes straight to write.                                          *)
Notify(c) ==
  /\ pc[c] = "new" /\ c \in Notices
  /\ pc' = [pc EXCEPT ![c] = "locking"]
  /\ UNCHANGED <<idOf, box, result, got, tableVars, writer, readVars, closeVars>>

(* write: writeMu, then a Write that takes as long as the server lets it.  *)
LockWrite(c) ==
  /\ pc[c] = "locking" /\ writer = {}
  /\ writer' = writer \union {c} /\ pc' = [pc EXCEPT ![c] = "writing"]
  /\ UNCHANGED <<idOf, box, result, got, tableVars, readVars, closeVars>>

Written(c) ==
  /\ pc[c] = "writing" /\ ~down
  /\ writer' = writer \ {c}
  /\ IF c \in Notices
     THEN pc' = [pc EXCEPT ![c] = "returned"] /\ result' = [result EXCEPT ![c] = "sent"]
     ELSE pc' = [pc EXCEPT ![c] = "waiting"] /\ UNCHANGED result
  /\ UNCHANGED <<idOf, box, got, tableVars, readVars, closeVars>>

(* The server is gone, or Close has closed its input.                      *)
WriteFails(c) ==
  /\ pc[c] = "writing"
  /\ writer' = writer \ {c}
  /\ pc' = [pc EXCEPT ![c] = IF c \in Notices THEN "returned" ELSE "unregister"]
  /\ result' = [result EXCEPT ![c] = "write error"]
  /\ UNCHANGED <<idOf, box, got, tableVars, readVars, closeVars>>

(* The select, which takes either branch that is ready; nothing but this   *)
(* looks at the context, which may be done at any time.                    *)
Receive(c) ==
  /\ pc[c] = "waiting" /\ box[c] # Empty
  /\ box' = [box EXCEPT ![c] = Empty]
  /\ got' = [got EXCEPT ![c] = box[c]]
  /\ result' = [result EXCEPT ![c] = IF box[c] = Broken THEN "connection closed" ELSE "answer"]
  /\ pc' = [pc EXCEPT ![c] = "returned"]
  /\ UNCHANGED <<idOf, tableVars, writer, readVars, closeVars>>

Cancelled(c) ==
  /\ pc[c] = "waiting"
  /\ pc' = [pc EXCEPT ![c] = "unregister"] /\ result' = [result EXCEPT ![c] = "cancelled"]
  /\ UNCHANGED <<idOf, box, got, tableVars, writer, readVars, closeVars>>

FaultyUnregister(c) ==   \* mutant: returns without cleaning up
  /\ pc[c] = "unregister"
  /\ pc' = [pc EXCEPT ![c] = "returned"]
  /\ UNCHANGED <<idOf, box, result, got, tableVars, writer, readVars, closeVars>>
Unregister(c) ==
  /\ pc[c] = "unregister"
  /\ pending' = Without(idOf[c])
  /\ pc' = [pc EXCEPT ![c] = "returned"]
  /\ UNCHANGED <<idOf, box, result, got, nextID, closed, doneCloses>>
  /\ UNCHANGED <<writer, readVars, closeVars>>

-----------------------------------------------------------------------------
FaultyReadLine(i) ==   \* mutant: leaves the entry in the table
  /\ reader = "scan" /\ lines < MaxLines
  /\ lines' = lines + 1
  /\ IF i \in DOMAIN pending
     THEN hand' = [j \in {i} |-> pending[j]] /\ reader' = "deliver"
     ELSE UNCHANGED <<hand, reader>>
  /\ UNCHANGED <<callVars, tableVars, writer, closeVars>>
(* readLoop on a message with some id, which may answer a request, a       *)
(* request that is over, or nothing: the entry leaves the table under mu,  *)
ReadLine(i) ==
  /\ reader = "scan" /\ lines < MaxLines
  /\ lines' = lines + 1
  /\ IF i \in DOMAIN pending
     THEN /\ hand' = [j \in {i} |-> pending[j]]
          /\ pending' = Without(i)
          /\ reader' = "deliver"
     ELSE UNCHANGED <<hand, pending, reader>>
  /\ UNCHANGED <<callVars, nextID, closed, doneCloses, writer, closeVars>>

(* and the message is sent outside it.                                     *)
Deliver ==
  /\ \E i \in DOMAIN hand :
       /\ box[hand[i]] = Empty
       /\ box' = [box EXCEPT ![hand[i]] = i]
  /\ hand' = [i \in {} |-> i] /\ reader' = "scan"
  /\ UNCHANGED <<pc, idOf, result, got, tableVars, lines, writer, closeVars>>

(* The end of the input, or a line that is too long, at any time.          *)
ReadEnds ==
  /\ reader = "scan"
  /\ reader' = "fail"
  /\ UNCHANGED <<callVars, tableVars, lines, hand, writer, closeVars>>

-----------------------------------------------------------------------------
(* failAll.  f is at "fail" before it, at "failing" while it sends, and at *)
(* "failed" after it.                                                      *)
At(f, place) == IF f = "reader" THEN reader = place ELSE closer = place
Goes(f, place) ==
  IF f = "reader" THEN reader' = place /\ UNCHANGED closer
                  ELSE closer' = place /\ UNCHANGED reader

FaultyFailAll(f) ==   \* mutant: does not look whether the client is closed
  /\ At(f, "fail") /\ Goes(f, "failing")
  /\ closed' = TRUE
  /\ failing' = [failing EXCEPT ![f] = Range(pending)]
  /\ pending' = [i \in {} |-> i]
  /\ UNCHANGED <<callVars, nextID, doneCloses, lines, hand, writer, down>>
FailAll(f) ==
  /\ At(f, "fail")
  /\ IF closed
     THEN Goes(f, "failed") /\ UNCHANGED <<closed, failing, pending>>
     ELSE /\ Goes(f, "failing")
          /\ closed' = TRUE
          /\ failing' = [failing EXCEPT ![f] = Range(pending)]
          /\ pending' = [i \in {} |-> i]
  /\ UNCHANGED <<callVars, nextID, doneCloses, lines, hand, writer, down>>

FailOne(f, c) ==
  /\ At(f, "failing") /\ c \in failing[f] /\ box[c] = Empty
  /\ box' = [box EXCEPT ![c] = Broken]
  /\ failing' = [failing EXCEPT ![f] = @ \ {c}]
  /\ UNCHANGED <<pc, idOf, result, got, tableVars, readVars, closer, writer, down>>

Failed(f) ==
  /\ At(f, "failing") /\ failing[f] = {}
  /\ Goes(f, "failed")
  /\ doneCloses' = doneCloses + 1
  /\ UNCHANGED <<callVars, nextID, pending, closed, lines, hand, writer, failing, down>>

(* Close: closed is read under mu, and read again by failAll; then stdin   *)
(* is closed, the process killed and waited for.                           *)
Close ==
  /\ closer = "none"
  /\ closer' = IF closed THEN "failed" ELSE "fail"
  /\ UNCHANGED <<callVars, tableVars, readVars, writer, failing, down>>

FaultyTearDown ==   \* mutant: leaves the transport alone
  /\ closer = "failed"
  /\ closer' = "returned"
  /\ UNCHANGED <<callVars, tableVars, readVars, writer, failing, down>>
TearDown ==
  /\ closer = "failed"
  /\ down' = TRUE /\ closer' = "returned"
  /\ UNCHANGED <<callVars, tableVars, readVars, writer, failing>>

-----------------------------------------------------------------------------
CallStep(c) ==
  \/ Refused(c) \/ Register(c) \/ Notify(c) \/ LockWrite(c)
  \/ Written(c) \/ WriteFails(c) \/ Receive(c) \/ Cancelled(c) \/ Unregister(c)

FailStep(f) == FailAll(f) \/ Failed(f) \/ \E c \in Calls : FailOne(f, c)

MNext ==
  \/ \E c \in Calls : CallStep(c)
  \/ \E i \in ServerIds : ReadLine(i)
  \/ Deliver \/ ReadEnds
  \/ \E f \in Failers : FailStep(f)
  \/ Close \/ TearDown

MSpec == MInit /\ [][MNext]_mvars

(* What a caller does without the server: a Write owes nothing until the   *)
(* transport is down, a call need not be made, a context need not end.     *)
Own(c) ==
  LockWrite(c) \/ Receive(c) \/ Unregister(c) \/ (down /\ WriteFails(c))

FairMSpec ==
  /\ MSpec
  /\ \A c \in Calls : WF_mvars(Own(c))
  /\ WF_mvars(Deliver \/ (down /\ ReadEnds))
  /\ \A f \in Failers : WF_mvars(FailStep(f))
  /\ WF_mvars(TearDown)

-----------------------------------------------------------------------------
CallsTyped ==
  /\ pc \in [Calls -> {"new", "locking", "writing", "waiting", "unregister", "returned"}]
  /\ idOf \in [Calls -> Nat]
  /\ box \in [Calls -> ServerIds \union {Empty, Broken}]
  /\ result \in [Calls -> {"none", "refused", "sent", "write error", "cancelled",
                          "connection closed", "answer"}]
  /\ got \in [Calls -> ServerIds \union {Empty, Broken}]

TableTyped ==
  /\ nextID \in Nat
  /\ DOMAIN pending \subseteq 1..nextID /\ pending \in [DOMAIN pending -> Calls]
  /\ closed \in BOOLEAN /\ doneCloses \in Nat

(* The write lock lets one call write at a time.                           *)
WriterTyped ==
  /\ writer \subseteq Calls
  /\ \A c \in Calls : c \in writer <=> pc[c] = "writing"
  /\ \A c, d \in writer : c = d

LoopTyped ==
  /\ reader \in {"scan", "deliver", "fail", "failing", "failed"}
  /\ DOMAIN hand \subseteq ServerIds /\ hand \in [DOMAIN hand -> Calls]
  /\ \A i, j \in DOMAIN hand : i = j
  /\ reader = "deliver" <=> \E i \in ServerIds : i \in DOMAIN hand
  /\ lines \in Nat /\ lines <= MaxLines

CloseTyped ==
  /\ closer \in {"none", "fail", "failing", "failed", "returned"}
  /\ failing \in [Failers -> SUBSET Calls]
  /\ down \in BOOLEAN

MTypeOK == CallsTyped /\ TableTyped /\ WriterTyped /\ LoopTyped /\ CloseTyped

(* The answer a call returns carries its own id, which no other call has   *)
(* or had: a late answer to a cancelled call is never another's (the demux *)
(* of readLoop, TestConcurrentCalls: "id demux bug").                      *)
AnswersMatch ==
  \A c \in Calls : result[c] = "answer" => \A d \in Calls : idOf[d] = got[c] <=> d = c

(* Where the one message of a call may come from: the table, the hands of  *)
(* the read loop, one of the failAlls, or its channel.                     *)
Places == {"table", "hand", "reader", "closer", "box"}
Holds(c, place) ==
  CASE place = "table" -> \E i \in DOMAIN pending : pending[i] = c
    [] place = "hand" -> \E i \in DOMAIN hand : hand[i] = c
    [] place = "box" -> box[c] # Empty
    [] OTHER -> c \in failing[place]

(* A call that waits, or is going to, has exactly one message coming, and  *)
(* no call ever has two: nobody waits for an answer that was lost between  *)
(* the table and the channel, and neither the read loop nor Close ever     *)
(* blocks on a full channel.                                               *)
MessageOnItsWay ==
  \A c \in Calls :
    /\ pc[c] \in {"locking", "writing", "waiting"} /\ c \notin Notices =>
         \E p \in Places : Holds(c, p)
    /\ \A p, q \in Places : Holds(c, p) /\ Holds(c, q) => p = q

(* However a call returns, its entry is gone from the table.               *)
TableIsLive ==
  \A i \in DOMAIN pending :
    idOf[pending[i]] = i /\ pc[pending[i]] \in {"locking", "writing", "waiting", "unregister"}

(* Close and the end of the input race for failAll: the channel done is    *)
(* closed at most once, a second close would panic.                        *)
DoneClosedOnce == doneCloses <= 1

(* After Close every call returns, also one that the server keeps in its   *)
(* Write and those that wait for the write lock behind it (client_test.go, *)
(* TestClosePendingFails: "fail in-flight/next calls, not hang").          *)
CloseReleasesCalls ==
  \A c \in Calls : (closer # "none" /\ pc[c] # "new") ~> pc[c] = "returned"

(* The client implements RemoteCalls: an entry that leaves the table       *)
(* decides its call, for an answer in the hands of the read loop as for    *)
(* one in the channel, and failAll decides all at once, although it tells  *)
(* the callers one by one while the read loop delivers and callers leave.  *)
(* So no call is answered after the end broke another, none begins after   *)
(* it, and no caller is told of an end that its answer came before.        *)
Answered(c) ==
  (\E i \in DOMAIN hand : hand[i] = c) \/ box[c] \in ServerIds \/ got[c] \in ServerIds
BrokenOff(c) == (\E f \in Failers : c \in failing[f]) \/ box[c] = Broken \/ got[c] = Broken

StageOf(c) ==
  IF pc[c] = "returned" THEN "over" ELSE IF pc[c] = "new" \/ c \in Notices THEN "new" ELSE "open"
FateOf(c) ==
  IF Answered(c) THEN "answered" ELSE IF BrokenOff(c) THEN "broken" ELSE "undecided"
OutcomeOf(c) == IF pc[c] = "returned" THEN result[c] ELSE "none"

Rpc == INSTANCE RemoteCalls WITH
  stage <- [c \in Calls |-> StageOf(c)], fate <- [c \in Calls |-> FateOf(c)],
  outcome <- [c \in Calls |-> OutcomeOf(c)], shut <- closed
ImplementsRemoteCalls == Rpc!RpcSpec
=============================================================================
