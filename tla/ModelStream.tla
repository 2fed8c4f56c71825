------------------------------ MODULE ModelStream ------------------------------
(***************************************************************************)
(* One ChatStream of internal/provider/mimo: the goroutine that sends the  *)
(* request, retries it, falls back to a request without web_search, reads  *)
(* the server-sent events and passes ModelEvents to its caller through a   *)
(* channel.  Every send is a select between the channel and the step       *)
(* context, so that once the context is done an event may be lost, and no  *)
(* send looks at which of the two happened.                                *)
(*                                                                         *)
(* The caller owns the context and reads the channel (AgentLoop).          *)
(***************************************************************************)
EXTENDS Integers, Sequences

CONSTANTS
  Capacity,   \* room of the event channel (8 in the code)
  Retries,    \* length of the list of backoffs (3 in the code)
  MaxChunks   \* bound: chunks a response carries before its end

ASSUME StreamAssumption ==
  Capacity \in Nat \ {0} /\ Retries \in Nat /\ MaxChunks \in Nat

VARIABLES
  producer,   \* where the goroutine is
  tries,      \* attempts doWithRetry has used
  webSearch,  \* ~webSearchDisabled, for the life of the client
  stripped,   \* the request goes without web_search
  sends,      \* events decoded and not yet sent
  channel,    \* events sent and not yet received
  closed,     \* the channel is closed
  stepLive,   \* the step context is not done
  response    \* what the server has said: chunks, tool calls, how it ended

streamVars ==
  <<producer, tries, webSearch, stripped, sends, channel, closed, stepLive, response>>

Event(kind, calls) == [kind |-> kind, calls |-> calls]
Kinds == {"text", "calls", "done", "error"}
Silence == [chunks |-> 0, calls |-> 0, ended |-> "no"]

StreamInit ==
  /\ producer = "off" /\ tries = 0 /\ webSearch = TRUE /\ stripped = FALSE
  /\ sends = <<>> /\ channel = <<>> /\ closed = FALSE
  /\ stepLive = FALSE /\ response = Silence

(* ChatStream: a fresh channel and goroutine; normalizeRequest strips the  *)
(* request when an earlier one found web search disabled.                  *)
ChatStream ==
  /\ producer' = "request" /\ tries' = 0 /\ stripped' = ~webSearch
  /\ sends' = <<>> /\ channel' = <<>> /\ closed' = FALSE
  /\ stepLive' = TRUE /\ response' = Silence
  /\ UNCHANGED webSearch

(* The caller cancels the step context and stops reading; whatever the     *)
(* goroutine still does reaches nobody.                                    *)
Abandon ==
  /\ producer' = "off" /\ sends' = <<>> /\ channel' = <<>> /\ closed' = FALSE
  /\ stepLive' = FALSE
  /\ UNCHANGED <<tries, webSearch, stripped, response>>

(* The goroutine's last sends.                                             *)
Finish(events, ended) ==
  /\ producer' = "finish"
  /\ sends' = events
  /\ response' = [response EXCEPT !.ended = ended]

-----------------------------------------------------------------------------
(* doWithRetry, and the fallback after a "web search disabled" refusal.    *)
Accepted ==
  /\ producer = "request"
  /\ producer' = "body"
  /\ UNCHANGED <<tries, webSearch, stripped, sends, channel, closed, stepLive, response>>

Retryable ==
  /\ producer = "request"
  /\ IF tries < Retries
     THEN producer' = "backoff" /\ tries' = tries + 1 /\ UNCHANGED <<sends, response>>
     ELSE Finish(<<Event("error", 0)>>, "failed") /\ UNCHANGED tries
  /\ UNCHANGED <<webSearch, stripped, channel, closed, stepLive>>

WebSearchRefused ==
  /\ producer = "request" /\ ~stripped
  /\ webSearch' = FALSE /\ stripped' = TRUE /\ tries' = 0
  /\ UNCHANGED <<producer, sends, channel, closed, stepLive, response>>

(* Another status, or no connection; the only outcome once the context is  *)
(* done.                                                                   *)
RequestFails ==
  /\ producer = "request"
  /\ Finish(<<Event("error", 0)>>, "failed")
  /\ UNCHANGED <<tries, webSearch, stripped, channel, closed, stepLive>>

BackoffEnds ==
  /\ producer = "backoff"
  /\ producer' = "request"
  /\ UNCHANGED <<tries, webSearch, stripped, sends, channel, closed, stepLive, response>>

BackoffCancelled ==
  /\ producer = "backoff" /\ ~stepLive
  /\ Finish(<<Event("error", 0)>>, "failed")
  /\ UNCHANGED <<tries, webSearch, stripped, channel, closed, stepLive>>

-----------------------------------------------------------------------------
(* readEventStream and handleSSEData.  Text is sent at once; fragments of  *)
(* tool calls are accumulated and sent together before the Done event.     *)
Chunk(kind) ==
  /\ producer = "body" /\ sends = <<>> /\ response.chunks < MaxChunks
  /\ response' = [response EXCEPT !.chunks = @ + 1,
                                  !.calls = IF kind = "calls" THEN @ + 1 ELSE @]
  /\ sends' = IF kind = "text" THEN <<Event("text", 0)>> ELSE <<>>
  /\ UNCHANGED <<producer, tries, webSearch, stripped, channel, closed, stepLive>>

Completed ==
  IF response.calls = 0 THEN <<>> ELSE <<Event("calls", response.calls)>>

(* [DONE], or the end of the body.                                         *)
BodyEnds ==
  /\ producer = "body" /\ sends = <<>>
  /\ Finish(Append(Completed, Event("done", 0)), "done")
  /\ UNCHANGED <<tries, webSearch, stripped, channel, closed, stepLive>>

(* A malformed or error chunk, a broken connection, the context done.      *)
BodyFails ==
  /\ producer = "body" /\ sends = <<>>
  /\ Finish(<<Event("error", 0)>>, "failed")
  /\ UNCHANGED <<tries, webSearch, stripped, channel, closed, stepLive>>

-----------------------------------------------------------------------------
(* Mutant: sendModelEvent drops an event rather than wait for room.        *)
FaultySend ==
  /\ sends # <<>>
  /\ sends' = Tail(sends)
  /\ channel' = IF Len(channel) < Capacity THEN Append(channel, Head(sends)) ELSE channel
  /\ UNCHANGED <<producer, tries, webSearch, stripped, closed, stepLive, response>>

(* sendModelEvent: the select takes either branch that is ready.           *)
Send ==
  /\ sends # <<>>
  /\ sends' = Tail(sends)
  /\ \/ Len(channel) < Capacity /\ channel' = Append(channel, Head(sends))
     \/ ~stepLive /\ UNCHANGED channel
  /\ UNCHANGED <<producer, tries, webSearch, stripped, closed, stepLive, response>>

Close ==
  /\ producer = "finish" /\ sends = <<>>
  /\ producer' = "exited" /\ closed' = TRUE
  /\ UNCHANGED <<tries, webSearch, stripped, sends, channel, stepLive, response>>

FaultyUnaided ==   \* mutant: a read is not woken up by the context
  \/ Send
  \/ Close
  \/ BackoffEnds
  \/ BackoffCancelled
(* What the goroutine does without waiting for the server.                 *)
Unaided ==
  \/ Send
  \/ Close
  \/ BackoffEnds
  \/ BackoffCancelled
  \/ ~stepLive /\ (RequestFails \/ BodyFails)

Produce ==
  \/ Accepted
  \/ Retryable
  \/ WebSearchRefused
  \/ RequestFails
  \/ \E kind \in {"text", "calls"} : Chunk(kind)
  \/ BodyEnds
  \/ BodyFails
  \/ Unaided
=============================================================================
