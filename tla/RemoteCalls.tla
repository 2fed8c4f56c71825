------------------------------ MODULE RemoteCalls ------------------------------
(***************************************************************************)
(* What the JSON-RPC client of internal/mcp promises those who call it,    *)
(* without ids, table, channels and goroutines: the fate of a call is      *)
(* decided once, in one step, by its answer or by the end of the           *)
(* connection; the end is one moment for all calls; and what a call        *)
(* returns agrees with its fate.  McpClient implements this module.        *)
(***************************************************************************)
CONSTANTS
  Calls,     \* calls made through the client
  Notices    \* those that are notifications

VARIABLES
  stage,     \* new, open (its entry was made), over
  fate,      \* undecided, answered, broken
  outcome,   \* what it returned
  shut       \* the connection has ended, or was closed

rvars == <<stage, fate, outcome, shut>>

RpcInit ==
  /\ stage = [c \in Calls |-> "new"] /\ fate = [c \in Calls |-> "undecided"]
  /\ outcome = [c \in Calls |-> "none"] /\ shut = FALSE

(* After the end there is nobody to answer: no call begins.                *)
Begin(c) ==
  /\ stage[c] = "new" /\ c \notin Notices /\ ~shut
  /\ stage' = [stage EXCEPT ![c] = "open"]
  /\ UNCHANGED <<fate, outcome, shut>>

Over(c, how) ==
  /\ stage' = [stage EXCEPT ![c] = "over"]
  /\ outcome' = [outcome EXCEPT ![c] = how]
  /\ UNCHANGED <<fate, shut>>

Refuse(c) == stage[c] = "new" /\ c \notin Notices /\ shut /\ Over(c, "refused")

Send(c) ==
  /\ stage[c] = "new" /\ c \in Notices
  /\ \E how \in {"sent", "write error"} : Over(c, how)

(* The server's answer counts from here on, wherever the call is.          *)
Answer(c) ==
  /\ stage[c] = "open" /\ fate[c] = "undecided" /\ ~shut
  /\ fate' = [fate EXCEPT ![c] = "answered"]
  /\ UNCHANGED <<stage, outcome, shut>>

(* The one end of the connection decides all calls not decided by then.    *)
ShutDown ==
  /\ ~shut /\ shut' = TRUE
  /\ fate' = [c \in Calls |->
                IF stage[c] = "open" /\ fate[c] = "undecided" THEN "broken" ELSE fate[c]]
  /\ UNCHANGED <<stage, outcome>>

(* A caller may give up at any time, also on a call that is decided.       *)
Return(c) ==
  /\ stage[c] = "open"
  /\ \/ \E how \in {"cancelled", "write error"} : Over(c, how)
     \/ fate[c] = "answered" /\ Over(c, "answer")
     \/ fate[c] = "broken" /\ Over(c, "connection closed")

RpcNext ==
  \/ ShutDown
  \/ \E c \in Calls : Begin(c) \/ Refuse(c) \/ Send(c) \/ Answer(c) \/ Return(c)

RpcSpec == RpcInit /\ [][RpcNext]_rvars
=============================================================================
