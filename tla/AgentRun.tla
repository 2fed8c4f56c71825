-------------------------------- MODULE AgentRun --------------------------------
(***************************************************************************)
(* What agent.Loop promises its callers, the runtime and, over the bus,    *)
(* the UI: one run after the other, each told by the events that outlive   *)
(* it.  AgentLoop implements this module; Session builds its run on it.    *)
(***************************************************************************)
EXTENDS Integers, Sequences

CONSTANT MaxGoalReact   \* re-entries a run may ask for

VARIABLES
  live,     \* a run is on
  gated,    \* it has a goal
  retries,  \* re-entries so far
  outcome,  \* how the last run ended: none, answer, max steps, failed
  log       \* what the run has published

runVars == <<live, gated, retries, outcome, log>>

RInit == live = FALSE /\ gated = FALSE /\ retries = 0 /\ outcome = "none" /\ log = <<>>

(* The end of a run: its goal is closed by an answer or the step limit,    *)
(* and stays open otherwise; an error precedes Done unless it answered.    *)
Closing(how, goal) ==
  IF goal /\ how \in {"answer", "max steps"} THEN <<"goal closed">> ELSE <<>>
Ending(how, goal) ==
  Closing(how, goal) \o (IF how = "answer" THEN <<"done">> ELSE <<"error", "done">>)

Begin ==
  /\ ~live
  /\ live' = TRUE /\ gated' \in BOOLEAN
  /\ retries' = 0 /\ outcome' = "none" /\ log' = <<>>

Retry ==
  /\ live /\ gated /\ retries < MaxGoalReact
  /\ retries' = retries + 1
  /\ log' = Append(log, "goal open")
  /\ UNCHANGED <<live, gated, outcome>>

Finish ==
  /\ live
  /\ live' = FALSE
  /\ outcome' \in {"answer", "max steps", "failed"}
  /\ log' = log \o Ending(outcome', gated)
  /\ UNCHANGED <<gated, retries>>

RNext == Begin \/ Retry \/ Finish

RSpec == RInit /\ [][RNext]_runVars
=============================================================================
