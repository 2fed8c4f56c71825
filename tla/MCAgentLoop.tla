----------------------------- MODULE MCAgentLoop -----------------------------
(* Small instance of AgentLoop.  Two prompts, so that a run starts from the  *)
(* history another one returned; two steps, so that a tool turn or a         *)
(* re-entry is followed by an answer or by the step limit; one re-entry, so  *)
(* that the gate gives up; a channel of one event, so that it fills.         *)
EXTENDS AgentLoop
=============================================================================
