------------------------------- MODULE MCSession -------------------------------
(* Small instance of Session.  Session.cfg: two prompts besides the CLI's,   *)
(* so that one is queued behind another in either queue; a goal, a clear, an *)
(* interrupt and a re-entry, so that each meets a run in every phase.        *)
(* SessionGoal.cfg: a second goal, set while a run has the first.            *)
EXTENDS Session
=============================================================================
