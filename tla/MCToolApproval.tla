---------------------------- MODULE MCToolApproval ----------------------------
(* Small instance of ToolApproval.  Three calls, so that a request can be    *)
(* asked while one is still on the panel and another on its way; room for    *)
(* one request in the channel, so that it fills when the bridge is behind;   *)
(* two seconds, so that a tick counts before one denies.                     *)
EXTENDS ToolApproval
=============================================================================
