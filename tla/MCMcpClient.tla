------------------------------ MODULE MCMcpClient ------------------------------
(* Small instance of McpClient: two requests and a notification, so that one *)
(* holds the write lock while one waits for it and one for its answer; two   *)
(* server messages with the two ids, so that an answer may be repeated, come *)
(* before its request, or after its caller has gone.                         *)
EXTENDS McpClient

CONSTANTS r1, r2, n1

MCCalls == {r1, r2, n1}
MCNotices == {n1}
MCServerIds == 1..2
=============================================================================
