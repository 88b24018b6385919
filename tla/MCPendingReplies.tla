-------------------------- MODULE MCPendingReplies --------------------------
(* Callers that compete for ids, and one poller.                           *)
EXTENDS PendingReplies
=============================================================================
