---------------------------- MODULE MCPubSubLive ----------------------------
(* Two callers that share one id, so one of them waits for a reply.        *)
EXTENDS PubSubRpc
=============================================================================
