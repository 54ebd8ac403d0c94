-------------------------- MODULE MCPeerConnection --------------------------
(***************************************************************************)
(* PeerConnection for TLC: two connections are enough for one to replace   *)
(* the other, and two queued messages for one to be overtaken.             *)
(***************************************************************************)
EXTENDS PeerConnection
=============================================================================
