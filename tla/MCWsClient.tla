----------------------------- MODULE MCWsClient -----------------------------
(***************************************************************************)
(* WsClient with two worker identities: one reconnect under way and one    *)
(* more that must not start.                                               *)
(***************************************************************************)
EXTENDS WsClient

TwoWorkers == {"w1", "w2"}
UriGood == {TRUE}
=============================================================================
