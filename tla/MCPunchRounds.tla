--------------------------- MODULE MCPunchRounds ----------------------------
(***************************************************************************)
(* The probe rounds of two connections of one process, a pool and an       *)
(* anchor, under limits of one and of two rounds at a time.                *)
(***************************************************************************)
EXTENDS PunchRounds

CONSTANTS r1, r2
TwoRuntimes == {r1, r2}
APool == {r1}
=============================================================================
