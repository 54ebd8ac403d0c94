------------------------- MODULE MCPunchNegotiation -------------------------
(***************************************************************************)
(* A small instance of PunchNegotiation: the offer sits behind a stable    *)
(* NAT, the answer behind a dependent one (or, ineligible, a stable one).  *)
(***************************************************************************)
EXTENDS PunchNegotiation

HelloOf(mapping, budget, remaining) ==
    [mapping |-> mapping, retry |-> FALSE, budget |-> budget, remaining |-> remaining]

\* Few packets and little time: budgets and deadlines cut the exchange short,
\* and the answer has just time for all retransmissions of its HELLO.
TightHellos ==
    [p \in Peers |-> IF p = "offer" THEN {HelloOf("Stable", 4, 4)}
                     ELSE {HelloOf("Dependent", 4, 5), HelloOf("Stable", 4, 4)}]

\* All waits are one unit long, so that few units hold many retransmissions.
ShortWaits == <<1, 1, 1>>
=============================================================================
