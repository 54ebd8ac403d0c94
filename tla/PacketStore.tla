----------------------------- MODULE PacketStore ----------------------------
(***************************************************************************)
(* What the history of sent packets promises its users: packets kept under *)
(* their sequence numbers.  A packet is found under its own number or not  *)
(* at all, a copy is handed out only of a packet of which no copy is       *)
(* pending, and a packet leaves the store only with every older one.       *)
(***************************************************************************)
EXTENDS Integers

CONSTANT StoreMod           \* number of sequence numbers

VARIABLE store              \* the packets kept, [seq, pending, ...] each

Seqs == 0..(StoreMod - 1)

\* p was stored before q: the numbers kept span less than half the range.
Older(p, q) == (q.seq - p.seq) % StoreMod \in 1..(StoreMod \div 2)

\* The packets that survive when the oldest ones are dropped.
Suffixes(S) == {T \in SUBSET S : \A p \in S \ T : \A q \in T : Older(p, q)}

StoreInit == store = {}

Insert ==
    \E T \in Suffixes(store) :
        \E p \in store' :
            /\ p.seq \in Seqs /\ ~p.pending
            /\ \A q \in T : Older(q, p)
            /\ store' = T \cup {p}

\* A copy of the packet is handed out.
Take ==
    \E p \in store :
        /\ ~p.pending
        /\ store' = (store \ {p}) \cup {[p EXCEPT !.pending = TRUE]}

\* The copy was sent, now or earlier, or was given up.
Return ==
    \E p \in store :
        \E q \in store' :
            /\ q.seq = p.seq /\ ~q.pending
            /\ store' = (store \ {p}) \cup {q}

Drop == store' \in Suffixes(store)

StoreNext == Insert \/ Take \/ Return \/ Drop

StoreSpec == StoreInit /\ [][StoreNext]_store
=============================================================================
