--------------------------- MODULE NackRequester ----------------------------
(***************************************************************************)
(* NackRequester (src/qos/nack_requester.cc): which packets the receiver   *)
(* still misses and when it asks for them again.  The object is a record;  *)
(* its methods are operators on it, called under the receiver's nack_mtx_. *)
(* NrSpec runs it alone, over sequence numbers that wrap.                  *)
(*                                                                         *)
(* nack_list_ and recovered_list_ are ordered by DescendingSeqNumComp,     *)
(* oldest first; their ranges are the numbers before or after a number.    *)
(***************************************************************************)
EXTENDS Integers, FiniteSets, SequenceNumbers

CONSTANTS
    SeqMod,             \* number of sequence numbers (2^16)
    MaxPacketAge,       \* kMaxPacketAge
    MaxNackPackets,     \* kMaxNackPackets
    MaxNackRetries,     \* kMaxNackRetries
    SendNackDelay,      \* kDefaultSendNackDelay
    FailedRetryDelay,   \* kFailedSendRetryDelay
    DefaultRtt,         \* kDefaultRtt
    MaxRttSample,       \* the largest sample UpdateRtt accepts
    ReorderWaits,       \* what WaitNumberOfPackets may answer
    MaxNow              \* bound on the clock

VARIABLES
    now,
    nack                \* the requester

nrVars == <<now, nack>>

\* The age and the length of the list stay below half of the numbers.
ASSUME NackAssumption ==
    /\ SeqMod \in Nat /\ MaxPacketAge \in Nat \ {0} /\ MaxNackPackets \in Nat \ {0}
    /\ SeqMod % 2 = 0 /\ MaxNackPackets <= MaxPacketAge
    /\ MaxPacketAge + MaxNackPackets + 1 < SeqMod \div 2
    /\ MaxNow \in Nat /\ DefaultRtt \in Nat /\ ReorderWaits \subseteq 0..(SeqMod - 1)

SeqNums == 0..(SeqMod - 1)
NotYet  == 0 - 1                            \* Timestamp::MinusInfinity()
Passed(t, delay) == t = NotYet \/ now - t >= delay
Ahead(a, b) == AheadOf(a, b, SeqMod)

NackInfo(s, w) == [sendAt |-> SeqPlus(s, w, SeqMod), created |-> now, sent |-> NotYet,
                   tried |-> NotYet, retries |-> 0, pending |-> FALSE]

NewNack == [initialized |-> FALSE, newest |-> 0, list |-> [s \in {} |-> 0], recovered |-> {},
            keyFrame |-> FALSE, rtt |-> DefaultRtt, sampled |-> FALSE]

Without(list, S) == [s \in DOMAIN list \ S |-> list[s]]

-----------------------------------------------------------------------------
UpdateRtt(n, sample) ==
    IF sample <= 0 \/ sample > MaxRttSample THEN n
    ELSE [n EXCEPT !.sampled = TRUE,
                   !.rtt = IF n.sampled THEN (3 * n.rtt + sample) \div 4 ELSE sample]

\* The numbers from the one after the newest up to s, s excluded.
Between(n, s) == {k \in SeqNums : Ahead(k, n.newest) /\ Ahead(s, k)}

\* Mutant of AddPacketsToNack: packets that are too old stay in the list.
AddPacketsToNackKeeps(n, s, w) ==
    LET count == ForwardDiff(SeqPlus(n.newest, 1, SeqMod), s, SeqMod)
        lost  == Between(n, s) \ n.recovered
    IN  IF Cardinality(DOMAIN n.list) + count > MaxNackPackets
        THEN [n EXCEPT !.list = Without(n.list, DOMAIN n.list), !.keyFrame = TRUE]
        ELSE [n EXCEPT !.list = [k \in DOMAIN n.list \cup lost |->
                                    IF k \in lost THEN NackInfo(k, w) ELSE n.list[k]]]

\* s arrived, beyond the newest number: what lies between is missing.
AddPacketsToNack(n, s, w) ==
    LET oldest == SeqMinus(s, MaxPacketAge, SeqMod)
        young  == Without(n.list, {k \in DOMAIN n.list : Ahead(oldest, k)})
        count  == ForwardDiff(SeqPlus(n.newest, 1, SeqMod), s, SeqMod)
        lost   == Between(n, s) \ n.recovered
    IN  IF Cardinality(DOMAIN young) + count > MaxNackPackets
        THEN [n EXCEPT !.list = Without(n.list, DOMAIN n.list), !.keyFrame = TRUE]
        ELSE [n EXCEPT !.list = [k \in DOMAIN young \cup lost |->
                                    IF k \in lost THEN NackInfo(k, w) ELSE n.list[k]]]

\* NackRetryRttMultiplier
NackRetryRttMultiplier(n, retries) ==
    IF retries <= 0 THEN 1
    ELSE IF n.sampled THEN (IF retries <= 2 THEN 1 ELSE 2)
    ELSE 2 ^ (IF retries < 3 THEN retries ELSE 3)

\* The numbers GetNackBatch selects, on arrival ("seq") or by time ("time").
GetNackBatch(n, by) ==
    {s \in DOMAIN n.list :
        LET i == n.list[s] IN
        /\ ~i.pending
        /\ now - i.created >= SendNackDelay
        /\ Passed(i.tried, FailedRetryDelay)
        /\ \/ by = "seq" /\ i.sent = NotYet /\ AheadOrAt(n.newest, i.sendAt, SeqMod)
           \/ by = "time" /\ Passed(i.sent, n.rtt * NackRetryRttMultiplier(n, i.retries))}

MarkPending(n, S) ==
    [n EXCEPT !.list = [s \in DOMAIN n.list |->
                           IF s \in S THEN [n.list[s] EXCEPT !.pending = TRUE] ELSE n.list[s]]]

\* An out-of-order packet fills its gap and, repaired after one NACK, is a sample.
OnOldPacket(n, s, recovered) ==
    LET known  == s \in DOMAIN n.list
        sample == known /\ recovered /\ n.list[s].retries = 1 /\ n.list[s].sent # NotYet
        timed  == IF sample THEN UpdateRtt(n, now - n.list[s].sent) ELSE n
    IN  [timed EXCEPT !.list = Without(n.list, {s})]

\* A repaired packet ahead of the newest one is remembered, not counted.
OnRecoveredAhead(n, s) ==
    LET oldest == SeqMinus(s, MaxPacketAge, SeqMod)
    IN  [n EXCEPT !.recovered = {k \in n.recovered \cup {s} : ~Ahead(oldest, k)}]

\* OnReceivedPacket, without the batch: that is GetNackBatch by "seq" afterwards
\* when the packet advanced the newest number (Advances).
Advances(n, s, recovered) ==
    n.initialized /\ s # n.newest /\ ~Ahead(n.newest, s) /\ ~recovered

OnReceivedPacket(n, s, recovered, w) ==
    IF ~n.initialized THEN [n EXCEPT !.initialized = TRUE, !.newest = s]
    ELSE IF s = n.newest THEN n
    ELSE IF Ahead(n.newest, s) THEN OnOldPacket(n, s, recovered)
    ELSE IF recovered THEN OnRecoveredAhead(n, s)
    ELSE [AddPacketsToNack(n, s, w) EXCEPT !.newest = s]

\* Mutant of OnNackBatchSent: a failure leaves the numbers marked.
OnNackBatchSentKeeps(n, S, ok) ==
    LET hit  == {s \in S \cap DOMAIN n.list : n.list[s].pending /\ ok}
        done == {s \in hit : n.list[s].retries + 1 >= MaxNackRetries}
        Sent(i) == [i EXCEPT !.pending = FALSE, !.tried = now, !.sent = now, !.retries = @ + 1]
    IN  [n EXCEPT !.list = [s \in DOMAIN n.list \ done |->
                               IF s \in hit THEN Sent(n.list[s]) ELSE n.list[s]]]

\* What the transport said of a batch that was prepared earlier.
OnNackBatchSent(n, S, ok) ==
    LET hit  == {s \in S \cap DOMAIN n.list : n.list[s].pending}
        done == {s \in hit : ok /\ n.list[s].retries + 1 >= MaxNackRetries}
        Sent(i) == IF ok THEN [i EXCEPT !.pending = FALSE, !.tried = now, !.sent = now,
                                        !.retries = @ + 1]
                   ELSE [i EXCEPT !.pending = FALSE, !.tried = now]
    IN  [n EXCEPT !.list = [s \in DOMAIN n.list \ done |->
                               IF s \in hit THEN Sent(n.list[s]) ELSE n.list[s]]]

ClearUpTo(n, s) ==
    [n EXCEPT !.list = Without(n.list, {k \in DOMAIN n.list : ~Ahead(k, s)}),
              !.recovered = {k \in n.recovered : Ahead(k, s)}]

HasPendingNacksUpTo(n, s) == \E k \in DOMAIN n.list : ~Ahead(k, s)

-----------------------------------------------------------------------------
(***************************************************************************)
(* The requester alone: any packet may arrive at any time, and a batch is  *)
(* sent, or fails to be, as soon as it is prepared.                        *)
(***************************************************************************)
NrInit == now = 0 /\ nack = NewNack

\* A batch that is not empty is sent, or fails to be.
Sends(n, batch) ==
    \E ok \in IF batch = {} THEN {TRUE} ELSE BOOLEAN :
        nack' = OnNackBatchSent(MarkPending(n, batch), batch, ok)

NrReceive ==
    \E s \in SeqNums, recovered \in BOOLEAN, w \in ReorderWaits :
        LET n == OnReceivedPacket(nack, s, recovered, w)
        IN  Sends(n, IF Advances(nack, s, recovered) THEN GetNackBatch(n, "seq") ELSE {})
            /\ UNCHANGED now

NrProcessNacks == Sends(nack, GetNackBatch(nack, "time")) /\ UNCHANGED now

NrConsumeKeyFrameRequest == nack' = [nack EXCEPT !.keyFrame = FALSE] /\ UNCHANGED now

NrClearUpTo == \E s \in SeqNums : nack' = ClearUpTo(nack, s) /\ UNCHANGED now

NrPassTime == now < MaxNow /\ now' = now + 1 /\ UNCHANGED nack

NrNext == NrReceive \/ NrProcessNacks \/ NrConsumeKeyFrameRequest
          \/ NrClearUpTo \/ NrPassTime

NrSpec == NrInit /\ [][NrNext]_nrVars

-----------------------------------------------------------------------------
\* Every number asked for lies behind the newest one by no more than the age
\* limit, and there are no more of them than the limit that calls for a key
\* frame instead.  The comparator that orders the list needs its numbers to span less
\* than half of the range: otherwise begin() is not the oldest number and
\* ClearUpTo and HasPendingNacksUpTo act on the wrong ones.
NackWithinLimits ==
    /\ \A s \in DOMAIN nack.list : ForwardDiff(s, nack.newest, SeqMod) \in 1..MaxPacketAge
    /\ Cardinality(DOMAIN nack.list) <= MaxNackPackets

=============================================================================
