-------------------------- MODULE SequenceNumbers ---------------------------
(***************************************************************************)
(* Arithmetic on the wrapping RTP sequence numbers and timestamps          *)
(* (src/common/mod_ops.h, sequence_number_util.h and                       *)
(* sequence_number_compare.h).  m is the number of values of the unsigned  *)
(* type, 2^16 or 2^32 in the code: numbers are 0..m-1 and m is even.       *)
(***************************************************************************)
EXTENDS Integers

\* How far b lies after a.
ForwardDiff(a, b, m) == IF a <= b THEN b - a ELSE m - (a - b)

\* a - k and a + k as the unsigned type computes them, 0 <= k < m.
SeqMinus(a, k, m) == IF k <= a THEN a - k ELSE m - (k - a)
SeqPlus(a, k, m)  == IF a + k < m THEN a + k ELSE a + k - m

\* AheadOf, and IsNewer, which decides the tie at half the range alike.
AheadOf(a, b, m) ==
    /\ a # b
    /\ IF ForwardDiff(b, a, m) = m \div 2 THEN b < a ELSE ForwardDiff(b, a, m) < m \div 2

AheadOrAt(a, b, m) == a = b \/ AheadOf(a, b, m)
=============================================================================
