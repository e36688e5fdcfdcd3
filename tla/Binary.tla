------------------------------ MODULE Binary ------------------------------
(***************************************************************************)
(* The binary arithmetic of the Merkle mountain range: powers of two, the   *)
(* count_ones() of a number, and the blocks of leaves that its trees cover. *)
(***************************************************************************)
EXTENDS Integers

TwoTo[b \in Nat] == IF b = 0 THEN 1 ELSE 2 * TwoTo[b - 1]

CountOnes[n \in Nat] == IF n = 0 THEN 0 ELSE CountOnes[n \div 2] + (n % 2)

\* The digits 1 of a number.
Digits(n) == {b \in 0..n : (n \div TwoTo[b]) % 2 = 1}

\* The numbers below n in blocks of TwoTo[b], the j-th from j * TwoTo[b] on: the
\* blocks that n has whole.
Whole(b, j, n) == (j + 1) * TwoTo[b] <= n
Blocks(b, n) == {j \in 0..(n - 1) : Whole(b, j, n)}

\* The largest power of two that divides n.
LowBit(n) == CHOOSE b \in 0..n : \E q \in 0..n : n = (2 * q + 1) * TwoTo[b]
=============================================================================
