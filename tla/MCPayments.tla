----------------------------- MODULE MCPayments -----------------------------
(***************************************************************************)
(* Instances of Payments for TLC.                                          *)
(***************************************************************************)
EXTENDS Payments, TLC

\* Every due costs 3; the payer can afford two operations of amount 1, or one
\* internal payment.
EqualPrices == [d \in Dues |-> 3]
OpeningBalances == [w \in Owners |-> IF w = "USER" THEN 2 ELSE 0]

\* Each guest record pays a due of its own.
OwnDue == [g \in 1..MaxGuests |-> g]

Symmetry == Permutations(Workers) \cup Permutations(Details) \cup Permutations(Rows)
=============================================================================
