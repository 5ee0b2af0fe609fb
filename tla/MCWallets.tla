----------------------------- MODULE MCWallets -----------------------------
(* Instances of Wallets for TLC. *)
EXTENDS Wallets, TLC

\* The payer can afford two operations of amount 1, or one internal payment.
OpeningBalances == [w \in Owners |-> IF w = "USER" THEN 2 ELSE 0]

Moves == {"read", "debit", "deposit", "withdraw", "payManually"}
RequestSymmetry == Permutations(Requests)

=============================================================================
