---------------------------- MODULE MCCheckouts ----------------------------
(* Instances of Checkouts for TLC. *)
EXTENDS Checkouts, TLC

\* Every due costs 3; dues, rows, sessions and workers are interchangeable.
EqualPrices == [d \in Dues |-> 3]
CheckoutSymmetry ==
    Permutations(Dues) \cup Permutations(Rows) \cup Permutations(Sessions)
      \cup Permutations(Workers)

=============================================================================
