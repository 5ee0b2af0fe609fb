--------------------------- MODULE MCWithdrawals ---------------------------
(* Instances of Withdrawals for TLC. *)
EXTENDS Withdrawals, TLC

CONSTANTS w1, w2

AllUser == [w \in Withdrawals |-> "USER"]
AllOrganization == [w \in Withdrawals |-> "ORGANIZATION"]
OrganizationAndPlatform == (w1 :> "ORGANIZATION") @@ (w2 :> "PLATFORM")

\* A principal of 5; an organisation is charged twice the provider's fee of 1.
Principal == [w \in Withdrawals |-> 5]
RequestFee == [w \in Withdrawals |-> IF Kind[w] = "ORGANIZATION" THEN 2 ELSE 1]
QuotedFee == [w \in Withdrawals |-> 2]
OpenForTwo == [x \in Kinds |-> 14]
OpenForOne == [x \in Kinds |-> 7]

\* Workers are interchangeable.
WorkerSymmetry == Permutations(Workers)

=============================================================================
