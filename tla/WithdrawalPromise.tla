------------------------- MODULE WithdrawalPromise -------------------------
(***************************************************************************)
(* What the withdrawal flow promises each withdrawal, without handlers,    *)
(* rows or balances: where its money is at every stage.  The money is      *)
(* free, reserved by a request, debited by a settlement, or given back;    *)
(* a debit happens once, money given back is never taken again, and only   *)
(* money the provider has paid out is gone for good.                       *)
(***************************************************************************)
CONSTANT Withdrawals

VARIABLES
    stage,  \* the status the dashboard shows
    funds,  \* where the withdrawal's money is
    bank    \* what the provider has decided

promised == <<stage, funds, bank>>

Init ==
    /\ stage = [w \in Withdrawals |-> "NEW"]
    /\ funds = [w \in Withdrawals |-> "free"]
    /\ bank = [w \in Withdrawals |-> "NONE"]

Move(w, stages, money, newStage, newMoney) ==
    /\ stage[w] \in stages
    /\ funds[w] = money
    /\ stage' = [stage EXCEPT ![w] = newStage]
    /\ funds' = [funds EXCEPT ![w] = newMoney]

Reserve(w) == Move(w, {"NEW"}, "free", "PENDING", "reserved") /\ UNCHANGED bank
Settle(w) == Move(w, {"PENDING"}, "reserved", "PROCESSING", "debited") /\ UNCHANGED bank
Decline(w) == Move(w, {"PENDING"}, "reserved", "FAILED", "free") /\ UNCHANGED bank
GiveBack(w) == Move(w, {"PROCESSING"}, "debited", "FAILED", "returned") /\ UNCHANGED bank

\* Only what the provider has paid is completed.
Complete(w) ==
    /\ bank[w] = "PAID"
    /\ Move(w, {"PROCESSING"}, "debited", "COMPLETED", "debited")
    /\ UNCHANGED bank

\* The provider takes a payout on only while the money is debited, and makes
\* up its mind once, whether or not the server is still waiting for it.
Accept(w) ==
    /\ bank[w] = "NONE"
    /\ funds[w] = "debited"
    /\ \E d \in {"PENDING", "FAILED"} : bank' = [bank EXCEPT ![w] = d]
    /\ UNCHANGED <<stage, funds>>

Decide(w) ==
    /\ bank[w] = "PENDING"
    /\ \E d \in {"PAID", "FAILED"} : bank' = [bank EXCEPT ![w] = d]
    /\ UNCHANGED <<stage, funds>>

Next ==
    \E w \in Withdrawals :
        \/ Reserve(w) \/ Settle(w) \/ Decline(w) \/ GiveBack(w)
        \/ Complete(w) \/ Accept(w) \/ Decide(w)

Spec == Init /\ [][Next]_promised

=============================================================================
