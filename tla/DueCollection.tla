--------------------------- MODULE DueCollection ---------------------------
(***************************************************************************)
(* What collecting dues through checkouts promises: every due is collected *)
(* at most once, and what the wallets and the clearing account show is     *)
(* exactly what has been collected.                                        *)
(***************************************************************************)
EXTENDS Integers

CONSTANTS Dues, Price, PlatformFee

VARIABLES
    collected, \* the dues that have been paid
    balance    \* of the organisation, the platform and the clearing account

books == <<collected, balance>>

Init ==
    /\ collected = {}
    /\ balance = [a \in {"ORGANIZATION", "PLATFORM", "CLEARING"} |-> 0]

Collect(d) ==
    /\ d \notin collected
    /\ collected' = collected \cup {d}
    /\ balance' = [balance EXCEPT !["ORGANIZATION"] = @ + Price[d],
                                  !["PLATFORM"] = @ + PlatformFee,
                                  !["CLEARING"] = @ + Price[d] + PlatformFee]

Spec == Init /\ [][\E d \in Dues : Collect(d)]_books

=============================================================================
