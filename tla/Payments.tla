------------------------------ MODULE Payments ------------------------------
(***************************************************************************)
(* The modules about money side by side: the initial state chooses those   *)
(* that run, and the others never move.  A run of all of them one by one   *)
(* visits the sum of their states; their properties are stated here for    *)
(* the runs and the proofs alike.                                          *)
(***************************************************************************)
EXTENDS Wallets, FiniteSets

CONSTANTS
    Parts,   \* the modules an instance runs
    Workers, \* the handlers of Checkouts, of GuestClaims and of BankAccounts
    \* of Checkouts
    Dues, Rows, Sessions, Itemised, Price, PlatformFee, MaxStops,
    \* of GuestClaims: the due each guest record pays, the completions
    MaxGuests, GuestDues, DueOf, MaxCodes, MaxAttempts, Completers,
    \* of BankAccounts
    Details, MaxAccounts

\* Guest records are counted from one and pay a due there is; zero stands for a
\* payment in the application.
ASSUME ClaimsAssumption ==
    /\ MaxGuests \in Nat \ {0} /\ MaxCodes \in Nat \ {0}
    /\ DueOf \in [1..MaxGuests -> GuestDues]

AllParts == {"wallets", "checkouts", "claims", "accounts"}

VARIABLES
    part,
    status, due, checkout, old, paidBy, receipts, duePayment, funds,
    session, rowOf, offered, failedAttempts, point, task, stops,
    guest, paid, backer, code, claim, completion, split, late,
    bank, made, teller, crossed, replayed

checkoutVars == <<status, due, checkout, old, paidBy, receipts, duePayment, funds,
                  session, rowOf, offered, failedAttempts, point, task, stops>>
claimVars == <<guest, paid, backer, code, claim, completion, split, late>>
accountVars == <<bank, made, teller, crossed, replayed>>
allvars == <<vars, checkoutVars, claimVars, accountVars, part>>

----------------------------------------------------------------------------
(* The instances; their handlers are the same workers. *)

C == INSTANCE Checkouts WITH
        balance <- funds, pc <- point, crashes <- stops, MaxCrashes <- MaxStops
G == INSTANCE GuestClaims WITH
        Dues <- GuestDues, Due <- DueOf, Claimers <- Workers
B == INSTANCE BankAccounts WITH
        MaxRows <- MaxAccounts, Tellers <- Workers, account <- bank

\* What Checkouts assumes of its constants.
ASSUME CheckoutsAssumption == C!CheckoutAssumption

----------------------------------------------------------------------------
PaymentsInit == part \in Parts /\ Init /\ C!Init /\ G!Init /\ B!Init
PaymentsNext ==
    \/ part = "wallets" /\ Next /\ UNCHANGED <<checkoutVars, claimVars, accountVars, part>>
    \/ part = "checkouts" /\ C!Next /\ UNCHANGED <<vars, claimVars, accountVars, part>>
    \/ part = "claims" /\ G!Next /\ UNCHANGED <<vars, checkoutVars, accountVars, part>>
    \/ part = "accounts" /\ B!Next /\ UNCHANGED <<vars, checkoutVars, claimVars, part>>

PaymentsSpec == PaymentsInit /\ [][PaymentsNext]_allvars

----------------------------------------------------------------------------
(* The properties of the modules; those of Wallets have their own names. *)

NoAttemptForPaidDue == C!NoAttemptForPaidDue
ImplementsCollection == C!ImplementsCollection

RecordsAgree == G!RecordsAgree
DuesFollowClaims == G!DuesFollowClaims
AttemptsBounded == G!AttemptsBounded
ClaimsTypeOK == G!TypeOK
ClaimIsIdempotent == G!ClaimIsIdempotent
ClaimMovesEverything == G!ClaimMovesEverything
ClaimedPaymentSettles == G!ClaimedPaymentSettles

DestinationFollowsDetails == B!DestinationFollowsDetails
AccountsTypeOK == B!TypeOK
DestinationIsCurrent == B!DestinationIsCurrent
OneDefault == B!OneDefault
DefaultIsKept == B!DefaultIsKept
=============================================================================
