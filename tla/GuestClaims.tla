----------------------------- MODULE GuestClaims ----------------------------
(***************************************************************************)
(* Dues paid without an account and claimed later: the guest records, the  *)
(* payment, checkout row and receipt of each, the codes mailed to the      *)
(* address and the claim that moves everything to the account.             *)
(*                                                                         *)
(* All guest records have the address of one verified account, which is a  *)
(* student's.  The claim runs against completions of the same payments     *)
(* that have read who owns the checkout row, and receipts that have read   *)
(* who owns the payment, before it commits.                                *)
(***************************************************************************)
EXTENDS Integers, FiniteSets

CONSTANTS
    MaxGuests,   \* bound: guest records, 1..MaxGuests in the order of creation
    Dues,        \* dues
    Due,         \* the due each guest record pays
    MaxCodes,    \* bound: claim codes, 1..MaxCodes in the order of creation
    MaxAttempts, \* wrong codes before a claim code is refused (5)
    Claimers,    \* handlers of the account's requests running at one time
    Completers,  \* completions running at one time
    None         \* no guest, no payment

VARIABLES
    guest,      \* the guest record with the owners of its rows
    paid,       \* dues whose assignment to the student is marked as paid
    backer,     \* the payment each due payment row names
    code,       \* the claim codes
    claim,      \* the handlers of the account's requests
    completion, \* the completions
    split,      \* guests claimed while their rows were still being made
    late        \* guests claimed before their payment was complete

rows == <<guest, paid, backer>>
history == <<split, late>>
vars == <<rows, code, claim, completion, history>>

Guests == 1..MaxGuests
Codes == 1..MaxCodes
Owner == {"nobody", "guest", "account"}

\* Stands for the payment of a student who pays in the application.
Application == 0

NoGuest == [made |-> FALSE, claimed |-> FALSE, pending |-> "nobody",
            payer |-> "nobody", receipt |-> "nobody"]
NoCode == [guest |-> None, age |-> "fresh", used |-> FALSE, attempts |-> 0]
NoClaim == [at |-> "idle", code |-> 1, guests |-> {}, listed |-> {}]
NoCompletion == [at |-> "idle", guest |-> 1, owner |-> "guest"]

Unclaimed == {g \in Guests : guest[g].made /\ ~guest[g].claimed}
Oldest(S) == CHOOSE x \in S : \A y \in S : x <= y
Newest(S) == CHOOSE x \in S : \A y \in S : x >= y

----------------------------------------------------------------------------
(* initiate *)

\* The placeholder user and the guest record, in one transaction.
MakeGuest(g) ==
    /\ ~guest[g].made
    /\ \A h \in 1..(g - 1) : guest[h].made
    /\ guest' = [guest EXCEPT ![g].made = TRUE]
    /\ UNCHANGED <<paid, backer, code, claim, completion, history>>

\* The checkout row of the placeholder; it has no due assignment.
AskPayment(g) ==
    /\ guest[g].made /\ guest[g].pending = "nobody"
    /\ guest' = [guest EXCEPT ![g].pending = "guest"]
    /\ UNCHANGED <<paid, backer, code, claim, completion, history>>

----------------------------------------------------------------------------
(* completePayment and generateReceipt *)

\* The checkout row and its owner are read, and that there is no payment.
CompleteRead(k, g) ==
    /\ completion[k].at = "idle"
    /\ guest[g].pending # "nobody" /\ guest[g].payer = "nobody"
    /\ completion' = [completion EXCEPT ![k] =
           [at |-> "commit", guest |-> g, owner |-> guest[g].pending]]
    /\ UNCHANGED <<rows, code, claim, history>>

\* A repeated webhook or poll makes the receipt that is missing.
CompleteAgain(k, g) ==
    /\ completion[k].at = "idle"
    /\ guest[g].payer # "nobody" /\ guest[g].receipt = "nobody"
    /\ completion' = [completion EXCEPT ![k] =
           [at |-> "receipt", guest |-> g, owner |-> guest[g].payer]]
    /\ UNCHANGED <<rows, code, claim, history>>

\* The payment goes to the owner that was read; its reference is unique.
CompleteCommit(k) ==
    LET g == completion[k].guest
    IN  /\ completion[k].at = "commit"
        /\ \/ /\ guest[g].payer = "nobody"
              /\ guest' = [guest EXCEPT ![g].payer = completion[k].owner]
              /\ completion' = [completion EXCEPT ![k].at = "receipt"]
           \/ /\ guest[g].payer # "nobody"
              /\ completion' = [completion EXCEPT ![k] = NoCompletion]
              /\ UNCHANGED guest
        /\ UNCHANGED <<paid, backer, code, claim, history>>

\* The listener asks for a receipt on behalf of the payer of the event; it is
\* refused when the payment has another payer by now.
ReceiptRead(k) ==
    LET g == completion[k].guest
    IN  /\ completion[k].at = "receipt"
        /\ completion' = [completion EXCEPT ![k] =
               IF guest[g].payer = completion[k].owner /\ guest[g].receipt = "nobody"
                 THEN [@ EXCEPT !.at = "write"] ELSE NoCompletion]
        /\ UNCHANGED <<rows, code, claim, history>>

ReceiptWrite(k) ==
    LET g == completion[k].guest
    IN  /\ completion[k].at = "write"
        /\ guest' = IF guest[g].receipt = "nobody"
                      THEN [guest EXCEPT ![g].receipt = completion[k].owner] ELSE guest
        /\ completion' = [completion EXCEPT ![k] = NoCompletion]
        /\ UNCHANGED <<paid, backer, code, claim, history>>

----------------------------------------------------------------------------
(* requestClaimCode *)

\* The code is for the oldest record; one from the last minute is enough.
RequestCode(v) ==
    /\ claim[v].at = "idle"
    /\ Unclaimed # {}
    /\ ~\E i \in Codes : /\ code[i].guest = Oldest(Unclaimed)
                         /\ ~code[i].used /\ code[i].age = "fresh"
    /\ claim' = [claim EXCEPT ![v] =
           [NoClaim EXCEPT !.at = "create", !.guests = {Oldest(Unclaimed)}]]
    /\ UNCHANGED <<rows, code, completion, history>>

CreateCode(v) ==
    \E i \in Codes :
        /\ claim[v].at = "create"
        /\ code[i].guest = None /\ \A j \in 1..(i - 1) : code[j].guest # None
        /\ code' = [code EXCEPT ![i].guest = Oldest(claim[v].guests)]
        /\ claim' = [claim EXCEPT ![v] = [NoClaim EXCEPT !.at = "mail", !.code = i]]
        /\ UNCHANGED <<rows, completion, history>>

MailSent(v) ==
    /\ claim[v].at = "mail"
    /\ claim' = [claim EXCEPT ![v] = NoClaim]
    /\ UNCHANGED <<rows, code, completion, history>>

\* A code that was not sent is deleted.
MailFails(v) ==
    /\ claim[v].at = "mail"
    /\ code' = [code EXCEPT ![claim[v].code].age = "deleted"]
    /\ claim' = [claim EXCEPT ![v] = NoClaim]
    /\ UNCHANGED <<rows, completion, history>>

\* A minute after its creation; ten minutes after it.
CodeAges(i) ==
    /\ code[i].guest # None
    /\ \/ code[i].age = "fresh" /\ code' = [code EXCEPT ![i].age = "old"]
       \/ code[i].age = "old" /\ code' = [code EXCEPT ![i].age = "expired"]
    /\ UNCHANGED <<rows, claim, completion, history>>

----------------------------------------------------------------------------
(* verifyClaimCode *)

\* Mutant: attempts are counted and not looked at.
UsableWithoutLimit ==
    {i \in Codes : /\ code[i].guest \in Unclaimed /\ ~code[i].used
                   /\ code[i].age \in {"fresh", "old"}}

Usable ==
    {i \in Codes : /\ code[i].guest \in Unclaimed /\ ~code[i].used
                   /\ code[i].age \in {"fresh", "old"}
                   /\ code[i].attempts < MaxAttempts}

\* The latest usable code is compared with the one that is sent.
VerifyRead(v) ==
    /\ claim[v].at = "idle"
    /\ Usable # {}
    /\ \E point \in {"list", "wrong"} :
          claim' = [claim EXCEPT ![v] =
              [NoClaim EXCEPT !.at = point, !.code = Newest(Usable)]]
    /\ UNCHANGED <<rows, code, completion, history>>

\* Mutant: the attempts that are left are counted down from none.
CountDown(v) ==
    /\ claim[v].at = "wrong"
    /\ code' = [code EXCEPT ![claim[v].code].attempts = @ - 1]
    /\ claim' = [claim EXCEPT ![v] = NoClaim]
    /\ UNCHANGED <<rows, completion, history>>

CountAttempt(v) ==
    /\ claim[v].at = "wrong"
    /\ code' = [code EXCEPT ![claim[v].code].attempts = @ + 1]
    /\ claim' = [claim EXCEPT ![v] = NoClaim]
    /\ UNCHANGED <<rows, completion, history>>

\* Mutant: a checkout row counts as a payment.
AskedFor == {g \in Unclaimed : guest[g].pending = "guest"}

\* The completed payments of the placeholders.
Completed == {g \in Unclaimed : guest[g].payer = "guest"}

\* The unclaimed records, and the completed payments of their placeholders.
\* (Reads one after the other that only completions come between.)
ClaimList(v) ==
    /\ claim[v].at = "list"
    /\ claim' = [claim EXCEPT ![v].at = "commit", ![v].guests = Unclaimed,
                                      ![v].listed = Completed]
    /\ UNCHANGED <<rows, code, completion, history>>

Moved(owner) == IF owner = "guest" THEN "account" ELSE owner

\* Mutant: the checkout rows are not moved.
ClaimedPaymentOnly(g) ==
    [guest[g] EXCEPT !.claimed = TRUE, !.payer = Moved(@), !.receipt = Moved(@)]

\* What the placeholder owns at the moment of each update is moved.
Claimed(g) ==
    [guest[g] EXCEPT !.claimed = TRUE, !.pending = Moved(@), !.payer = Moved(@),
                     !.receipt = Moved(@)]

\* Mutant: the due payment row is overwritten.
LastBacker(listed, d) ==
    IF \E g \in listed : Due[g] = d
      THEN Newest({g \in listed : Due[g] = d}) ELSE backer[d]

\* A due payment row is made for the first payment only: one per assignment.
NewBacker(listed, d) ==
    IF backer[d] = None /\ \E g \in listed : Due[g] = d
      THEN Oldest({g \in listed : Due[g] = d}) ELSE backer[d]

\* Mutant: only the first payment is settled.
SettledFirst(listed) == IF listed = {} THEN {} ELSE {Due[Oldest(listed)]}

Settled(listed) == {Due[g] : g \in listed}

Busy(g) == \E k \in Completers : completion[k].at # "idle" /\ completion[k].guest = g

\* The transaction: rows moved, the dues of the listed payments settled, the
\* code used.  A code deleted meanwhile rolls it back.
ClaimCommit(v) ==
    LET guests == claim[v].guests
        listed == claim[v].listed
        first == {g \in guests : ~guest[g].claimed}
    IN  /\ claim[v].at = "commit"
        /\ code[claim[v].code].age # "deleted"
        /\ guest' = [g \in Guests |-> IF g \in guests THEN Claimed(g) ELSE guest[g]]
        /\ paid' = paid \cup Settled(listed)
        /\ backer' = [d \in Dues |-> NewBacker(listed, d)]
        /\ code' = [code EXCEPT ![claim[v].code].used = TRUE]
        /\ claim' = [claim EXCEPT ![v] = NoClaim]
        /\ split' = split \cup
               {g \in first : guest[g].pending = "nobody" \/ Busy(g)}
        /\ late' = late \cup (first \ listed)
        /\ UNCHANGED completion

\* The student pays the due in the application (module Checkouts).
PayInApplication(d) ==
    /\ d \notin paid
    /\ paid' = paid \cup {d}
    /\ backer' = [backer EXCEPT ![d] = Application]
    /\ UNCHANGED <<guest, code, claim, completion, history>>

\* A handler fails or its process stops; an open transaction is rolled back.
ClaimStops(v) ==
    /\ claim[v].at # "idle"
    /\ claim' = [claim EXCEPT ![v] = NoClaim]
    /\ UNCHANGED <<rows, code, completion, history>>

CompletionStops(k) ==
    /\ completion[k].at # "idle"
    /\ completion' = [completion EXCEPT ![k] = NoCompletion]
    /\ UNCHANGED <<rows, code, claim, history>>

----------------------------------------------------------------------------
Init ==
    /\ guest = [g \in Guests |-> NoGuest]
    /\ paid = {}
    /\ backer = [d \in Dues |-> None]
    /\ code = [i \in Codes |-> NoCode]
    /\ claim = [v \in Claimers |-> NoClaim]
    /\ completion = [k \in Completers |-> NoCompletion]
    /\ split = {}
    /\ late = {}

ClaimStep(v) ==
    \/ RequestCode(v) \/ CreateCode(v) \/ MailSent(v) \/ MailFails(v)
    \/ VerifyRead(v) \/ CountAttempt(v) \/ ClaimList(v) \/ ClaimCommit(v)
    \/ ClaimStops(v)

CompletionStep(k) ==
    \/ \E g \in Guests : CompleteRead(k, g) \/ CompleteAgain(k, g)
    \/ CompleteCommit(k) \/ ReceiptRead(k) \/ ReceiptWrite(k) \/ CompletionStops(k)

Next ==
    \/ \E g \in Guests : MakeGuest(g) \/ AskPayment(g)
    \/ \E v \in Claimers : ClaimStep(v)
    \/ \E k \in Completers : CompletionStep(k)
    \/ \E i \in Codes : CodeAges(i)
    \/ \E d \in Dues : PayInApplication(d)

Spec == Init /\ [][Next]_vars

----------------------------------------------------------------------------
(* Properties *)

TypeOK ==
    /\ guest \in [Guests -> [made : BOOLEAN, claimed : BOOLEAN, pending : Owner,
                             payer : Owner, receipt : Owner]]
    /\ paid \subseteq Dues
    /\ backer \in [Dues -> Guests \cup {None, Application}]
    /\ code \in [Codes -> [guest : Guests \cup {None},
                           age : {"fresh", "old", "expired", "deleted"},
                           used : BOOLEAN, attempts : Nat]]
    /\ claim \in [Claimers ->
           [at : {"idle", "create", "mail", "wrong", "list", "commit"},
            code : Codes, guests : SUBSET Guests, listed : SUBSET Guests]]
    /\ completion \in [Completers -> [at : {"idle", "commit", "receipt", "write"},
                                      guest : Guests, owner : Owner]]
    /\ split \subseteq Guests
    /\ late \subseteq Guests

\* The checkout row, the payment and the receipt of a guest record have one
\* owner, the account once it is claimed, unless the claim committed while the
\* record was being paid (verifyClaimCode, completePayment, generateReceipt).
RecordsAgree ==
    \A g \in Guests \ split :
        LET owner == IF guest[g].claimed THEN "account" ELSE "guest"
        IN  {guest[g].pending, guest[g].payer, guest[g].receipt}
                \subseteq {"nobody", owner}

\* A paid due has a due payment row, and one that names a guest's payment names
\* one that was completed, claimed and moved to the account.
PaidDueIsBacked ==
    \A d \in paid :
        /\ backer[d] # None
        /\ \A g \in Guests :
              backer[d] = g => guest[g].claimed /\ guest[g].payer = "account"

\* The due of a claimed record is paid if its payment was complete when the
\* claim looked.
ClaimSettlesListed ==
    \A g \in Guests : guest[g].claimed /\ g \notin late => Due[g] \in paid

\* Dues and guests' payments agree both ways.
DuesFollowClaims == PaidDueIsBacked /\ ClaimSettlesListed

\* A due payment row is never replaced, and a row the account owns never goes
\* back, however often a code is submitted (the update filters of the claim).
ClaimIsIdempotent ==
    [][/\ \A d \in Dues : backer[d] # None => backer'[d] = backer[d]
       /\ \A g \in Guests :
             /\ guest[g].claimed => guest'[g].claimed
             /\ guest[g].payer = "account" => guest'[g].payer = "account"
             /\ guest[g].receipt = "account" => guest'[g].receipt = "account"]_vars

\* A code is compared with at most MaxAttempts wrong ones, and one more for
\* each request that was already past the check.
AttemptsBounded ==
    \A i \in Codes :
        /\ code[i].attempts < MaxAttempts + Cardinality(Claimers)

\* Counterexample: what is claimed belongs to the account
\* (docs/guest-dues-payments-frontend.md: the records now belong to the user).
ClaimMovesEverything ==
    \A g \in Guests : guest[g].claimed =>
        "guest" \notin {guest[g].pending, guest[g].payer, guest[g].receipt}

\* Counterexample: a payment the account has claimed settles its due.
ClaimedPaymentSettles ==
    \A g \in Guests : guest[g].payer = "account" => Due[g] \in paid
=============================================================================
