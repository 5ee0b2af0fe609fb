---------------------------- MODULE Withdrawals ----------------------------
(***************************************************************************)
(* The withdrawal flow of the finance module: a request reserves funds on  *)
(* a wallet, a settlement debits the wallet and posts a journal entry, a   *)
(* payout is submitted to the provider, and webhooks or the reconciliation *)
(* cron move the withdrawal to its final status.                           *)
(*                                                                         *)
(* Workers are the concurrent executions of the server's handlers.  A      *)
(* handler that reads rows and later writes values computed from them is   *)
(* two steps, "...Read" and "...Commit": PostgreSQL's READ COMMITTED lets  *)
(* other transactions commit in between, while the row locks of the first  *)
(* write make the writes of one transaction atomic.  With Isolated = TRUE  *)
(* no step of another worker falls between the two.                        *)
(***************************************************************************)
EXTENDS Integers, FiniteSetsExt

CONSTANTS
    Withdrawals,   \* withdrawal ids
    Workers,       \* concurrent handler executions
    Kind,          \* metadata.type of each withdrawal
    Amount,        \* principal of each withdrawal
    Charge,        \* fee computed when the withdrawal is requested
    Opening,       \* opening balance of each wallet
    ProviderFees,  \* fees the provider may report for a payout
    Isolated,      \* TRUE: a read and its commit are not interleaved
    MaxDeliveries, \* bound: deliveries of one webhook event
    MaxCrashes,    \* bound: handlers cut short
    MaxCredits     \* bound: one-kobo deposits to a wallet meanwhile

Kinds == {"USER", "ORGANIZATION", "PLATFORM"}
Events == {"created", "paid", "failed"}
Endpoints == {"user", "platform"}

ASSUME ConstantsAssumption ==
    /\ Withdrawals # {}
    /\ Kind \in [Withdrawals -> Kinds]
    /\ Amount \in [Withdrawals -> Nat]
    /\ Charge \in [Withdrawals -> Nat]
    /\ Opening \in [Kinds -> Nat]
    /\ ProviderFees \subseteq Nat
    /\ Isolated \in BOOLEAN
    /\ MaxDeliveries \in Nat
    /\ MaxCrashes \in Nat
    /\ MaxCredits \in Nat

VARIABLES
    \* the withdrawals table (and the wallet_holds and journal rows of each)
    status, fee, recorded, allocated, platformFee, hold, journal, lineAmount,
    feeJournal,
    \* the wallets and the ledger accounts; clearing is account 1100
    balance, heldBalance, account, clearing, credits,
    \* the payout provider and the events it has sent
    payout, payoutFee, sent, delivered,
    \* the handlers in progress
    pc, on, endpoint, seen, crashes,
    \* history: withdrawals whose fee was corrected after their refund
    late

rows == <<status, fee, recorded, allocated, platformFee, hold, journal,
          lineAmount, feeJournal>>
money == <<balance, heldBalance, account, clearing>>
provider == <<payout, payoutFee, sent, delivered>>
handlers == <<pc, on, endpoint, seen, crashes>>
vars == <<rows, money, credits, late, provider, handlers>>

Statuses == {"NEW", "PENDING", "PROCESSING", "COMPLETED", "FAILED"}
EntryStatuses == {"NONE", "POSTED", "REVERSED"}
CommitPoints == {"settleCommit", "recordCommit", "compensateCommit",
                 "rejectCommit", "paidCommit", "failedCommit", "createdCommit"}
ProgramPoints == {"idle", "settle", "submit", "record", "compensate",
                  "paid", "failed"} \cup CommitPoints

\* What a handler remembers of the rows it has read.
Snapshots == [status : Statuses, fee : Nat, allocated : BOOLEAN,
              platformFee : Nat, balance : Int, held : Nat, account : Int,
              clearing : Int]

\* Mutant: Math.max(0, ...) forgotten.
UnclampedNonNegative(n) == n

NonNegative(n) == IF n < 0 THEN 0 ELSE n

\* The wallet of a withdrawal is the one of its owner's kind.
Total(w) == Amount[w] + fee[w]
SeenTotal(k) == Amount[on[k]] + seen[k].fee

\* The rows a handler of withdrawal w reads: the withdrawal with its wallet.
\* The ledger accounts are those whose balance createJournalEntry overwrites.
Read(w, acct) ==
    [status |-> status[w], fee |-> fee[w], allocated |-> allocated[w],
     platformFee |-> platformFee[w], balance |-> balance[Kind[w]],
     held |-> heldBalance[Kind[w]], account |-> account[acct],
     clearing |-> clearing]

Goto(k, point) == pc' = [pc EXCEPT ![k] = point]

\* A finished handler forgets what it read.
EmptySnapshot == [status |-> "NEW", fee |-> 0, allocated |-> FALSE,
                  platformFee |-> 0, balance |-> 0, held |-> 0,
                  account |-> 0, clearing |-> 0]
SomeWithdrawal == CHOOSE w \in Withdrawals : TRUE

Finish(k) ==
    /\ Goto(k, "idle")
    /\ on' = [on EXCEPT ![k] = SomeWithdrawal]
    /\ endpoint' = [endpoint EXCEPT ![k] = "user"]
    /\ seen' = [seen EXCEPT ![k] = EmptySnapshot]

\* In an isolated schedule no other handler is between a read and its commit.
MayRun(k) == Isolated => \A o \in Workers \ {k} : pc[o] \notin CommitPoints

----------------------------------------------------------------------------
(* Requests, approvals and rejections *)

\* requestUserWithdrawal, requestOrganizationWithdrawal and
\* requestPlatformWithdrawal: the wallet row is locked with FOR UPDATE, so the
\* check and the reservation are one step.  Organization and platform
\* withdrawals go on to their settlement in the same call.
Request(k, w) ==
    /\ pc[k] = "idle"
    /\ status[w] = "NEW"
    /\ balance[Kind[w]] - heldBalance[Kind[w]] >= Amount[w] + Charge[w]
    /\ status' = [status EXCEPT ![w] = "PENDING"]
    /\ hold' = [hold EXCEPT ![w] = "ACTIVE"]
    /\ heldBalance' = [heldBalance EXCEPT ![Kind[w]] = @ + Amount[w] + Charge[w]]
    /\ IF Kind[w] = "USER"
         THEN UNCHANGED <<pc, on, endpoint>>
         ELSE /\ Goto(k, "settle")
              /\ on' = [on EXCEPT ![k] = w]
              /\ endpoint' = [endpoint EXCEPT ![k] =
                     IF Kind[w] = "PLATFORM" THEN "platform" ELSE "user"]
    /\ UNCHANGED <<fee, recorded, allocated, platformFee, journal, lineAmount,
                   feeJournal, balance, account, clearing, credits, late, provider,
                   seen, crashes>>

\* The read half of settleWithdrawal and of approvePlatformWithdrawal.
SettleRead(k, w, e) ==
    /\ status[w] = "PENDING"
    /\ Goto(k, "settleCommit")
    /\ on' = [on EXCEPT ![k] = w]
    /\ endpoint' = [endpoint EXCEPT ![k] = e]
    /\ seen' = [seen EXCEPT ![k] = Read(w, Kind[w])]
    /\ UNCHANGED <<rows, money, credits, late, provider, crashes>>

\* The settlement a request goes on to; it stops if the row is not PENDING.
SettleOwn(k) ==
    /\ pc[k] = "settle"
    /\ \/ SettleRead(k, on[k], endpoint[k])
       \/ /\ status[on[k]] # "PENDING"
          /\ Finish(k)
          /\ UNCHANGED <<rows, money, credits, late, provider, crashes>>

\* An administrator approves: neither endpoint checks the withdrawal's type.
Approve(k, w, e) ==
    /\ pc[k] = "idle"
    /\ SettleRead(k, w, e)

\* The hold rows an endpoint's "reason contains" filter matches: only a
\* platform withdrawal's hold says "Platform withdrawal request #".
ReleasesHold(e, w) == (e = "platform") <=> (Kind[w] = "PLATFORM")

\* Mutant: an entry is reused although it has been reversed.
ReversedEntryIsReused(w, total) ==
    journal[w] # "NONE" /\ lineAmount[w] # total

\* createOrReuseWithdrawalJournal: a missing entry is created, a posted entry
\* with the same lines is reused, anything else aborts the settlement.
JournalConflict(w, total) ==
    /\ journal[w] # "NONE"
    /\ ~(journal[w] = "POSTED" /\ lineAmount[w] = total)

\* Mutant: the journal is left to the payout webhook.
JournalIsLeftOut(k, w, total) ==
    UNCHANGED <<journal, lineAmount, account, clearing>>

\* createJournalEntry overwrites each account with the balance it read, plus
\* or minus the line.
PostJournal(k, w, total) ==
    IF journal[w] = "NONE"
      THEN /\ journal' = [journal EXCEPT ![w] = "POSTED"]
           /\ lineAmount' = [lineAmount EXCEPT ![w] = total]
           /\ account' = [account EXCEPT ![Kind[w]] = seen[k].account - total]
           /\ clearing' = seen[k].clearing + total
      ELSE UNCHANGED <<journal, lineAmount, account, clearing>>

\* The write half of the settlement: status, journal, hold, and the absolute
\* write of both wallet balances from the values read.
SettleCommit(k) ==
    LET w == on[k]
        total == SeenTotal(k)
    IN  /\ pc[k] = "settleCommit"
        /\ ~JournalConflict(w, total)
        /\ status' = [status EXCEPT ![w] = "PROCESSING"]
        /\ PostJournal(k, w, total)
        /\ hold' = IF ReleasesHold(endpoint[k], w)
                     THEN [hold EXCEPT ![w] = "RELEASED"]
                     ELSE hold
        /\ balance' = [balance EXCEPT ![Kind[w]] = seen[k].balance - total]
        /\ heldBalance' = [heldBalance EXCEPT ![Kind[w]] =
                             NonNegative(seen[k].held - total)]
        /\ Goto(k, "submit")
        /\ UNCHANGED <<fee, recorded, allocated, platformFee, feeJournal,
                       credits, late, provider, on, endpoint, seen, crashes>>

\* A journal conflict rolls the settlement back.
SettleRollback(k) ==
    /\ pc[k] = "settleCommit"
    /\ JournalConflict(on[k], SeenTotal(k))
    /\ Finish(k)
    /\ UNCHANGED <<rows, money, credits, late, provider, crashes>>

\* rejectUserWithdrawal.
RejectRead(k, w) ==
    /\ pc[k] = "idle"
    /\ status[w] = "PENDING"
    /\ Goto(k, "rejectCommit")
    /\ on' = [on EXCEPT ![k] = w]
    /\ seen' = [seen EXCEPT ![k] = Read(w, Kind[w])]
    /\ UNCHANGED <<rows, money, credits, late, provider, endpoint, crashes>>

\* Mutant: the rejection releases the hold but not the held balance.
RejectionKeepsHeld(k) ==
    /\ pc[k] = "rejectCommit"
    /\ status' = [status EXCEPT ![on[k]] = "FAILED"]
    /\ hold' = [hold EXCEPT ![on[k]] = "RELEASED"]
    /\ Finish(k)
    /\ UNCHANGED <<fee, recorded, allocated, platformFee, journal, lineAmount,
                   feeJournal, money, credits, late, provider, crashes>>

RejectCommit(k) ==
    LET w == on[k]
    IN  /\ pc[k] = "rejectCommit"
        /\ status' = [status EXCEPT ![w] = "FAILED"]
        /\ hold' = [hold EXCEPT ![w] = "RELEASED"]
        /\ heldBalance' = [heldBalance EXCEPT ![Kind[w]] =
                             NonNegative(seen[k].held - SeenTotal(k))]
        /\ Finish(k)
        /\ UNCHANGED <<fee, recorded, allocated, platformFee, journal,
                       lineAmount, feeJournal, balance, account, clearing,
                       credits, late, provider, crashes>>

----------------------------------------------------------------------------
(* triggerWithdrawalTransfer and its compensation *)

\* createPayout under the key "withdrawal-<id>": the first accepted call makes
\* the payout, later calls return it.  A provider may refuse it outright.
AcceptPayout(w) ==
    IF payout[w] = "NONE"
      THEN /\ \E decision \in {"PENDING", "FAILED"}, f \in ProviderFees :
                /\ payout' = [payout EXCEPT ![w] = decision]
                /\ payoutFee' = [payoutFee EXCEPT ![w] = f]
                /\ sent' = sent \cup
                      {<<w, IF decision = "FAILED" THEN "failed" ELSE "created">>}
           /\ UNCHANGED delivered
      ELSE UNCHANGED provider

\* The submission reads the withdrawal and calls the provider.  The answer is
\* a payout, a failed payout, or an error; an error may hide an acceptance
\* (the client gives up after 20 seconds).
Submit(k) ==
    LET w == on[k]
    IN  /\ pc[k] = "submit"
        /\ seen' = [seen EXCEPT ![k] = Read(w, "PLATFORM")]
        /\ \/ /\ AcceptPayout(w)
              /\ Goto(k, IF payout'[w] = "FAILED" THEN "compensate" ELSE "record")
           \/ /\ AcceptPayout(w)
              /\ Goto(k, "compensate")
           \/ /\ UNCHANGED provider
              /\ Goto(k, "compensate")
        /\ UNCHANGED <<rows, money, credits, late, on, endpoint, crashes>>

\* The recording transaction reads the accounts of the fee entry.
RecordRead(k) ==
    /\ pc[k] = "record"
    /\ seen' = [seen EXCEPT ![k].account = account["PLATFORM"],
                            ![k].clearing = clearing]
    /\ Goto(k, "recordCommit")
    /\ UNCHANGED <<rows, money, credits, late, provider, on, endpoint, crashes>>

\* An organisation's fee is split: what the provider did not take is the
\* platform's, moved once per withdrawal out of the clearing account.
RecordOrganizationPayout(k, w) ==
    LET share == NonNegative(seen[k].fee - payoutFee[w])
        allocates == share > 0 /\ ~seen[k].allocated
    IN  /\ IF allocates
             THEN /\ account' = [account EXCEPT !["PLATFORM"] =
                                    seen[k].account + share]
                  /\ clearing' = seen[k].clearing - share
                  /\ balance' = [balance EXCEPT !["PLATFORM"] = @ + share]
                  /\ feeJournal' = [feeJournal EXCEPT ![w] = "POSTED"]
             ELSE UNCHANGED <<account, clearing, balance, feeJournal>>
        /\ allocated' = [allocated EXCEPT ![w] = TRUE]
        /\ platformFee' = [platformFee EXCEPT ![w] = share]
        /\ UNCHANGED <<fee, lineAmount>>

\* Other withdrawals pay what the provider charged: the difference moves
\* between wallet and clearing account, and the journal lines are rewritten.
RecordOtherPayout(k, w) ==
    LET difference == payoutFee[w] - seen[k].fee
    IN  /\ balance' = [balance EXCEPT ![Kind[w]] = @ - difference]
        /\ account' = [account EXCEPT ![Kind[w]] = @ - difference]
        /\ clearing' = clearing + difference
        /\ lineAmount' = IF difference # 0
                           THEN [lineAmount EXCEPT ![w] = Amount[w] + payoutFee[w]]
                           ELSE lineAmount
        /\ fee' = [fee EXCEPT ![w] = payoutFee[w]]
        /\ UNCHANGED <<allocated, platformFee, feeJournal>>

RecordCommit(k) ==
    LET w == on[k]
    IN  /\ pc[k] = "recordCommit"
        /\ IF Kind[w] = "ORGANIZATION"
             THEN RecordOrganizationPayout(k, w)
             ELSE RecordOtherPayout(k, w)
        /\ recorded' = [recorded EXCEPT ![w] = TRUE]
        /\ Finish(k)
        /\ late' = IF Kind[w] # "ORGANIZATION" /\ payoutFee[w] # seen[k].fee
                         /\ journal[w] = "REVERSED"
                      THEN late \cup {w}
                      ELSE late
        /\ UNCHANGED <<status, hold, journal, heldBalance, credits, provider, crashes>>

\* The recording transaction fails: the catch block compensates.
RecordFails(k) ==
    /\ pc[k] = "recordCommit"
    /\ crashes < MaxCrashes
    /\ crashes' = crashes + 1
    /\ Goto(k, "compensate")
    /\ UNCHANGED <<rows, money, credits, late, provider, on, endpoint, seen>>

\* What reverseOrganizationWithdrawalPlatformFee takes back, decided by the
\* metadata the caller read.
FeeTakenBack(k) == IF seen[k].allocated THEN seen[k].platformFee ELSE 0

\* Mutant: a refund raises the wallet but leaves its ledger account.
RefundOfWalletOnly(k, w, total) ==
    /\ balance' = [balance EXCEPT ![Kind[w]] = @ + total]
    /\ UNCHANGED <<account, clearing, feeJournal>>

\* Mutant: the platform's share leaves its wallet and account, but is not put
\* back on the clearing account.
ShareDoesNotReturn(k, w, total) ==
    LET back == FeeTakenBack(k)
        Refunded(amounts) ==
            [x \in Kinds |-> amounts[x] + (IF x = Kind[w] THEN total ELSE 0)
                                       - (IF x = "PLATFORM" THEN back ELSE 0)]
    IN  /\ balance' = Refunded(balance)
        /\ account' = Refunded(account)
        /\ clearing' = clearing - total
        /\ feeJournal' = IF back > 0 /\ feeJournal[w] = "POSTED"
                           THEN [feeJournal EXCEPT ![w] = "REVERSED"]
                           ELSE feeJournal

\* A refund gives the total back to the wallet and the platform's share back
\* to the clearing account, in wallets and ledger accounts alike.
Refund(k, w, total) ==
    LET back == FeeTakenBack(k)
        Refunded(amounts) ==
            [x \in Kinds |-> amounts[x] + (IF x = Kind[w] THEN total ELSE 0)
                                       - (IF x = "PLATFORM" THEN back ELSE 0)]
    IN  /\ balance' = Refunded(balance)
        /\ account' = Refunded(account)
        /\ clearing' = clearing - total + back
        /\ feeJournal' = IF back > 0 /\ feeJournal[w] = "POSTED"
                           THEN [feeJournal EXCEPT ![w] = "REVERSED"]
                           ELSE feeJournal

\* Mutant: the entry of a failed withdrawal stays POSTED.
EntryStaysPosted(w) == UNCHANGED journal

\* The journal entry is marked REVERSED; its lines stay.
ReverseJournal(w) ==
    journal' = IF journal[w] = "NONE"
                 THEN journal
                 ELSE [journal EXCEPT ![w] = "REVERSED"]

\* Mutant: the compensation does not look at the status of the row.
CompensateAnyStatus(k) ==
    /\ pc[k] = "compensate"
    /\ IF ~recorded[on[k]]
         THEN /\ Goto(k, "compensateCommit")
              /\ seen' = [seen EXCEPT ![k] = Read(on[k], Kind[on[k]])]
              /\ UNCHANGED <<on, endpoint>>
         ELSE Finish(k)
    /\ UNCHANGED <<rows, money, credits, late, provider, crashes>>

CompensateRead(k) ==
    LET w == on[k]
    IN  /\ pc[k] = "compensate"
        /\ IF status[w] = "PROCESSING" /\ ~recorded[w]
             THEN /\ Goto(k, "compensateCommit")
                  /\ seen' = [seen EXCEPT ![k] = Read(w, Kind[w])]
                  /\ UNCHANGED <<on, endpoint>>
             ELSE Finish(k)
        /\ UNCHANGED <<rows, money, credits, late, provider, crashes>>

\* compensateFailedPayoutSubmission.
CompensateCommit(k) ==
    LET w == on[k]
    IN  /\ pc[k] = "compensateCommit"
        /\ status' = [status EXCEPT ![w] = "FAILED"]
        /\ Refund(k, w, SeenTotal(k))
        /\ ReverseJournal(w)
        /\ Finish(k)
        /\ UNCHANGED <<fee, recorded, allocated, platformFee, hold, lineAmount,
                       heldBalance, credits, late, provider, crashes>>

----------------------------------------------------------------------------
(* Webhooks and the reconciliation cron *)

\* A webhook handler starts on an event the provider has sent.  Events may be
\* lost, delayed, reordered, and delivered again up to MaxDeliveries times.
Deliver(k, w, e) ==
    /\ pc[k] = "idle"
    /\ <<w, e>> \in sent
    /\ delivered[<<w, e>>] < MaxDeliveries
    /\ delivered' = [delivered EXCEPT ![<<w, e>>] = @ + 1]
    /\ on' = [on EXCEPT ![k] = w]
    /\ UNCHANGED <<payout, payoutFee, sent>>

\* The event handlers read the withdrawal outside their transaction.
HandlerRead(k, w, point) ==
    /\ Goto(k, point)
    /\ seen' = [seen EXCEPT ![k] = Read(w, Kind[w])]
    /\ UNCHANGED <<rows, money, credits, late, endpoint, crashes>>

\* Mutants: a paid event completes any row, a created event any but a failed.
PaidAppliesAlways(w) == TRUE
CreatedAppliesToCompleted(w) == status[w] # "FAILED"

\* The guards of handleWithdrawalSucceeded, ...Failed and ...Pending; when
\* one does not hold the handler returns or throws and changes nothing.
PaidApplies(w) == status[w] = "PROCESSING"
FailedApplies(w) == status[w] # "FAILED"
CreatedApplies(w) == status[w] \notin {"COMPLETED", "FAILED"}

PaidWebhook(k, w) ==
    /\ PaidApplies(w)
    /\ Deliver(k, w, "paid")
    /\ HandlerRead(k, w, "paidCommit")

FailedWebhook(k, w) ==
    /\ FailedApplies(w)
    /\ Deliver(k, w, "failed")
    /\ HandlerRead(k, w, "failedCommit")

CreatedWebhook(k, w) ==
    /\ CreatedApplies(w)
    /\ Deliver(k, w, "created")
    /\ HandlerRead(k, w, "createdCommit")

\* Mutant: every payout that has not failed is taken for a paid one.
ReconcileUndecided(k, w) ==
    /\ pc[k] = "idle"
    /\ status[w] = "PROCESSING"
    /\ recorded[w]
    /\ Goto(k, IF payout[w] = "FAILED" THEN "failed" ELSE "paid")
    /\ on' = [on EXCEPT ![k] = w]
    /\ UNCHANGED <<rows, money, credits, late, provider, endpoint, seen, crashes>>

\* Mutant: the cron handles failed payouts only.
ReconcileFailedOnly(k, w) ==
    /\ pc[k] = "idle"
    /\ status[w] = "PROCESSING"
    /\ recorded[w]
    /\ payout[w] = "FAILED"
    /\ Goto(k, "failed")
    /\ on' = [on EXCEPT ![k] = w]
    /\ UNCHANGED <<rows, money, credits, late, provider, endpoint, seen, crashes>>

\* reconcileStaleProcessingWithdrawals: a stale PROCESSING row with a recorded
\* payout is looked up at the provider and handed to the matching handler.
Reconcile(k, w) ==
    /\ pc[k] = "idle"
    /\ status[w] = "PROCESSING"
    /\ recorded[w]
    /\ payout[w] \in {"PAID", "FAILED"}
    /\ Goto(k, IF payout[w] = "PAID" THEN "paid" ELSE "failed")
    /\ on' = [on EXCEPT ![k] = w]
    /\ UNCHANGED <<rows, money, credits, late, provider, endpoint, seen, crashes>>

ReconcileRead(k) ==
    LET w == on[k]
    IN  /\ pc[k] \in {"paid", "failed"}
        /\ IF IF pc[k] = "paid" THEN PaidApplies(w) ELSE FailedApplies(w)
             THEN /\ HandlerRead(k, w, IF pc[k] = "paid" THEN "paidCommit"
                                                         ELSE "failedCommit")
                  /\ UNCHANGED on
             ELSE /\ Finish(k)
                  /\ UNCHANGED <<rows, money, credits, late, crashes>>
        /\ UNCHANGED provider

PaidCommit(k) ==
    /\ pc[k] = "paidCommit"
    /\ status' = [status EXCEPT ![on[k]] = "COMPLETED"]
    /\ Finish(k)
    /\ UNCHANGED <<fee, recorded, allocated, platformFee, hold, journal,
                   lineAmount, feeJournal, money, credits, late, provider, crashes>>

\* handleWithdrawalFailed: the refund depends on the status that was read, the
\* held balance is lowered in any case, and the filter on the hold's reason
\* does not match a platform withdrawal's.
FailedCommit(k) ==
    LET w == on[k]
        debited == seen[k].status = "PROCESSING"
    IN  /\ pc[k] = "failedCommit"
        /\ status' = [status EXCEPT ![w] = "FAILED"]
        /\ hold' = IF ReleasesHold("user", w)
                     THEN [hold EXCEPT ![w] = "RELEASED"]
                     ELSE hold
        /\ Refund(k, w, IF debited THEN SeenTotal(k) ELSE 0)
        /\ heldBalance' = [heldBalance EXCEPT ![Kind[w]] =
                             NonNegative(seen[k].held - SeenTotal(k))]
        /\ ReverseJournal(w)
        /\ Finish(k)
        /\ UNCHANGED <<fee, recorded, allocated, platformFee, lineAmount,
                       credits, late, provider, crashes>>

\* Mutant: the created event puts the row back to PENDING.
CreatedRevertsToPending(k) ==
    /\ pc[k] = "createdCommit"
    /\ status' = [status EXCEPT ![on[k]] = "PENDING"]
    /\ Finish(k)
    /\ UNCHANGED <<fee, recorded, allocated, platformFee, hold, journal,
                   lineAmount, feeJournal, money, credits, late, provider, crashes>>

\* handleWithdrawalPending: back to PROCESSING, whatever the row is by now.
CreatedCommit(k) ==
    /\ pc[k] = "createdCommit"
    /\ status' = [status EXCEPT ![on[k]] = "PROCESSING"]
    /\ Finish(k)
    /\ UNCHANGED <<fee, recorded, allocated, platformFee, hold, journal,
                   lineAmount, feeJournal, money, credits, late, provider, crashes>>

----------------------------------------------------------------------------
(* Environment: the provider, other parts of the server, crashes *)

\* The provider decides a payout once and for all and sends the event.
Decide(w) ==
    /\ payout[w] = "PENDING"
    /\ \/ /\ payout' = [payout EXCEPT ![w] = "PAID"]
          /\ sent' = sent \cup {<<w, "paid">>}
       \/ /\ payout' = [payout EXCEPT ![w] = "FAILED"]
          /\ sent' = sent \cup {<<w, "failed">>}
    /\ UNCHANGED <<rows, money, credits, late, payoutFee, delivered, handlers>>

\* A due payment credits a wallet and its ledger account meanwhile.
Credit(x) ==
    /\ Isolated => \A k \in Workers : pc[k] \notin CommitPoints
    /\ credits[x] < MaxCredits
    /\ credits' = [credits EXCEPT ![x] = @ + 1]
    /\ balance' = [balance EXCEPT ![x] = @ + 1]
    /\ account' = [account EXCEPT ![x] = @ + 1]
    /\ UNCHANGED <<rows, heldBalance, clearing, late, provider, handlers>>

\* A handler ends early: the process stops, or its transaction is aborted
\* (deadlock, timeout) outside a block that compensates.
Crash(k) ==
    /\ pc[k] # "idle"
    /\ crashes < MaxCrashes
    /\ crashes' = crashes + 1
    /\ Finish(k)
    /\ UNCHANGED <<rows, money, credits, late, provider>>

----------------------------------------------------------------------------
Init ==
    /\ status = [w \in Withdrawals |-> "NEW"]
    /\ fee = Charge
    /\ recorded = [w \in Withdrawals |-> FALSE]
    /\ allocated = [w \in Withdrawals |-> FALSE]
    /\ platformFee = [w \in Withdrawals |-> 0]
    /\ hold = [w \in Withdrawals |-> "NONE"]
    /\ journal = [w \in Withdrawals |-> "NONE"]
    /\ lineAmount = [w \in Withdrawals |-> 0]
    /\ feeJournal = [w \in Withdrawals |-> "NONE"]
    /\ balance = Opening
    /\ heldBalance = [x \in Kinds |-> 0]
    /\ account = Opening
    /\ clearing = 0
    /\ credits = [x \in Kinds |-> 0]
    /\ payout = [w \in Withdrawals |-> "NONE"]
    /\ payoutFee = [w \in Withdrawals |-> 0]
    /\ sent = {}
    /\ delivered = [d \in Withdrawals \X Events |-> 0]
    /\ pc = [k \in Workers |-> "idle"]
    /\ on = [k \in Workers |-> SomeWithdrawal]
    /\ endpoint = [k \in Workers |-> "user"]
    /\ seen = [k \in Workers |-> EmptySnapshot]
    /\ crashes = 0
    /\ late = {}

\* The steps of a handler that is under way.
Continue(k) ==
    \/ SettleOwn(k) \/ SettleCommit(k) \/ SettleRollback(k)
    \/ RejectCommit(k)
    \/ Submit(k) \/ RecordRead(k) \/ RecordCommit(k)
    \/ CompensateRead(k) \/ CompensateCommit(k)
    \/ ReconcileRead(k)
    \/ PaidCommit(k) \/ FailedCommit(k) \/ CreatedCommit(k)

\* The calls that start one.
Start(k, w) ==
    \/ Request(k, w)
    \/ \E e \in Endpoints : Approve(k, w, e)
    \/ RejectRead(k, w)
    \/ PaidWebhook(k, w) \/ FailedWebhook(k, w) \/ CreatedWebhook(k, w)
    \/ Reconcile(k, w)

Next ==
    \/ \E k \in Workers :
          /\ MayRun(k)
          /\ \/ Continue(k)
             \/ \E w \in Withdrawals : Start(k, w)
             \/ RecordFails(k)
             \/ Crash(k)
    \/ \E w \in Withdrawals : Decide(w)
    \/ \E x \in Kinds : Credit(x)

Spec == Init /\ [][Next]_vars

\* The event loop resumes every handler, the provider decides every payout,
\* and the cron keeps looking at stale rows (a worker may be busy when it is
\* due, hence strong fairness).
FairSpec ==
    /\ Spec
    /\ \A k \in Workers : WF_vars(MayRun(k) /\ Continue(k))
    /\ \A w \in Withdrawals :
          /\ WF_vars(Decide(w))
          /\ SF_vars(\E k \in Workers : MayRun(k) /\ Reconcile(k, w))

----------------------------------------------------------------------------
(* Properties *)

RowsType ==
    /\ status \in [Withdrawals -> Statuses]
    /\ fee \in [Withdrawals -> Nat]
    /\ recorded \in [Withdrawals -> BOOLEAN]
    /\ allocated \in [Withdrawals -> BOOLEAN]
    /\ platformFee \in [Withdrawals -> Nat]
    /\ hold \in [Withdrawals -> {"NONE", "ACTIVE", "RELEASED"}]
    /\ journal \in [Withdrawals -> EntryStatuses]
    /\ lineAmount \in [Withdrawals -> Nat]
    /\ feeJournal \in [Withdrawals -> EntryStatuses]

MoneyType ==
    /\ balance \in [Kinds -> Int]
    /\ heldBalance \in [Kinds -> Nat]
    /\ account \in [Kinds -> Int]
    /\ clearing \in Int
    /\ credits \in [Kinds -> Nat]

ProviderType ==
    /\ payout \in [Withdrawals -> {"NONE", "PENDING", "PAID", "FAILED"}]
    /\ payoutFee \in [Withdrawals -> Nat]
    /\ sent \subseteq Withdrawals \X Events
    /\ delivered \in [Withdrawals \X Events -> Nat]

HandlersType ==
    /\ pc \in [Workers -> ProgramPoints]
    /\ on \in [Workers -> Withdrawals]
    /\ endpoint \in [Workers -> Endpoints]
    /\ seen \in [Workers -> Snapshots]
    /\ crashes \in Nat
    /\ late \subseteq Withdrawals

\* The type of every variable; a held balance never becomes negative, whatever
\* stale value it is computed from.
TypeOK == RowsType /\ MoneyType /\ ProviderType /\ HandlersType

\* As long as a withdrawal awaits approval its funds are reserved by an active
\* hold and nothing has been journaled, however approvals, rejections and
\* webhooks of the same row overlap.
PendingIsReserved ==
    \A w \in Withdrawals :
        status[w] = "PENDING" => hold[w] = "ACTIVE" /\ journal[w] = "NONE"

\* COMPLETED is only ever written for a payout the provider has paid, whichever
\* of webhook and reconciliation gets there and however late.
CompletedIsPaid ==
    \A w \in Withdrawals : status[w] = "COMPLETED" => payout[w] = "PAID"

\* No payout reaches the provider before the wallet's debit is journaled.
PayoutFollowsDebit ==
    \A w \in Withdrawals : payout[w] # "NONE" => journal[w] # "NONE"

\* A refunded withdrawal is not settled again: an approval that read the row
\* before the refund finds the REVERSED entry and rolls back.
NoSettlementAfterRefund ==
    [][\A w \in Withdrawals :
          journal[w] = "REVERSED" =>
              /\ journal'[w] = "REVERSED"
              /\ \A k \in Workers :
                    ~(pc[k] = "settleCommit" /\ pc'[k] = "submit" /\ on[k] = w)]_vars

\* Every wallet row shows the balance of its ledger account: settlements,
\* refunds, fee corrections and fee allocations move both alike.
WalletMatchesLedger == \A x \in Kinds : balance[x] = account[x]

\* Double entry: wallets' accounts and the clearing account together change
\* only by what is deposited.
LedgerConserved ==
    account["USER"] + account["ORGANIZATION"] + account["PLATFORM"] + clearing
      = Opening["USER"] + Opening["ORGANIZATION"] + Opening["PLATFORM"]
        + credits["USER"] + credits["ORGANIZATION"] + credits["PLATFORM"]

SumOf(f, S) == MapThenSumSet(LAMBDA w : f[w], S)

Posted == {w \in Withdrawals : journal[w] = "POSTED"}
PostedLines(x) == SumOf(lineAmount, {w \in Posted : Kind[w] = x})
PostedFees == SumOf(platformFee, {w \in Withdrawals : feeJournal[w] = "POSTED"})

\* What reconcileAccounts computes: an account's balance is the sum of the lines
\* of the entries that are still POSTED.
AccountReconciles(x) ==
    account[x] = Opening[x] + credits[x] - PostedLines(x)
                   + (IF x = "PLATFORM" THEN PostedFees ELSE 0)
ClearingReconciles == clearing = SumOf(lineAmount, Posted) - PostedFees

\* reconcileAccounts finds nothing to report, unless a failure webhook overtook
\* the recording of its payout: the fee is then corrected on a wallet that has
\* its money back, and the lines that say so belong to a REVERSED entry.
AccountsReconcile ==
    /\ \A x \in Kinds : (\A w \in late : Kind[w] # x) => AccountReconciles(x)
    /\ late = {} => ClearingReconciles

Reserve == [w \in Withdrawals |-> Amount[w] + Charge[w]]
HeldTotal(x) ==
    SumOf(Reserve, {w \in Withdrawals : hold[w] = "ACTIVE" /\ Kind[w] = x})

\* A wallet never holds back more than its active holds account for.
NoPhantomHold == \A x \in Kinds : heldBalance[x] <= HeldTotal(x)

\* The journal entry follows the withdrawal: debited while it is processing or
\* completed, undone exactly when a settled withdrawal fails.
JournalTracksStatus ==
    \A w \in Withdrawals :
        /\ status[w] \in {"PROCESSING", "COMPLETED"} => journal[w] = "POSTED"
        /\ status[w] = "FAILED" => journal[w] # "POSTED"

\* A status shown as terminal is not left, whatever event arrives late.
FinalStatusIsFinal ==
    [][\A w \in Withdrawals :
          status[w] \in {"COMPLETED", "FAILED"} => status'[w] = status[w]]_vars

\* A withdrawal whose payout is recorded is eventually settled one way or the
\* other, even if every webhook is lost and handlers are cut short.
RecordedIsResolved ==
    \A w \in Withdrawals :
        (status[w] = "PROCESSING" /\ recorded[w]) ~> status[w] # "PROCESSING"

\* Where a withdrawal's money is, read off its journal entry and its hold.
Funds(w) ==
    CASE journal[w] = "POSTED" -> "debited"
      [] journal[w] = "REVERSED" -> "returned"
      [] journal[w] = "NONE" -> IF hold[w] = "ACTIVE" THEN "reserved" ELSE "free"

Promise == INSTANCE WithdrawalPromise
             WITH stage <- status, bank <- payout,
                  funds <- [w \in Withdrawals |-> Funds(w)]

\* Handlers that do not fall between each other's reads and writes implement
\* the abstract withdrawal: one debit, no second refund, COMPLETED only when
\* paid, whichever of approval, rejection, webhook, cron and compensation act.
ImplementsPromise == Promise!Spec

----------------------------------------------------------------------------
(* What the documentation says and the code does not keep *)

\* reconcileAccounts finds nothing to report whatever the order of a webhook and
\* the recording of its payout.
AccountsAlwaysReconcile == (\A x \in Kinds : AccountReconciles(x)) /\ ClearingReconciles

PendingTotal(x) ==
    SumOf([w \in Withdrawals |-> Total(w)],
          {w \in Withdrawals : status[w] = "PENDING" /\ Kind[w] = x})

\* "availableBalance excludes funds already held by pending or processing
\* withdrawals": the held balance covers every pending request.
HeldCoversPending == \A x \in Kinds : heldBalance[x] >= PendingTotal(x)

\* "preventing concurrent requests from reserving the same funds": the pending
\* requests of a wallet fit in its balance together.
PendingFitsBalance == \A x \in Kinds : PendingTotal(x) <= balance[x]

\* "FAILED: provider failure confirmed": the provider does not pay a withdrawal
\* that is marked FAILED.
FailedIsNotPaid ==
    \A w \in Withdrawals : status[w] = "FAILED" => payout[w] # "PAID"

\* "If the payout later fails ... Heightt's allocation is reversed": once no
\* handler works on it, a failed withdrawal has no fee entry left posted.
FailedKeepsNoShare ==
    \A w \in Withdrawals :
        status[w] = "FAILED" /\ (\A k \in Workers : pc[k] = "idle")
            => feeJournal[w] # "POSTED"

\* "Idempotent": the platform wallet never falls below its opening balance
\* because one withdrawal's share was taken back twice.
PlatformFeeReversedOnce == balance["PLATFORM"] >= Opening["PLATFORM"]

\* "Organization withdrawals never stay here" (PENDING).
OrganizationLeavesPending ==
    \A w \in Withdrawals :
        (Kind[w] = "ORGANIZATION" /\ status[w] = "PENDING")
            ~> status[w] # "PENDING"

\* "stale processing withdrawals are reconciled ... after five minutes in
\* PROCESSING": none stays there for good.
ProcessingIsReconciled ==
    \A w \in Withdrawals : status[w] = "PROCESSING" ~> status[w] # "PROCESSING"

=============================================================================
