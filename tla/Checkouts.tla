----------------------------- MODULE Checkouts -----------------------------
(***************************************************************************)
(* Paying a due through the provider's checkout: the server keeps a        *)
(* pending payment per attempt, opens a checkout session for it, and       *)
(* records a payment when a webhook or a status poll says the session was  *)
(* paid.                                                                   *)
(*                                                                         *)
(* Workers are the concurrent executions of the server's handlers, as in   *)
(* Withdrawals: what a handler reads and what it later writes are two      *)
(* steps, and with Isolated = TRUE nothing falls between them.             *)
(***************************************************************************)
EXTENDS Integers, FiniteSets

CONSTANTS
    Dues,        \* due assignments, each of one student
    Rows,        \* bound: rows of pending_payments
    Sessions,    \* bound: checkout sessions the provider opens
    Itemised,    \* those whose lookup carries the charge and the amount
    Workers,     \* concurrent handler executions
    None,        \* no row, session or due
    Price,       \* amount of each due
    PlatformFee, \* service fee added to each checkout
    Isolated,    \* TRUE: a read and its commit are not interleaved
    MaxCrashes   \* bound: handlers cut short

ASSUME CheckoutAssumption ==
    /\ Itemised \subseteq Sessions
    /\ Price \in [Dues -> Nat \ {0}]
    /\ PlatformFee \in Nat
    /\ Isolated \in BOOLEAN
    /\ MaxCrashes \in Nat
    /\ None \notin Dues \cup Rows \cup Sessions

\* The wallets a payment credits, each with its ledger account, and the
\* clearing account 1200.
Accounts == {"ORGANIZATION", "PLATFORM", "CLEARING"}

VARIABLES
    \* pending_payments; old rows were created more than 60 minutes ago
    status, due, checkout, old,
    \* payments (by the row whose reference they carry, with the session that
    \* was charged), receipts, due_payments and the balances
    paidBy, receipts, duePayment, balance,
    \* the provider's sessions, the row in their metadata, those whose address
    \* the student was given, and those with a failed or underpaid attempt
    session, rowOf, offered, failedAttempts,
    \* the handlers in progress
    pc, task, crashes

attempts == <<status, due, checkout, old>>
books == <<paidBy, receipts, duePayment, balance>>
provider == <<session, rowOf, offered, failedAttempts>>
handlers == <<pc, task, crashes>>
vars == <<attempts, books, provider, handlers>>

Statuses == {"NONE", "PENDING", "COMPLETED", "FAILED", "EXPIRED", "CANCELLED"}
SessionStates == {"NONE", "OPEN", "PAID", "EXPIRED", "CANCELLED"}
CommitPoints == {"initiateCommit", "completeCommit", "cancelCommit", "pollCommit"}
ProgramPoints == {"idle", "open", "store", "receipt"} \cup CommitPoints

\* What a handler works on and what it has read.
Tasks == [row : Rows \cup {None}, session : Sessions \cup {None},
          due : Dues \cup {None}, verdict : {"EXPIRED", "CANCELLED"},
          seen : [Accounts -> Nat]]
NoTask == [row |-> None, session |-> None, due |-> None,
           verdict |-> "EXPIRED", seen |-> [a \in Accounts |-> 0]]

\* What a payment of due d adds to each balance.
Share(d) == [a \in Accounts |->
    CASE a = "ORGANIZATION" -> Price[d]
      [] a = "PLATFORM" -> PlatformFee
      [] a = "CLEARING" -> Price[d] + PlatformFee]

Continue(k, point, t) ==
    /\ pc' = [pc EXCEPT ![k] = point]
    /\ task' = [task EXCEPT ![k] = t]

Finish(k) == Continue(k, "idle", NoTask)

Calm == \A k \in Workers : pc[k] \notin CommitPoints
MayRun(k) == Isolated => \A o \in Workers \ {k} : pc[o] \notin CommitPoints

----------------------------------------------------------------------------
(* initiatePayment *)

Active(d) == {p \in Rows : due[p] = d /\ status[p] = "PENDING"}
Unused == {p \in Rows : status[p] = "NONE"}

\* The reads: an unpaid due; its active attempt, if any, is reused when it has
\* no checkout yet, closed when it is old or its checkout is, and otherwise
\* returned or reported as in progress without a change.
Initiate(k, d) ==
    /\ pc[k] = "idle"
    /\ duePayment[d] = None
    /\ \/ /\ Active(d) = {}
          /\ Continue(k, "initiateCommit", [NoTask EXCEPT !.due = d])
       \/ \E e \in Active(d) :
            \/ /\ e \in old
               /\ Continue(k, "initiateCommit",
                           [NoTask EXCEPT !.due = d, !.row = e])
            \/ /\ e \notin old
               /\ checkout[e] = None
               /\ Continue(k, "open", [NoTask EXCEPT !.row = e])
            \/ /\ e \notin old
               /\ checkout[e] # None
               /\ session[checkout[e]] \in {"EXPIRED", "CANCELLED"}
               /\ Continue(k, "initiateCommit",
                           [NoTask EXCEPT !.due = d, !.row = e,
                                          !.verdict = session[checkout[e]]])
    /\ UNCHANGED <<attempts, books, provider, crashes>>

\* The statuses once the attempt that was read is closed, whatever it is now.
Closed(t) == IF t.row = None THEN status ELSE [status EXCEPT ![t.row] = t.verdict]

\* Mutant: the partial unique index is missing.
NoRival(t) == TRUE

\* The partial unique index: one PENDING row per due.
IndexAllows(t) ==
    \A p \in Rows : due[p] = t.due => Closed(t)[p] # "PENDING"

\* The writes: the attempt that was read is closed and a new one created.
InitiateCommit(k) ==
    /\ pc[k] = "initiateCommit"
    /\ IndexAllows(task[k])
    /\ \E p \in Unused :
          /\ status' = [Closed(task[k]) EXCEPT ![p] = "PENDING"]
          /\ due' = [due EXCEPT ![p] = task[k].due]
          /\ Continue(k, "open", [NoTask EXCEPT !.row = p])
    /\ UNCHANGED <<checkout, old, books, provider, crashes>>

\* P2002 on the index: 409 PAYMENT_ALREADY_IN_PROGRESS.
InitiateConflict(k) ==
    /\ pc[k] = "initiateCommit"
    /\ ~IndexAllows(task[k]) \/ Unused = {}
    /\ Finish(k)
    /\ UNCHANGED <<attempts, books, provider, crashes>>

\* createCheckoutSession after the commit: the provider opens a session or
\* refuses; the answer may be lost on its way back.
OpenSession(k) ==
    /\ pc[k] = "open"
    /\ \/ \E c \in Sessions :
            /\ session[c] = "NONE"
            /\ session' = [session EXCEPT ![c] = "OPEN"]
            /\ rowOf' = [rowOf EXCEPT ![c] = task[k].row]
            /\ \/ Continue(k, "store", [task[k] EXCEPT !.session = c])
               \/ Finish(k)
            /\ UNCHANGED <<offered, failedAttempts>>
       \/ /\ Finish(k)
          /\ UNCHANGED provider
    /\ UNCHANGED <<attempts, books, crashes>>

\* The row gets the checkout id, whatever it holds by now, and the student the
\* address of the checkout.
StoreCheckout(k) ==
    /\ pc[k] = "store"
    /\ checkout' = [checkout EXCEPT ![task[k].row] = task[k].session]
    /\ offered' = offered \cup {task[k].session}
    /\ Finish(k)
    /\ UNCHANGED <<status, due, old, books, session, rowOf, failedAttempts, crashes>>

----------------------------------------------------------------------------
(* completePayment *)

\* Mutant: the webhook's word is taken for the provider's.
CompleteUnverified(k, c) ==
    LET p == rowOf[c]
    IN  /\ p # None
        /\ paidBy[p] = None
        /\ status[p] = "PENDING"
        /\ checkout[p] \in {None, c}
        /\ Continue(k, "completeCommit",
                    [NoTask EXCEPT !.row = p, !.session = c, !.seen = balance])
        /\ UNCHANGED <<attempts, books, provider, crashes>>

\* The reads, for a session the provider reports as paid.  The row is found by
\* checkout id or by the metadata the session was opened with.  A payment that
\* exists is only given its receipt; a checkout that is not the row's is
\* refused.
CompleteRead(k, c) ==
    LET p == rowOf[c]
    IN  /\ session[c] = "PAID"
        /\ \/ /\ paidBy[p] # None
              /\ p \notin receipts
              /\ Continue(k, "receipt", [NoTask EXCEPT !.row = p])
           \/ /\ paidBy[p] = None
              /\ status[p] = "PENDING"
              /\ checkout[p] \in {None, c}
              /\ Continue(k, "completeCommit",
                          [NoTask EXCEPT !.row = p, !.session = c,
                                         !.seen = balance])
        /\ UNCHANGED <<attempts, books, provider, crashes>>

\* Mutant: the due is settled only by an attempt that is still pending.
DueOfPendingOnly(p) ==
    IF duePayment[due[p]] = None /\ status[p] = "PENDING"
      THEN [duePayment EXCEPT ![due[p]] = p] ELSE duePayment

\* The due is settled by the first payment that reaches it.  It is read after
\* the wallet's row lock is taken, hence as it is at the commit.
SettleDue(p) ==
    IF duePayment[due[p]] = None
      THEN [duePayment EXCEPT ![due[p]] = p] ELSE duePayment

\* Mutants: the balances are lowered, as a credit line lowers them elsewhere,
\* or raised by the settled amount, fee included.
LoweredBalances(k, d) == [a \in Accounts |-> task[k].seen[a] - Share(d)[a]]
GrossShare(k, d) == [a \in Accounts |-> task[k].seen[a] + Share(d)["CLEARING"]]

\* Wallets and accounts are overwritten with the balance read plus the share.
Credited(k, d) == [a \in Accounts |-> task[k].seen[a] + Share(d)[a]]

CompleteCommit(k) ==
    LET p == task[k].row
    IN  /\ pc[k] = "completeCommit"
        /\ paidBy[p] = None
        /\ balance' = Credited(k, due[p])
        /\ paidBy' = [paidBy EXCEPT ![p] = task[k].session]
        /\ duePayment' = SettleDue(p)
        /\ status' = [status EXCEPT ![p] = "COMPLETED"]
        /\ Continue(k, "receipt", [NoTask EXCEPT !.row = p])
        /\ UNCHANGED <<due, checkout, old, receipts, provider, crashes>>

\* P2002 on the unique reference: the payment has been recorded meanwhile.  A
\* webhook fails and is sent again; a poll goes on to the receipt.
CompleteConflict(k) ==
    /\ pc[k] = "completeCommit"
    /\ paidBy[task[k].row] # None
    /\ \/ Finish(k)
       \/ /\ task[k].row \notin receipts
          /\ Continue(k, "receipt", [NoTask EXCEPT !.row = task[k].row])
    /\ UNCHANGED <<attempts, books, provider, crashes>>

\* The listener issues the receipt; a failure is only logged.
IssueReceipt(k) ==
    /\ pc[k] = "receipt"
    /\ \/ receipts' = receipts \cup {task[k].row}
       \/ UNCHANGED receipts
    /\ Finish(k)
    /\ UNCHANGED <<attempts, paidBy, duePayment, balance, provider, crashes>>

----------------------------------------------------------------------------
(* Webhooks, polls and cancellations *)

\* checkout.completed (which looks the session up) and collection.succeeded.
SucceededWebhook(k, c) ==
    /\ pc[k] = "idle"
    /\ CompleteRead(k, c)

\* Mutant: a failed attempt makes the row pending again, for a retry.
FailedReopens(c) ==
    /\ Isolated => Calm
    /\ c \in failedAttempts
    /\ checkout[rowOf[c]] = c
    /\ status' = [status EXCEPT ![rowOf[c]] = "PENDING"]
    /\ UNCHANGED <<due, checkout, old, books, provider, handlers>>

\* collection.failed and collection.underpaid: the row with this checkout is
\* FAILED, whatever it was.
FailedWebhook(c) ==
    /\ Isolated => Calm
    /\ c \in failedAttempts
    /\ checkout[rowOf[c]] = c
    /\ status' = [status EXCEPT ![rowOf[c]] = "FAILED"]
    /\ UNCHANGED <<due, checkout, old, books, provider, handlers>>

\* checkout.expired: likewise.
ExpiredWebhook(c) ==
    /\ Isolated => Calm
    /\ session[c] = "EXPIRED"
    /\ checkout[rowOf[c]] = c
    /\ status' = [status EXCEPT ![rowOf[c]] = "EXPIRED"]
    /\ UNCHANGED <<due, checkout, old, books, provider, handlers>>

\* Mutant: a paid session is left to the webhook.
PollLooksAtOpenOnly(k, p) ==
    /\ pc[k] = "idle"
    /\ status[p] = "PENDING"
    /\ checkout[p] # None
    /\ session[checkout[p]] \in {"EXPIRED", "CANCELLED"}
    /\ Continue(k, "pollCommit",
                [NoTask EXCEPT !.row = p, !.verdict = session[checkout[p]]])
    /\ UNCHANGED <<attempts, books, provider, crashes>>

\* getPendingPaymentStatus: a pending attempt is compared with its session,
\* and a payment without a receipt is given one.  A session that was paid but
\* is looked up without its charge or amount is left to the webhook.
Poll(k, p) ==
    /\ pc[k] = "idle"
    /\ \/ /\ status[p] = "PENDING"
          /\ checkout[p] # None
          /\ \/ /\ checkout[p] \in Itemised
                /\ CompleteRead(k, checkout[p])
             \/ /\ session[checkout[p]] \in {"EXPIRED", "CANCELLED"}
                /\ Continue(k, "pollCommit",
                            [NoTask EXCEPT !.row = p,
                                           !.verdict = session[checkout[p]]])
                /\ UNCHANGED <<attempts, books, provider, crashes>>
       \/ /\ status[p] # "PENDING"
          /\ paidBy[p] # None
          /\ p \notin receipts
          /\ Continue(k, "receipt", [NoTask EXCEPT !.row = p])
          /\ UNCHANGED <<attempts, books, provider, crashes>>

PollCommit(k) ==
    LET p == task[k].row
    IN  /\ pc[k] = "pollCommit"
        /\ status' = [status EXCEPT ![p] = task[k].verdict]
        /\ IF paidBy[p] # None /\ p \notin receipts
             THEN Continue(k, "receipt", [NoTask EXCEPT !.row = p])
             ELSE Finish(k)
        /\ UNCHANGED <<due, checkout, old, books, provider, crashes>>

\* cancelPendingPayment: the status is read, then overwritten; the provider
\* is not told.
CancelRead(k, p) ==
    /\ pc[k] = "idle"
    /\ status[p] = "PENDING"
    /\ Continue(k, "cancelCommit", [NoTask EXCEPT !.row = p])
    /\ UNCHANGED <<attempts, books, provider, crashes>>

CancelCommit(k) ==
    /\ pc[k] = "cancelCommit"
    /\ status' = [status EXCEPT ![task[k].row] = "CANCELLED"]
    /\ Finish(k)
    /\ UNCHANGED <<due, checkout, old, books, provider, crashes>>

----------------------------------------------------------------------------
(* Environment: the student at the provider's page, time, crashes *)

\* A session is paid in full once, or lapses; attempts may fail before.  Only
\* a student who has its address can use it.
Pay(c) ==
    /\ session[c] = "OPEN"
    /\ c \in offered
    /\ session' = [session EXCEPT ![c] = "PAID"]
    /\ UNCHANGED <<attempts, books, rowOf, offered, failedAttempts, handlers>>

AttemptFails(c) ==
    /\ session[c] = "OPEN"
    /\ c \in offered
    /\ failedAttempts' = failedAttempts \cup {c}
    /\ UNCHANGED <<attempts, books, session, rowOf, offered, handlers>>

Lapse(c) ==
    /\ session[c] = "OPEN"
    /\ \E s \in {"EXPIRED", "CANCELLED"} :
          session' = [session EXCEPT ![c] = s]
    /\ UNCHANGED <<attempts, books, rowOf, offered, failedAttempts, handlers>>

\* Sixty minutes pass since the row was created.
Age(p) ==
    /\ status[p] = "PENDING"
    /\ p \notin old
    /\ old' = old \cup {p}
    /\ UNCHANGED <<status, due, checkout, books, provider, handlers>>

Crash(k) ==
    /\ pc[k] # "idle"
    /\ crashes < MaxCrashes
    /\ crashes' = crashes + 1
    /\ Finish(k)
    /\ UNCHANGED <<attempts, books, provider>>

----------------------------------------------------------------------------
Init ==
    /\ status = [p \in Rows |-> "NONE"]
    /\ due = [p \in Rows |-> None]
    /\ checkout = [p \in Rows |-> None]
    /\ old = {}
    /\ paidBy = [p \in Rows |-> None]
    /\ receipts = {}
    /\ duePayment = [d \in Dues |-> None]
    /\ balance = [a \in Accounts |-> 0]
    /\ session = [c \in Sessions |-> "NONE"]
    /\ rowOf = [c \in Sessions |-> None]
    /\ offered = {}
    /\ failedAttempts = {}
    /\ pc = [k \in Workers |-> "idle"]
    /\ task = [k \in Workers |-> NoTask]
    /\ crashes = 0

\* The steps of a handler that is under way.
Proceed(k) ==
    \/ InitiateCommit(k) \/ InitiateConflict(k)
    \/ OpenSession(k) \/ StoreCheckout(k)
    \/ CompleteCommit(k) \/ CompleteConflict(k) \/ IssueReceipt(k)
    \/ PollCommit(k) \/ CancelCommit(k)

\* The calls that start one.
Start(k) ==
    \/ \E d \in Dues : Initiate(k, d)
    \/ \E c \in Sessions : SucceededWebhook(k, c)
    \/ \E p \in Rows : Poll(k, p) \/ CancelRead(k, p)

Environment ==
    \/ \E c \in Sessions :
          \/ FailedWebhook(c) \/ ExpiredWebhook(c)
          \/ Pay(c) \/ AttemptFails(c) \/ Lapse(c)
    \/ \E p \in Rows : Age(p)

Next ==
    \/ \E k \in Workers : MayRun(k) /\ (Proceed(k) \/ Start(k) \/ Crash(k))
    \/ Environment

Spec == Init /\ [][Next]_vars

\* The event loop resumes every handler, and while an attempt is pending the
\* client polls it every few seconds.
PollPending(p) ==
    status[p] = "PENDING" /\ \E k \in Workers : MayRun(k) /\ Poll(k, p)

FairSpec ==
    /\ Spec
    /\ \A k \in Workers : WF_vars(MayRun(k) /\ Proceed(k))
    /\ \A p \in Rows : SF_vars(PollPending(p))

----------------------------------------------------------------------------
(* Properties *)

TypeOK ==
    /\ status \in [Rows -> Statuses]
    /\ due \in [Rows -> Dues \cup {None}]
    /\ checkout \in [Rows -> Sessions \cup {None}]
    /\ old \subseteq Rows
    /\ paidBy \in [Rows -> Sessions \cup {None}]
    /\ receipts \subseteq Rows
    /\ duePayment \in [Dues -> Rows \cup {None}]
    /\ balance \in [Accounts -> Nat]
    /\ session \in [Sessions -> SessionStates]
    /\ rowOf \in [Sessions -> Rows \cup {None}]
    /\ offered \subseteq Sessions
    /\ failedAttempts \subseteq Sessions
    /\ pc \in [Workers -> ProgramPoints]
    /\ task \in [Workers -> Tasks]
    /\ crashes \in Nat

\* A due has at most one pending attempt, however initiations overlap each
\* other and the closing of an earlier attempt.
OneActiveAttempt == \A d \in Dues : \A p, q \in Active(d) : p = q

\* No organisation is credited without money: every recorded payment was
\* charged on a paid session opened for its own row.
PaymentIsFunded ==
    \A p \in Rows : paidBy[p] # None =>
        session[paidBy[p]] = "PAID" /\ rowOf[paidBy[p]] = p

\* A due shows as paid exactly when a payment for it has been recorded,
\* whatever happened to the attempt's status in between.
DueFollowsPayments ==
    \A d \in Dues :
        /\ duePayment[d] # None =>
              due[duePayment[d]] = d /\ paidBy[duePayment[d]] # None
        /\ duePayment[d] = None => \A p \in Rows : due[p] = d => paidBy[p] = None

\* A due that is paid has no attempt that could still be completed.
NoAttemptForPaidDue ==
    \A p \in Rows : status[p] = "PENDING" => duePayment[due[p]] = None

\* What the completions promise together: a due is collected once, and each
\* collection adds its share to every balance.
Collection == INSTANCE DueCollection
                WITH collected <- {d \in Dues : duePayment[d] # None}
ImplementsCollection == Collection!Spec

\* An attempt that waits for session c, which has been paid.
Awaits(p, c) == status[p] = "PENDING" /\ checkout[p] = c /\ session[c] = "PAID"

\* An attempt whose session has been paid does not wait for good, though every
\* webhook be lost: polling records the payment, unless the attempt is closed
\* or given another session first.  It holds of the sessions whose lookup
\* carries the charge; the others depend on the webhook.
AwaitedPaymentIsRecorded ==
    \A p \in Rows, c \in Itemised :
        Awaits(p, c) ~> (paidBy[p] = c \/ status[p] # "PENDING" \/ checkout[p] # c)
AwaitedIsAlwaysRecorded ==
    \A p \in Rows, c \in Sessions :
        Awaits(p, c) ~> (paidBy[p] = c \/ status[p] # "PENDING" \/ checkout[p] # c)

----------------------------------------------------------------------------
(* What the documentation says and the code does not keep *)

\* "FAILED: Payment failed. No successful payment was recorded."
FailedHasNoPayment == \A p \in Rows : status[p] = "FAILED" => paidBy[p] = None

\* "CANCELLED: The checkout was cancelled": it can no longer be paid.
CancelledIsClosed ==
    \A p \in Rows : status[p] = "CANCELLED" /\ checkout[p] # None
        => session[checkout[p]] # "OPEN"

\* "Prevent two simultaneous requests from opening separate checkout sessions
\* for the same due": no attempt has two sessions the student can pay.
OneSessionPerRow ==
    \A c, b \in offered :
        session[c] = "OPEN" /\ session[b] = "OPEN" /\ rowOf[c] = rowOf[b] => c = b

\* "prevents concurrent checkout/webhook requests from recording a second
\* payment for the same student's due".
OnePaymentPerDue ==
    \A p, q \in Rows :
        paidBy[p] # None /\ paidBy[q] # None /\ due[p] = due[q] => p = q

\* "Non-2xx tells the provider to retry transient failures and keeps
\* reconciliation possible": money that was charged ends up recorded.
ChargedIsRecorded ==
    \A c \in Sessions :
        session[c] = "PAID" ~> \E p \in Rows : paidBy[p] = c

\* The journal line of a payment of due d on each account; reconcileAccounts
\* adds debits and subtracts credits.
SignedLine(d, a) == IF a = "CLEARING" THEN Share(d)[a] ELSE 0 - Share(d)[a]

\* "isReconciled": an account's balance is the sum of its posted lines (here:
\* of an organisation none or one of whose dues has been paid).
LedgerReconciles ==
    \A a \in Accounts, p \in Rows :
        {q \in Rows : paidBy[q] # None} = {p}
            => balance[a] = SignedLine(due[p], a)

=============================================================================
