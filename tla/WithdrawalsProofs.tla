------------------------- MODULE WithdrawalsProofs -------------------------
(***************************************************************************)
(* Theorems about Withdrawals, for every set of withdrawals and workers,   *)
(* every amount, fee and opening balance, and every bound.                 *)
(***************************************************************************)
EXTENDS Withdrawals, FiniteSetTheorems, WellFoundedInduction, TLAPS

USE DEF Kinds, Events, Endpoints

----------------------------------------------------------------------------
(* Operators *)

\* The placeholder of an idle handler is a withdrawal.
LEMMA SomeWithdrawalType == SomeWithdrawal \in Withdrawals
  BY ConstantsAssumption DEF SomeWithdrawal

\* Math.max(0, n) of an integer is a natural number.
LEMMA NonNegativeType ==
  ASSUME NEW n \in Int
  PROVE  NonNegative(n) \in Nat
  BY DEF NonNegative

\* The placeholder of what it has read is a snapshot.
LEMMA EmptySnapshotType == EmptySnapshot \in Snapshots
  BY DEF EmptySnapshot, Snapshots, Statuses

\* What a handler reads is a snapshot.
LEMMA ReadType ==
  ASSUME TypeOK, NEW w \in Withdrawals, NEW x \in Kinds
  PROVE  Read(w, x) \in Snapshots
  BY ConstantsAssumption
  DEF TypeOK, RowsType, MoneyType, Read, Snapshots

\* A handler that ends keeps the handlers' types.
LEMMA FinishType ==
  ASSUME HandlersType, NEW k \in Workers, Finish(k), crashes' \in Nat,
         late' \subseteq Withdrawals
  PROVE  HandlersType'
  BY SomeWithdrawalType, EmptySnapshotType
  DEF HandlersType, Finish, Goto, ProgramPoints

\* What a handler at work remembers.
LEMMA HandlerFacts ==
  ASSUME TypeOK, NEW k \in Workers
  PROVE  /\ on[k] \in Withdrawals
         /\ Kind[on[k]] \in Kinds
         /\ endpoint[k] \in Endpoints
         /\ seen[k] \in Snapshots
         /\ SeenTotal(k) \in Nat
         /\ FeeTakenBack(k) \in Nat
  BY ConstantsAssumption
  DEF TypeOK, HandlersType, Snapshots, SeenTotal, FeeTakenBack

----------------------------------------------------------------------------
(* Type correctness *)

\* The initial state.
LEMMA InitType == Init => TypeOK
  BY ConstantsAssumption, SomeWithdrawalType, EmptySnapshotType
  DEF Init, TypeOK, RowsType, MoneyType, ProviderType, HandlersType,
      Statuses, EntryStatuses, ProgramPoints

\* Requests.
LEMMA RequestType ==
  ASSUME TypeOK, NEW k \in Workers, NEW w \in Withdrawals, Request(k, w)
  PROVE  TypeOK'
  <1> USE ConstantsAssumption DEF TypeOK, Request
  <1>1. RowsType'
    BY DEF RowsType, Statuses
  <1>2. MoneyType'
    BY DEF MoneyType
  <1>3. ProviderType'
    BY DEF ProviderType, provider
  <1>4. HandlersType'
    BY DEF HandlersType, Goto, ProgramPoints
  <1> QED BY <1>1, <1>2, <1>3, <1>4

\* The read of a settlement.
LEMMA SettleReadType ==
  ASSUME TypeOK, NEW k \in Workers, NEW w \in Withdrawals,
         NEW e \in Endpoints, SettleRead(k, w, e)
  PROVE  TypeOK'
  <1> USE ConstantsAssumption DEF TypeOK, SettleRead
  <1>1. RowsType'
    BY DEF RowsType, rows
  <1>2. MoneyType'
    BY DEF MoneyType, money
  <1>3. ProviderType'
    BY DEF ProviderType, provider
  <1>4. HandlersType'
    BY ReadType DEF HandlersType, Goto, ProgramPoints, CommitPoints
  <1> QED BY <1>1, <1>2, <1>3, <1>4

\* The write of a settlement.
LEMMA SettleCommitType ==
  ASSUME TypeOK, NEW k \in Workers, SettleCommit(k)
  PROVE  TypeOK'
  <1> USE ConstantsAssumption, NonNegativeType, HandlerFacts DEF TypeOK, SettleCommit
  <1>1. RowsType'
    BY DEF RowsType, Statuses, EntryStatuses, PostJournal
  <1>2. MoneyType'
    BY DEF MoneyType, Snapshots, PostJournal
  <1>3. ProviderType'
    BY DEF ProviderType, provider
  <1>4. HandlersType'
    BY DEF HandlersType, Goto, ProgramPoints
  <1> QED BY <1>1, <1>2, <1>3, <1>4

\* The read of a rejection.
LEMMA RejectReadType ==
  ASSUME TypeOK, NEW k \in Workers, NEW w \in Withdrawals, RejectRead(k, w)
  PROVE  TypeOK'
  <1> USE ConstantsAssumption DEF TypeOK, RejectRead
  <1>1. RowsType'
    BY DEF RowsType, rows
  <1>2. MoneyType'
    BY DEF MoneyType, money
  <1>3. ProviderType'
    BY DEF ProviderType, provider
  <1>4. HandlersType'
    BY ReadType DEF HandlersType, Goto, ProgramPoints, CommitPoints
  <1> QED BY <1>1, <1>2, <1>3, <1>4

\* The write of a rejection.
LEMMA RejectCommitType ==
  ASSUME TypeOK, NEW k \in Workers, RejectCommit(k)
  PROVE  TypeOK'
  <1> USE ConstantsAssumption, NonNegativeType, HandlerFacts DEF TypeOK, RejectCommit
  <1>1. RowsType'
    BY DEF RowsType, Statuses
  <1>2. MoneyType'
    BY DEF MoneyType, Snapshots
  <1>3. ProviderType'
    BY DEF ProviderType, provider
  <1>4. HandlersType'
    BY FinishType DEF HandlersType
  <1> QED BY <1>1, <1>2, <1>3, <1>4

\* The call of the provider.
LEMMA SubmitType ==
  ASSUME TypeOK, NEW k \in Workers, Submit(k)
  PROVE  TypeOK'
  <1> USE ConstantsAssumption, HandlerFacts DEF TypeOK, Submit
  <1>1. RowsType'
    BY DEF RowsType, rows
  <1>2. MoneyType'
    BY DEF MoneyType, money
  <1>3. ProviderType'
    BY DEF ProviderType, AcceptPayout, provider
  <1>4. HandlersType'
    BY ReadType DEF HandlersType, Goto, ProgramPoints
  <1> QED BY <1>1, <1>2, <1>3, <1>4

\* The read of the recording transaction.
LEMMA RecordReadType ==
  ASSUME TypeOK, NEW k \in Workers, RecordRead(k)
  PROVE  TypeOK'
  <1> USE ConstantsAssumption, HandlerFacts DEF TypeOK, RecordRead
  <1> DEFINE read == [seen[k] EXCEPT !.account = account["PLATFORM"],
                                     !.clearing = clearing]
  <1>0. read \in Snapshots /\ seen' = [seen EXCEPT ![k] = read]
    <2>1. /\ seen[k] \in Snapshots
          /\ account["PLATFORM"] \in Int
          /\ clearing \in Int
      BY DEF MoneyType
    <2>2. read \in Snapshots
      BY <2>1, Zenon DEF Snapshots
    <2>3. seen' = [seen EXCEPT ![k] = read]
      BY DEF HandlersType
    <2> QED BY <2>2, <2>3
  <1>1. RowsType'
    BY DEF RowsType, rows
  <1>2. MoneyType'
    BY DEF MoneyType, money
  <1>3. ProviderType'
    BY DEF ProviderType, provider
  <1>4. HandlersType'
    BY <1>0 DEF HandlersType, Goto, ProgramPoints, CommitPoints
  <1> QED BY <1>1, <1>2, <1>3, <1>4

\* The write of the recording transaction.
LEMMA RecordCommitType ==
  ASSUME TypeOK, NEW k \in Workers, RecordCommit(k)
  PROVE  TypeOK'
  <1> USE ConstantsAssumption, NonNegativeType, HandlerFacts DEF TypeOK, RecordCommit
  <1>1. /\ on[k] \in Withdrawals
        /\ payoutFee[on[k]] \in Nat
        /\ Amount[on[k]] \in Nat
        /\ NonNegative(seen[k].fee - payoutFee[on[k]]) \in Nat
    BY DEF ProviderType, Snapshots
  <1>2. ASSUME RecordOrganizationPayout(k, on[k])
        PROVE  /\ allocated' \in [Withdrawals -> BOOLEAN]
               /\ platformFee' \in [Withdrawals -> Nat]
               /\ feeJournal' \in [Withdrawals -> EntryStatuses]
               /\ UNCHANGED <<fee, lineAmount>>
    BY <1>1, <1>2 DEF RowsType, EntryStatuses, RecordOrganizationPayout
  <1>3. ASSUME RecordOtherPayout(k, on[k])
        PROVE  /\ fee' \in [Withdrawals -> Nat]
               /\ lineAmount' \in [Withdrawals -> Nat]
               /\ UNCHANGED <<allocated, platformFee, feeJournal>>
    BY <1>1, <1>3 DEF RowsType, RecordOtherPayout
  <1>4. RowsType'
    BY <1>1, <1>2, <1>3 DEF RowsType
  <1>5. MoneyType'
    BY DEF MoneyType, ProviderType, Snapshots, RecordOtherPayout, RecordOrganizationPayout
  <1>6. ProviderType'
    BY DEF ProviderType, provider
  <1>7. HandlersType'
    BY FinishType DEF HandlersType
  <1> QED BY <1>4, <1>5, <1>6, <1>7

\* A failed recording.
LEMMA RecordFailsType ==
  ASSUME TypeOK, NEW k \in Workers, RecordFails(k)
  PROVE  TypeOK'
  <1> USE ConstantsAssumption DEF TypeOK, RecordFails
  <1>1. RowsType'
    BY DEF RowsType, rows
  <1>2. MoneyType'
    BY DEF MoneyType, money
  <1>3. ProviderType'
    BY DEF ProviderType, provider
  <1>4. HandlersType'
    BY DEF HandlersType, Goto, ProgramPoints
  <1> QED BY <1>1, <1>2, <1>3, <1>4

\* The read of the compensation.
LEMMA CompensateReadType ==
  ASSUME TypeOK, NEW k \in Workers, CompensateRead(k)
  PROVE  TypeOK'
  <1> USE ConstantsAssumption, HandlerFacts DEF TypeOK, CompensateRead
  <1>1. RowsType'
    BY DEF RowsType, rows
  <1>2. MoneyType'
    BY DEF MoneyType, money
  <1>3. ProviderType'
    BY DEF ProviderType, provider
  <1>4. HandlersType'
    BY ReadType, FinishType DEF HandlersType, Goto, ProgramPoints, CommitPoints
  <1> QED BY <1>1, <1>2, <1>3, <1>4

\* The write of the compensation.
LEMMA CompensateCommitType ==
  ASSUME TypeOK, NEW k \in Workers, CompensateCommit(k)
  PROVE  TypeOK'
  <1> USE ConstantsAssumption, HandlerFacts DEF TypeOK, CompensateCommit
  <1>1. RowsType'
    BY DEF RowsType, Statuses, EntryStatuses, ReverseJournal, Refund
  <1>2. MoneyType'
    BY DEF MoneyType, Refund
  <1>3. ProviderType'
    BY DEF ProviderType, provider
  <1>4. HandlersType'
    BY FinishType DEF HandlersType
  <1> QED BY <1>1, <1>2, <1>3, <1>4

\* The cron takes up a stale row.
LEMMA ReconcileType ==
  ASSUME TypeOK, NEW k \in Workers, NEW w \in Withdrawals, Reconcile(k, w)
  PROVE  TypeOK'
  <1> USE ConstantsAssumption DEF TypeOK, Reconcile
  <1>1. RowsType'
    BY DEF RowsType, rows
  <1>2. MoneyType'
    BY DEF MoneyType, money
  <1>3. ProviderType'
    BY DEF ProviderType, provider
  <1>4. HandlersType'
    BY DEF HandlersType, Goto, ProgramPoints
  <1> QED BY <1>1, <1>2, <1>3, <1>4

\* The cron's handler reads the row.
LEMMA ReconcileReadType ==
  ASSUME TypeOK, NEW k \in Workers, ReconcileRead(k)
  PROVE  TypeOK'
  <1> USE ConstantsAssumption, HandlerFacts DEF TypeOK, ReconcileRead, HandlerRead
  <1>1. RowsType'
    BY DEF RowsType, rows
  <1>2. MoneyType'
    BY DEF MoneyType, money
  <1>3. ProviderType'
    BY DEF ProviderType, provider
  <1>4. HandlersType'
    BY ReadType, FinishType DEF HandlersType, Goto, ProgramPoints, CommitPoints
  <1> QED BY <1>1, <1>2, <1>3, <1>4

\* A webhook handler reads the row.
LEMMA WebhookType ==
  ASSUME TypeOK, NEW k \in Workers, NEW w \in Withdrawals, NEW event \in Events,
         NEW point \in {"paidCommit", "failedCommit", "createdCommit"},
         Deliver(k, w, event), HandlerRead(k, w, point)
  PROVE  TypeOK'
  <1> USE ConstantsAssumption DEF TypeOK, Deliver, HandlerRead
  <1>1. RowsType'
    BY DEF RowsType, rows
  <1>2. MoneyType'
    BY DEF MoneyType, money
  <1>3. ProviderType'
    BY DEF ProviderType, provider
  <1>4. HandlersType'
    BY ReadType DEF HandlersType, Goto, ProgramPoints, CommitPoints
  <1> QED BY <1>1, <1>2, <1>3, <1>4

\* The write of a paid event.
LEMMA PaidCommitType ==
  ASSUME TypeOK, NEW k \in Workers, PaidCommit(k)
  PROVE  TypeOK'
  <1> USE ConstantsAssumption, HandlerFacts DEF TypeOK, PaidCommit
  <1>1. RowsType'
    BY DEF RowsType, Statuses
  <1>2. MoneyType'
    BY DEF MoneyType, money
  <1>3. ProviderType'
    BY DEF ProviderType, provider
  <1>4. HandlersType'
    BY FinishType DEF HandlersType
  <1> QED BY <1>1, <1>2, <1>3, <1>4

\* The write of a failed event.
LEMMA FailedCommitType ==
  ASSUME TypeOK, NEW k \in Workers, FailedCommit(k)
  PROVE  TypeOK'
  <1> USE ConstantsAssumption, NonNegativeType, HandlerFacts DEF TypeOK, FailedCommit
  <1>1. RowsType'
    BY DEF RowsType, Statuses, EntryStatuses, ReverseJournal, Refund
  <1>2. MoneyType'
    BY DEF MoneyType, Refund, Snapshots
  <1>3. ProviderType'
    BY DEF ProviderType, provider
  <1>4. HandlersType'
    BY FinishType DEF HandlersType
  <1> QED BY <1>1, <1>2, <1>3, <1>4

\* The write of a created event.
LEMMA CreatedCommitType ==
  ASSUME TypeOK, NEW k \in Workers, CreatedCommit(k)
  PROVE  TypeOK'
  <1> USE ConstantsAssumption, HandlerFacts DEF TypeOK, CreatedCommit
  <1>1. RowsType'
    BY DEF RowsType, Statuses
  <1>2. MoneyType'
    BY DEF MoneyType, money
  <1>3. ProviderType'
    BY DEF ProviderType, provider
  <1>4. HandlersType'
    BY FinishType DEF HandlersType
  <1> QED BY <1>1, <1>2, <1>3, <1>4

\* A handler that only ends.
LEMMA FinishedType ==
  ASSUME TypeOK, NEW k \in Workers, Finish(k), crashes' \in Nat,
         UNCHANGED <<rows, money, credits, late, provider>>
  PROVE  TypeOK'
  <1> USE ConstantsAssumption DEF TypeOK
  <1>1. RowsType'
    BY DEF RowsType, rows
  <1>2. MoneyType'
    BY DEF MoneyType, money
  <1>3. ProviderType'
    BY DEF ProviderType, provider
  <1>4. HandlersType'
    BY FinishType DEF HandlersType
  <1> QED BY <1>1, <1>2, <1>3, <1>4

\* Every step of the specification keeps the types.
LEMMA TypeStep == TypeOK /\ [Next]_vars => TypeOK'
  <1> SUFFICES ASSUME TypeOK, [Next]_vars PROVE TypeOK'
    OBVIOUS
  <1>1. ASSUME NEW k \in Workers, Continue(k) PROVE TypeOK'
    <2> USE HandlerFacts
    <2>1. CASE SettleOwn(k)
      BY <2>1, SettleReadType, FinishedType DEF SettleOwn, TypeOK, HandlersType
    <2>2. CASE SettleCommit(k)
      BY <2>2, SettleCommitType
    <2>3. CASE SettleRollback(k)
      BY <2>3, FinishedType DEF SettleRollback, TypeOK, HandlersType
    <2>4. CASE RejectCommit(k)
      BY <2>4, RejectCommitType
    <2>5. CASE Submit(k)
      BY <2>5, SubmitType
    <2>6. CASE RecordRead(k)
      BY <2>6, RecordReadType
    <2>7. CASE RecordCommit(k)
      BY <2>7, RecordCommitType
    <2>8. CASE CompensateRead(k)
      BY <2>8, CompensateReadType
    <2>9. CASE CompensateCommit(k)
      BY <2>9, CompensateCommitType
    <2>10. CASE ReconcileRead(k)
      BY <2>10, ReconcileReadType
    <2>11. CASE PaidCommit(k)
      BY <2>11, PaidCommitType
    <2>12. CASE FailedCommit(k)
      BY <2>12, FailedCommitType
    <2>13. CASE CreatedCommit(k)
      BY <2>13, CreatedCommitType
    <2> QED BY <1>1, <2>1, <2>2, <2>3, <2>4, <2>5, <2>6, <2>7, <2>8, <2>9,
               <2>10, <2>11, <2>12, <2>13 DEF Continue
  <1>2. ASSUME NEW k \in Workers, NEW w \in Withdrawals, Start(k, w)
        PROVE  TypeOK'
    <2>1. CASE Request(k, w)
      BY <2>1, RequestType
    <2>2. ASSUME NEW e \in Endpoints, Approve(k, w, e) PROVE TypeOK'
      BY <2>2, SettleReadType DEF Approve
    <2>3. CASE RejectRead(k, w)
      BY <2>3, RejectReadType
    <2>4. CASE PaidWebhook(k, w)
      BY <2>4, WebhookType DEF PaidWebhook
    <2>5. CASE FailedWebhook(k, w)
      BY <2>5, WebhookType DEF FailedWebhook
    <2>6. CASE CreatedWebhook(k, w)
      BY <2>6, WebhookType DEF CreatedWebhook
    <2>7. CASE Reconcile(k, w)
      BY <2>7, ReconcileType
    <2> QED BY <1>2, <2>1, <2>2, <2>3, <2>4, <2>5, <2>6, <2>7 DEF Start
  <1>3. ASSUME NEW k \in Workers, RecordFails(k) PROVE TypeOK'
    BY <1>3, RecordFailsType
  <1>4. ASSUME NEW k \in Workers, Crash(k) PROVE TypeOK'
    BY <1>4, FinishedType DEF Crash, TypeOK, HandlersType
  <1>5. ASSUME NEW w \in Withdrawals, Decide(w) PROVE TypeOK'
    BY <1>5 DEF Decide, TypeOK, RowsType, MoneyType, ProviderType,
                HandlersType, rows, money, handlers
  <1>6. ASSUME NEW x \in Kinds, Credit(x) PROVE TypeOK'
    BY <1>6 DEF Credit, TypeOK, RowsType, MoneyType, ProviderType,
                HandlersType, rows, provider, handlers
  <1>7. CASE UNCHANGED vars
    BY <1>7 DEF TypeOK, RowsType, MoneyType, ProviderType, HandlersType,
                vars, rows, money, provider, handlers
  <1> QED BY <1>1, <1>2, <1>3, <1>4, <1>5, <1>6, <1>7 DEF Next

\* Types are kept, and a held balance is never negative: Math.max clamps what
\* settlement, rejection and failure webhook compute from stale reads.
THEOREM TypeCorrect == Spec => []TypeOK
  BY InitType, TypeStep, PTL DEF Spec

----------------------------------------------------------------------------
(* Safety of overlapping handlers *)

\* PendingIsReserved needs that a row not yet requested is not journaled.
Reserved ==
    /\ PendingIsReserved
    /\ \A w \in Withdrawals : status[w] = "NEW" => journal[w] = "NONE"

\* CompletedIsPaid needs that "paid" is only said, and only acted on, for a
\* payout that is paid.
SaidPaid ==
    /\ CompletedIsPaid
    /\ \A w \in Withdrawals : <<w, "paid">> \in sent => payout[w] = "PAID"
    /\ \A k \in Workers :
          pc[k] \in {"paid", "paidCommit"} => payout[on[k]] = "PAID"

\* PayoutFollowsDebit needs that a handler about to submit has journaled.
Debited ==
    /\ PayoutFollowsDebit
    /\ \A k \in Workers : pc[k] = "submit" => journal[on[k]] # "NONE"

SafeInv == Reserved /\ SaidPaid /\ Debited

\* The initial state.
LEMMA InitSafe == Init => SafeInv
  BY DEF Init, SafeInv, Reserved, SaidPaid, Debited, PendingIsReserved,
         CompletedIsPaid, PayoutFollowsDebit

\* Requests.
LEMMA RequestSafe ==
  ASSUME TypeOK, SafeInv, NEW k \in Workers, NEW w \in Withdrawals, Request(k, w)
  PROVE  SafeInv'
  <1> USE ConstantsAssumption, HandlerFacts
      DEF SafeInv, TypeOK, RowsType, ProviderType, HandlersType
  <1>1. Reserved'
    BY DEF Reserved, PendingIsReserved, Request, Goto, provider
  <1>2. SaidPaid'
    BY DEF SaidPaid, CompletedIsPaid, Request, Goto, provider
  <1>3. Debited'
    BY DEF Debited, PayoutFollowsDebit, Request, Goto, provider
  <1> QED BY <1>1, <1>2, <1>3

\* The read of a settlement.
LEMMA SettleReadSafe ==
  ASSUME TypeOK, SafeInv, NEW k \in Workers, NEW w \in Withdrawals,
         NEW e \in Endpoints, SettleRead(k, w, e)
  PROVE  SafeInv'
  <1> USE ConstantsAssumption, HandlerFacts
      DEF SafeInv, TypeOK, RowsType, ProviderType, HandlersType
  <1>1. Reserved'
    BY DEF Reserved, PendingIsReserved, SettleRead, Goto, rows, provider
  <1>2. SaidPaid'
    BY DEF SaidPaid, CompletedIsPaid, SettleRead, Goto, rows, provider
  <1>3. Debited'
    BY DEF Debited, PayoutFollowsDebit, SettleRead, Goto, rows, provider
  <1> QED BY <1>1, <1>2, <1>3

\* The write of a settlement.
LEMMA SettleCommitSafe ==
  ASSUME TypeOK, SafeInv, NEW k \in Workers, SettleCommit(k)
  PROVE  SafeInv'
  <1> USE ConstantsAssumption, HandlerFacts
      DEF SafeInv, TypeOK, RowsType, ProviderType, HandlersType
  <1>1. Reserved'
    BY DEF Reserved, PendingIsReserved, SettleCommit, PostJournal,
       JournalConflict, Goto, provider, EntryStatuses
  <1>2. SaidPaid'
    BY DEF SaidPaid, CompletedIsPaid, SettleCommit, PostJournal,
       JournalConflict, Goto, provider, EntryStatuses
  <1>3. Debited'
    BY DEF Debited, PayoutFollowsDebit, SettleCommit, PostJournal,
       JournalConflict, Goto, provider, EntryStatuses
  <1> QED BY <1>1, <1>2, <1>3

\* The read of a rejection.
LEMMA RejectReadSafe ==
  ASSUME TypeOK, SafeInv, NEW k \in Workers, NEW w \in Withdrawals, RejectRead(k, w)
  PROVE  SafeInv'
  <1> USE ConstantsAssumption, HandlerFacts
      DEF SafeInv, TypeOK, RowsType, ProviderType, HandlersType
  <1>1. Reserved'
    BY DEF Reserved, PendingIsReserved, RejectRead, Goto, rows, provider
  <1>2. SaidPaid'
    BY DEF SaidPaid, CompletedIsPaid, RejectRead, Goto, rows, provider
  <1>3. Debited'
    BY DEF Debited, PayoutFollowsDebit, RejectRead, Goto, rows, provider
  <1> QED BY <1>1, <1>2, <1>3

\* The write of a rejection.
LEMMA RejectCommitSafe ==
  ASSUME TypeOK, SafeInv, NEW k \in Workers, RejectCommit(k)
  PROVE  SafeInv'
  <1> USE ConstantsAssumption, HandlerFacts
      DEF SafeInv, TypeOK, RowsType, ProviderType, HandlersType
  <1>1. Reserved'
    BY DEF Reserved, PendingIsReserved, RejectCommit, Finish, Goto,
       provider
  <1>2. SaidPaid'
    BY DEF SaidPaid, CompletedIsPaid, RejectCommit, Finish, Goto, provider
  <1>3. Debited'
    BY DEF Debited, PayoutFollowsDebit, RejectCommit, Finish, Goto,
       provider
  <1> QED BY <1>1, <1>2, <1>3

\* The call of the provider.
LEMMA SubmitSafe ==
  ASSUME TypeOK, SafeInv, NEW k \in Workers, Submit(k)
  PROVE  SafeInv'
  <1> USE ConstantsAssumption, HandlerFacts
      DEF SafeInv, TypeOK, RowsType, ProviderType, HandlersType
  <1>1. Reserved'
    BY DEF Reserved, PendingIsReserved, Submit, AcceptPayout, Goto, rows,
       provider
  <1>2. SaidPaid'
    <2>1. \A j \in Workers : on'[j] = on[j] /\ (pc'[j] \in {"paid", "paidCommit"} => pc'[j] = pc[j])
      BY DEF Submit, Goto
    <2>2. \A w \in Withdrawals :
             /\ payout[w] = "PAID" => payout'[w] = "PAID"
             /\ <<w, "paid">> \in sent' => <<w, "paid">> \in sent
             /\ status'[w] = status[w]
      BY DEF Submit, AcceptPayout, rows, provider
    <2>3. CompletedIsPaid'
      BY <2>2 DEF SaidPaid, CompletedIsPaid
    <2>4. \A w \in Withdrawals : <<w, "paid">> \in sent' => payout'[w] = "PAID"
      BY <2>2 DEF SaidPaid
    <2>5. ASSUME NEW j \in Workers, pc'[j] \in {"paid", "paidCommit"}
          PROVE  payout'[on'[j]] = "PAID"
      <3>1. pc[j] \in {"paid", "paidCommit"} /\ on'[j] = on[j]
        BY <2>1, <2>5
      <3>2. PICK w \in Withdrawals : w = on[j]
        OBVIOUS
      <3>3. payout[w] = "PAID"
        BY <3>1, <3>2 DEF SaidPaid
      <3>4. payout'[w] = "PAID"
        BY <2>2, <3>3
      <3> QED BY <3>1, <3>2, <3>4, Zenon
    <2> QED BY <2>3, <2>4, <2>5 DEF SaidPaid
  <1>3. Debited'
    BY DEF Debited, PayoutFollowsDebit, Submit, AcceptPayout, Goto, rows,
       provider
  <1> QED BY <1>1, <1>2, <1>3

\* The read of the recording transaction.
LEMMA RecordReadSafe ==
  ASSUME TypeOK, SafeInv, NEW k \in Workers, RecordRead(k)
  PROVE  SafeInv'
  <1> USE ConstantsAssumption, HandlerFacts
      DEF SafeInv, TypeOK, RowsType, ProviderType, HandlersType
  <1>1. Reserved'
    BY DEF Reserved, PendingIsReserved, RecordRead, Goto, rows, provider
  <1>2. SaidPaid'
    BY DEF SaidPaid, CompletedIsPaid, RecordRead, Goto, rows, provider
  <1>3. Debited'
    BY DEF Debited, PayoutFollowsDebit, RecordRead, Goto, rows, provider
  <1> QED BY <1>1, <1>2, <1>3

\* The write of the recording transaction.
LEMMA RecordCommitSafe ==
  ASSUME TypeOK, SafeInv, NEW k \in Workers, RecordCommit(k)
  PROVE  SafeInv'
  <1> USE ConstantsAssumption, HandlerFacts
      DEF SafeInv, TypeOK, RowsType, ProviderType, HandlersType
  <1>1. Reserved'
    BY DEF Reserved, PendingIsReserved, RecordCommit, Finish, Goto,
       provider
  <1>2. SaidPaid'
    BY DEF SaidPaid, CompletedIsPaid, RecordCommit, Finish, Goto, provider
  <1>3. Debited'
    BY DEF Debited, PayoutFollowsDebit, RecordCommit, Finish, Goto,
       provider
  <1> QED BY <1>1, <1>2, <1>3

\* A failed recording.
LEMMA RecordFailsSafe ==
  ASSUME TypeOK, SafeInv, NEW k \in Workers, RecordFails(k)
  PROVE  SafeInv'
  <1> USE ConstantsAssumption, HandlerFacts
      DEF SafeInv, TypeOK, RowsType, ProviderType, HandlersType
  <1>1. Reserved'
    BY DEF Reserved, PendingIsReserved, RecordFails, Goto, rows, provider
  <1>2. SaidPaid'
    BY DEF SaidPaid, CompletedIsPaid, RecordFails, Goto, rows, provider
  <1>3. Debited'
    BY DEF Debited, PayoutFollowsDebit, RecordFails, Goto, rows, provider
  <1> QED BY <1>1, <1>2, <1>3

\* The read of the compensation.
LEMMA CompensateReadSafe ==
  ASSUME TypeOK, SafeInv, NEW k \in Workers, CompensateRead(k)
  PROVE  SafeInv'
  <1> USE ConstantsAssumption, HandlerFacts
      DEF SafeInv, TypeOK, RowsType, ProviderType, HandlersType
  <1>1. Reserved'
    BY DEF Reserved, PendingIsReserved, CompensateRead, Finish, Goto,
       rows, provider
  <1>2. SaidPaid'
    BY DEF SaidPaid, CompletedIsPaid, CompensateRead, Finish, Goto, rows,
       provider
  <1>3. Debited'
    <2>1. \A j \in Workers : pc'[j] = "submit" => pc[j] = "submit" /\ on'[j] = on[j]
      BY DEF CompensateRead, Finish, Goto
    <2>2. UNCHANGED <<payout, journal>>
      BY DEF CompensateRead, rows, provider
    <2> QED BY <2>1, <2>2 DEF Debited, PayoutFollowsDebit
  <1> QED BY <1>1, <1>2, <1>3

\* The write of the compensation.
LEMMA CompensateCommitSafe ==
  ASSUME TypeOK, SafeInv, NEW k \in Workers, CompensateCommit(k)
  PROVE  SafeInv'
  <1> USE ConstantsAssumption, HandlerFacts
      DEF SafeInv, TypeOK, RowsType, ProviderType, HandlersType
  <1>1. Reserved'
    BY DEF Reserved, PendingIsReserved, CompensateCommit, ReverseJournal,
       Finish, Goto, provider, EntryStatuses
  <1>2. SaidPaid'
    BY DEF SaidPaid, CompletedIsPaid, CompensateCommit, ReverseJournal,
       Finish, Goto, provider, EntryStatuses
  <1>3. Debited'
    BY DEF Debited, PayoutFollowsDebit, CompensateCommit, ReverseJournal,
       Finish, Goto, provider, EntryStatuses
  <1> QED BY <1>1, <1>2, <1>3

\* The cron takes up a stale row.
LEMMA ReconcileSafe ==
  ASSUME TypeOK, SafeInv, NEW k \in Workers, NEW w \in Withdrawals, Reconcile(k, w)
  PROVE  SafeInv'
  <1> USE ConstantsAssumption, HandlerFacts
      DEF SafeInv, TypeOK, RowsType, ProviderType, HandlersType
  <1>1. Reserved'
    BY DEF Reserved, PendingIsReserved, Reconcile, Goto, rows, provider
  <1>2. SaidPaid'
    BY DEF SaidPaid, CompletedIsPaid, Reconcile, Goto, rows, provider
  <1>3. Debited'
    BY DEF Debited, PayoutFollowsDebit, Reconcile, Goto, rows, provider
  <1> QED BY <1>1, <1>2, <1>3

\* The cron's handler reads the row.
LEMMA ReconcileReadSafe ==
  ASSUME TypeOK, SafeInv, NEW k \in Workers, ReconcileRead(k)
  PROVE  SafeInv'
  <1> USE ConstantsAssumption, HandlerFacts
      DEF SafeInv, TypeOK, RowsType, ProviderType, HandlersType
  <1>1. Reserved'
    BY DEF Reserved, PendingIsReserved, ReconcileRead, HandlerRead,
       Finish, Goto, rows, provider
  <1>2. SaidPaid'
    BY DEF SaidPaid, CompletedIsPaid, ReconcileRead, HandlerRead, Finish,
       Goto, rows, provider
  <1>3. Debited'
    BY DEF Debited, PayoutFollowsDebit, ReconcileRead, HandlerRead,
       Finish, Goto, rows, provider
  <1> QED BY <1>1, <1>2, <1>3

\* A webhook handler reads the row.
LEMMA WebhookSafe ==
  ASSUME TypeOK, SafeInv, NEW k \in Workers, NEW w \in Withdrawals, NEW event \in Events,
         NEW point \in {"paidCommit", "failedCommit", "createdCommit"},
         point = "paidCommit" => event = "paid",
         Deliver(k, w, event), HandlerRead(k, w, point)
  PROVE  SafeInv'
  <1> USE ConstantsAssumption, HandlerFacts
      DEF SafeInv, TypeOK, RowsType, ProviderType, HandlersType
  <1>1. Reserved'
    BY DEF Reserved, PendingIsReserved, Deliver, HandlerRead, Goto, rows,
       provider
  <1>2. SaidPaid'
    BY DEF SaidPaid, CompletedIsPaid, Deliver, HandlerRead, Goto, rows,
       provider
  <1>3. Debited'
    BY DEF Debited, PayoutFollowsDebit, Deliver, HandlerRead, Goto, rows,
       provider
  <1> QED BY <1>1, <1>2, <1>3

\* The write of a paid event.
LEMMA PaidCommitSafe ==
  ASSUME TypeOK, SafeInv, NEW k \in Workers, PaidCommit(k)
  PROVE  SafeInv'
  <1> USE ConstantsAssumption, HandlerFacts
      DEF SafeInv, TypeOK, RowsType, ProviderType, HandlersType
  <1>1. Reserved'
    BY DEF Reserved, PendingIsReserved, PaidCommit, Finish, Goto, provider
  <1>2. SaidPaid'
    BY DEF SaidPaid, CompletedIsPaid, PaidCommit, Finish, Goto, provider
  <1>3. Debited'
    BY DEF Debited, PayoutFollowsDebit, PaidCommit, Finish, Goto, provider
  <1> QED BY <1>1, <1>2, <1>3

\* The write of a failed event.
LEMMA FailedCommitSafe ==
  ASSUME TypeOK, SafeInv, NEW k \in Workers, FailedCommit(k)
  PROVE  SafeInv'
  <1> USE ConstantsAssumption, HandlerFacts
      DEF SafeInv, TypeOK, RowsType, ProviderType, HandlersType
  <1>1. Reserved'
    BY DEF Reserved, PendingIsReserved, FailedCommit, ReverseJournal,
       Finish, Goto, provider, EntryStatuses
  <1>2. SaidPaid'
    BY DEF SaidPaid, CompletedIsPaid, FailedCommit, ReverseJournal,
       Finish, Goto, provider, EntryStatuses
  <1>3. Debited'
    BY DEF Debited, PayoutFollowsDebit, FailedCommit, ReverseJournal,
       Finish, Goto, provider, EntryStatuses
  <1> QED BY <1>1, <1>2, <1>3

\* The write of a created event.
LEMMA CreatedCommitSafe ==
  ASSUME TypeOK, SafeInv, NEW k \in Workers, CreatedCommit(k)
  PROVE  SafeInv'
  <1> USE ConstantsAssumption, HandlerFacts
      DEF SafeInv, TypeOK, RowsType, ProviderType, HandlersType
  <1>1. Reserved'
    BY DEF Reserved, PendingIsReserved, CreatedCommit, Finish, Goto,
       provider
  <1>2. SaidPaid'
    BY DEF SaidPaid, CompletedIsPaid, CreatedCommit, Finish, Goto,
       provider
  <1>3. Debited'
    BY DEF Debited, PayoutFollowsDebit, CreatedCommit, Finish, Goto,
       provider
  <1> QED BY <1>1, <1>2, <1>3

\* A handler that only ends.
LEMMA FinishedSafe ==
  ASSUME TypeOK, SafeInv, NEW k \in Workers, Finish(k), UNCHANGED <<rows, provider>>
  PROVE  SafeInv'
  <1> USE ConstantsAssumption, HandlerFacts
      DEF SafeInv, TypeOK, RowsType, ProviderType, HandlersType
  <1>1. Reserved'
    BY DEF Reserved, PendingIsReserved, Finish, Goto, rows, provider
  <1>2. SaidPaid'
    BY DEF SaidPaid, CompletedIsPaid, Finish, Goto, rows, provider
  <1>3. Debited'
    BY DEF Debited, PayoutFollowsDebit, Finish, Goto, rows, provider
  <1> QED BY <1>1, <1>2, <1>3

\* Every step of the specification keeps the invariant.
LEMMA SafeStep == TypeOK /\ SafeInv /\ [Next]_vars => SafeInv'
  <1> SUFFICES ASSUME TypeOK, SafeInv, [Next]_vars PROVE SafeInv'
    OBVIOUS
  <1>1. ASSUME NEW k \in Workers, Continue(k) PROVE SafeInv'
    <2>1. CASE SettleOwn(k)
      BY <2>1, SettleReadSafe, FinishedSafe, HandlerFacts DEF SettleOwn
    <2>2. CASE SettleRollback(k)
      BY <2>2, FinishedSafe DEF SettleRollback
    <2> QED BY <1>1, <2>1, <2>2, SettleCommitSafe, RejectCommitSafe,
               SubmitSafe, RecordReadSafe, RecordCommitSafe,
               CompensateReadSafe, CompensateCommitSafe, ReconcileReadSafe,
               PaidCommitSafe, FailedCommitSafe, CreatedCommitSafe
            DEF Continue
  <1>2. ASSUME NEW k \in Workers, NEW w \in Withdrawals, Start(k, w)
        PROVE  SafeInv'
    <2>1. ASSUME PaidWebhook(k, w) \/ FailedWebhook(k, w) \/ CreatedWebhook(k, w)
          PROVE  SafeInv'
      BY <2>1, WebhookSafe DEF PaidWebhook, FailedWebhook, CreatedWebhook
    <2> QED BY <1>2, <2>1, RequestSafe, SettleReadSafe, RejectReadSafe,
               ReconcileSafe DEF Start, Approve
  <1>3. ASSUME NEW k \in Workers, RecordFails(k) \/ Crash(k) PROVE SafeInv'
    BY <1>3, RecordFailsSafe, FinishedSafe DEF Crash
  <1>4. ASSUME NEW w \in Withdrawals, Decide(w) PROVE SafeInv'
    BY <1>4 DEF Decide, SafeInv, Reserved, PendingIsReserved, SaidPaid, CompletedIsPaid,
            Debited, PayoutFollowsDebit, TypeOK, RowsType,
            ProviderType, HandlersType, rows, handlers
  <1>5. ASSUME NEW x \in Kinds, Credit(x) PROVE SafeInv'
    BY <1>5 DEF Credit, SafeInv, Reserved, PendingIsReserved, SaidPaid, CompletedIsPaid,
            Debited, PayoutFollowsDebit, rows, provider, handlers
  <1>6. CASE UNCHANGED vars
    BY <1>6 DEF SafeInv, Reserved, PendingIsReserved, SaidPaid, CompletedIsPaid,
            Debited, PayoutFollowsDebit, vars, rows, provider, handlers
  <1> QED BY <1>1, <1>2, <1>3, <1>4, <1>5, <1>6 DEF Next

\* Every reachable state.
LEMMA Safe == Spec => []SafeInv
  <1>1. Init => SafeInv
    BY InitSafe
  <1>2. TypeOK /\ SafeInv /\ [Next]_vars => SafeInv'
    BY SafeStep
  <1> QED BY <1>1, <1>2, TypeCorrect, PTL DEF Spec

\* A request that waits for approval keeps its hold and has no journal entry,
\* although approval, rejection and webhooks read it without a lock.
THEOREM PendingReserved == Spec => []PendingIsReserved
  <1>1. SafeInv => PendingIsReserved
    BY DEF SafeInv, Reserved
  <1> QED BY <1>1, Safe, PTL

\* A withdrawal is only COMPLETED once the provider has paid it.
THEOREM CompletedPaid == Spec => []CompletedIsPaid
  <1>1. SafeInv => CompletedIsPaid
    BY DEF SafeInv, SaidPaid
  <1> QED BY <1>1, Safe, PTL

\* The provider only hears of withdrawals whose debit is journaled.
THEOREM PayoutDebited == Spec => []PayoutFollowsDebit
  <1>1. SafeInv => PayoutFollowsDebit
    BY DEF SafeInv, Debited
  <1> QED BY <1>1, Safe, PTL

\* A REVERSED entry stays REVERSED.
LEMMA ReversedStays ==
  ASSUME TypeOK, [Next]_vars, NEW w \in Withdrawals, journal[w] = "REVERSED"
  PROVE  journal'[w] = "REVERSED"
  <1> USE DEF TypeOK, RowsType
  <1>1. ASSUME NEW k \in Workers, SettleCommit(k) PROVE journal'[w] = "REVERSED"
    BY <1>1, HandlerFacts DEF SettleCommit, PostJournal
  <1>2. ASSUME NEW k \in Workers, CompensateCommit(k) \/ FailedCommit(k)
        PROVE  journal'[w] = "REVERSED"
    BY <1>2, HandlerFacts DEF CompensateCommit, FailedCommit, ReverseJournal
  <1>3. ASSUME NEW k \in Workers, Continue(k), ~SettleCommit(k),
               ~CompensateCommit(k), ~FailedCommit(k)
        PROVE  UNCHANGED journal
    BY <1>3 DEF Continue, SettleOwn, SettleRead, SettleRollback, RejectCommit,
                Submit, RecordRead, RecordCommit, CompensateRead,
                ReconcileRead, HandlerRead, PaidCommit, CreatedCommit, rows
  <1>4. ASSUME NEW k \in Workers, NEW v \in Withdrawals, Start(k, v)
        PROVE  UNCHANGED journal
    BY <1>4 DEF Start, Request, Approve, SettleRead, RejectRead, PaidWebhook,
                FailedWebhook, CreatedWebhook, HandlerRead, Reconcile, rows
  <1> QED BY <1>1, <1>2, <1>3, <1>4
          DEF Next, RecordFails, Crash, Decide, Credit, vars, rows

\* Only a settlement goes from its commit to a submission.
LEMMA OnlySettlementSubmits ==
  ASSUME TypeOK, [Next]_vars, NEW k \in Workers,
         pc[k] = "settleCommit", pc'[k] = "submit"
  PROVE  SettleCommit(k)
  <1> USE DEF TypeOK, HandlersType, Finish, Goto
  <1>1. ASSUME NEW j \in Workers, Continue(j), ~SettleCommit(j)
        PROVE  pc'[k] # "submit"
    BY <1>1 DEF Continue, SettleOwn, SettleRead, SettleRollback, RejectCommit,
                Submit, RecordRead, RecordCommit, CompensateRead,
                CompensateCommit, ReconcileRead, HandlerRead, PaidCommit,
                FailedCommit, CreatedCommit
  <1>2. ASSUME NEW j \in Workers, NEW w \in Withdrawals, Start(j, w)
        PROVE  pc'[k] # "submit"
    BY <1>2 DEF Start, Request, Approve, SettleRead, RejectRead, PaidWebhook,
                FailedWebhook, CreatedWebhook, HandlerRead, Reconcile
  <1>3. ASSUME NEW j \in Workers, SettleCommit(j) PROVE j = k
    BY <1>3 DEF SettleCommit
  <1> QED BY <1>1, <1>2, <1>3
          DEF Next, RecordFails, Crash, Decide, Credit, vars, handlers

\* A refunded withdrawal stays refunded and is not settled again, although an
\* approval may have read it before the refund.
THEOREM RefundedNotSettled == Spec => NoSettlementAfterRefund
  <1>1. ASSUME TypeOK, [Next]_vars, NEW w \in Withdrawals,
               journal[w] = "REVERSED"
        PROVE  journal'[w] = "REVERSED"
    BY <1>1, ReversedStays
  <1>2. ASSUME TypeOK, [Next]_vars, NEW k \in Workers,
               pc[k] = "settleCommit", pc'[k] = "submit"
        PROVE  journal[on[k]] # "REVERSED"
    BY <1>2, OnlySettlementSubmits DEF SettleCommit, JournalConflict
  <1>3. TypeOK /\ [Next]_vars => [\A w \in Withdrawals :
          journal[w] = "REVERSED" =>
              /\ journal'[w] = "REVERSED"
              /\ \A k \in Workers :
                    ~(pc[k] = "settleCommit" /\ pc'[k] = "submit" /\ on[k] = w)]_vars
    BY <1>1, <1>2
  <1> QED BY <1>3, TypeCorrect, PTL DEF Spec, NoSettlementAfterRefund

----------------------------------------------------------------------------
(* Isolated handlers *)

\* The points between a settlement and the end of its payout's submission.
Driving == {"submit", "record", "recordCommit", "compensate", "compensateCommit"}

Exclusive ==
    \A j, k \in Workers :
        pc[j] \in CommitPoints /\ pc[k] \in CommitPoints => j = k

\* What the handler about to commit has read is still so.
Fresh ==
    \A k \in Workers :
        LET w == on[k]
        IN  /\ pc[k] = "settleCommit" =>
                  /\ status[w] = "PENDING"
                  /\ seen[k].fee = fee[w]
                  /\ seen[k].balance = balance[Kind[w]]
                  /\ seen[k].account = account[Kind[w]]
                  /\ seen[k].clearing = clearing
            /\ pc[k] = "recordCommit" =>
                  /\ seen[k].account = account["PLATFORM"]
                  /\ seen[k].clearing = clearing
            /\ pc[k] = "rejectCommit" => status[w] = "PENDING"
            /\ pc[k] \in {"paidCommit", "compensateCommit"} =>
                  status[w] = "PROCESSING"
            /\ pc[k] = "failedCommit" => status[w] # "FAILED"
            /\ pc[k] = "createdCommit" => status[w] \notin {"COMPLETED", "FAILED"}

Books == WalletMatchesLedger /\ LedgerConserved

\* What the provider has said, and what status, hold and journal say together.
Stages ==
    /\ JournalTracksStatus
    /\ \A w \in Withdrawals :
          /\ status[w] = "NEW" => hold[w] = "NONE"
          /\ <<w, "failed">> \in sent => payout[w] = "FAILED"
          /\ <<w, "created">> \in sent => payout[w] # "NONE"
    /\ \A k \in Workers :
          /\ pc[k] \in {"failed", "failedCommit"} => payout[on[k]] = "FAILED"
          /\ pc[k] = "createdCommit" => payout[on[k]] # "NONE"

\* One handler at a time submits a withdrawal's payout, and it is debited.
Drivers ==
    /\ \A k \in Workers :
          /\ pc[k] \in Driving => status[on[k]] \notin {"NEW", "PENDING"}
          /\ pc[k] = "submit" /\ payout[on[k]] = "NONE" =>
                journal[on[k]] = "POSTED"
    /\ \A j, k \in Workers :
          pc[j] \in Driving /\ pc[k] \in Driving /\ on[j] = on[k] => j = k

IsolatedInv == Exclusive /\ Fresh /\ Books /\ Stages /\ Drivers

\* The initial state.
LEMMA InitIsolated == Init => IsolatedInv
  BY ConstantsAssumption
  DEF Init, IsolatedInv, Exclusive, Fresh, Books, Stages, Drivers,
      JournalTracksStatus, WalletMatchesLedger, LedgerConserved, Driving,
      CommitPoints

\* Requests.
LEMMA RequestIsolated ==
  ASSUME Isolated, TypeOK, SafeInv, IsolatedInv, NEW k \in Workers, MayRun(k),
         NEW w \in Withdrawals, Request(k, w)
  PROVE  IsolatedInv'
  <1> USE ConstantsAssumption, HandlerFacts
      DEF IsolatedInv, TypeOK, HandlersType, MayRun
  <1>1. Exclusive'
    BY DEF Exclusive, CommitPoints, Request, Goto, provider
  <1>2. Fresh'
    BY DEF Exclusive, Fresh, CommitPoints, RowsType, MoneyType, Request,
       Goto, provider
  <1>3. Books'
    BY DEF Fresh, Books, WalletMatchesLedger, LedgerConserved, MoneyType,
       RowsType, Request, Goto, provider
  <1>4. Stages'
    <2>1. /\ status[w] = "NEW"
          /\ status' = [status EXCEPT ![w] = "PENDING"]
          /\ hold' = [hold EXCEPT ![w] = "ACTIVE"]
          /\ UNCHANGED <<journal, payout, sent>>
      BY DEF Request, provider
    <2>2. JournalTracksStatus'
      BY <2>1 DEF Stages, JournalTracksStatus, RowsType
    <2>3. ASSUME NEW x \in Withdrawals
          PROVE  /\ status'[x] = "NEW" => hold'[x] = "NONE"
                 /\ <<x, "failed">> \in sent' => payout'[x] = "FAILED"
                 /\ <<x, "created">> \in sent' => payout'[x] # "NONE"
      <3>1. status'[x] = "NEW" => status[x] = "NEW" /\ x # w
        BY <2>1 DEF RowsType
      <3>2. x # w => hold'[x] = hold[x]
        BY <2>1 DEF RowsType
      <3> QED BY <2>1, <3>1, <3>2 DEF Stages
    <2>4. \A j \in Workers :
             /\ pc'[j] \in {"failed", "failedCommit"} => payout'[on'[j]] = "FAILED"
             /\ pc'[j] = "createdCommit" => payout'[on'[j]] # "NONE"
      BY <2>1 DEF Stages, Request, Goto
    <2> QED BY <2>2, <2>3, <2>4 DEF Stages
  <1>5. Drivers'
    <2>1. /\ pc'[k] \notin Driving
          /\ \A j \in Workers \ {k} : pc'[j] = pc[j] /\ on'[j] = on[j]
      BY DEF Request, Goto, Driving
    <2>2. /\ \A x \in Withdrawals :
               status[x] \notin {"NEW", "PENDING"} => status'[x] = status[x]
          /\ UNCHANGED <<payout, journal>>
      BY DEF Request, RowsType, provider
    <2>3. "submit" \in Driving
      BY DEF Driving
    <2> QED BY <2>1, <2>2, <2>3 DEF Drivers
  <1> QED BY <1>1, <1>2, <1>3, <1>4, <1>5

\* The read of a settlement.
LEMMA SettleReadIsolated ==
  ASSUME Isolated, TypeOK, SafeInv, IsolatedInv, NEW k \in Workers, MayRun(k),
         NEW w \in Withdrawals, NEW e \in Endpoints, pc[k] \in {"idle", "settle"},
         SettleRead(k, w, e)
  PROVE  IsolatedInv'
  <1> USE ConstantsAssumption, HandlerFacts
      DEF IsolatedInv, TypeOK, HandlersType, MayRun
  <1>1. Exclusive'
    BY DEF Exclusive, CommitPoints, SettleRead, Read, Goto, rows, money,
       provider
  <1>2. Fresh'
    BY DEF Exclusive, Fresh, CommitPoints, RowsType, MoneyType, SettleRead,
       Read, Goto, rows, money, provider
  <1>3. Books'
    BY DEF Fresh, Books, WalletMatchesLedger, LedgerConserved, MoneyType,
       RowsType, SettleRead, Read, Goto, rows, money, provider
  <1>4. Stages'
    BY DEF Stages, JournalTracksStatus, Fresh, SafeInv, Reserved,
       PendingIsReserved, SaidPaid, Debited, PayoutFollowsDebit, RowsType,
       ProviderType, SettleRead, Read, Goto, rows, money, provider
  <1>5. Drivers'
    BY DEF Drivers, Driving, CommitPoints, Stages, JournalTracksStatus,
       Fresh, SafeInv, Reserved, PendingIsReserved, Debited,
       PayoutFollowsDebit, RowsType, ProviderType, SettleRead, Read, Goto,
       rows, money, provider
  <1> QED BY <1>1, <1>2, <1>3, <1>4, <1>5

\* The write of a settlement.
LEMMA SettleCommitIsolated ==
  ASSUME Isolated, TypeOK, SafeInv, IsolatedInv, NEW k \in Workers, MayRun(k),
         SettleCommit(k)
  PROVE  IsolatedInv'
  <1> USE ConstantsAssumption, HandlerFacts
      DEF IsolatedInv, TypeOK, HandlersType, MayRun
  <1>1. Exclusive'
    BY DEF Exclusive, CommitPoints, SettleCommit, PostJournal,
       JournalConflict, Goto, provider, EntryStatuses
  <1>2. Fresh'
    BY DEF Exclusive, Fresh, CommitPoints, RowsType, MoneyType,
       SettleCommit, PostJournal, JournalConflict, Goto, provider,
       EntryStatuses
  <1>3. Books'
    BY DEF Fresh, Books, WalletMatchesLedger, LedgerConserved, MoneyType,
       RowsType, SettleCommit, PostJournal, JournalConflict, Goto, provider,
       EntryStatuses, SeenTotal, Snapshots, SafeInv, Reserved,
       PendingIsReserved
  <1>4. Stages'
    BY DEF Stages, JournalTracksStatus, Fresh, SafeInv, Reserved,
       PendingIsReserved, SaidPaid, Debited, PayoutFollowsDebit, RowsType,
       ProviderType, SettleCommit, PostJournal, JournalConflict, Goto,
       provider, EntryStatuses
  <1>5. Drivers'
    BY DEF Drivers, Driving, CommitPoints, Stages, JournalTracksStatus,
       Fresh, SafeInv, Reserved, PendingIsReserved, Debited,
       PayoutFollowsDebit, RowsType, ProviderType, SettleCommit,
       PostJournal, JournalConflict, Goto, provider, EntryStatuses
  <1> QED BY <1>1, <1>2, <1>3, <1>4, <1>5

\* The read of a rejection.
LEMMA RejectReadIsolated ==
  ASSUME Isolated, TypeOK, SafeInv, IsolatedInv, NEW k \in Workers, MayRun(k),
         NEW w \in Withdrawals, RejectRead(k, w)
  PROVE  IsolatedInv'
  <1> USE ConstantsAssumption, HandlerFacts
      DEF IsolatedInv, TypeOK, HandlersType, MayRun
  <1>1. Exclusive'
    BY DEF Exclusive, CommitPoints, RejectRead, Goto, rows, money, provider
  <1>2. Fresh'
    BY DEF Exclusive, Fresh, CommitPoints, RowsType, MoneyType, RejectRead,
       Goto, rows, money, provider
  <1>3. Books'
    BY DEF Fresh, Books, WalletMatchesLedger, LedgerConserved, MoneyType,
       RowsType, RejectRead, Goto, rows, money, provider
  <1>4. Stages'
    BY DEF Stages, JournalTracksStatus, Fresh, SafeInv, Reserved,
       PendingIsReserved, SaidPaid, Debited, PayoutFollowsDebit, RowsType,
       ProviderType, RejectRead, Goto, rows, money, provider
  <1>5. Drivers'
    BY DEF Drivers, Driving, CommitPoints, Stages, JournalTracksStatus,
       Fresh, SafeInv, Reserved, PendingIsReserved, Debited,
       PayoutFollowsDebit, RowsType, ProviderType, RejectRead, Goto, rows,
       money, provider
  <1> QED BY <1>1, <1>2, <1>3, <1>4, <1>5

\* The write of a rejection.
LEMMA RejectCommitIsolated ==
  ASSUME Isolated, TypeOK, SafeInv, IsolatedInv, NEW k \in Workers, MayRun(k),
         RejectCommit(k)
  PROVE  IsolatedInv'
  <1> USE ConstantsAssumption, HandlerFacts
      DEF IsolatedInv, TypeOK, HandlersType, MayRun
  <1>1. Exclusive'
    BY DEF Exclusive, CommitPoints, RejectCommit, Finish, Goto, provider
  <1>2. Fresh'
    BY DEF Exclusive, Fresh, CommitPoints, RowsType, MoneyType,
       RejectCommit, Finish, Goto, provider
  <1>3. Books'
    BY DEF Fresh, Books, WalletMatchesLedger, LedgerConserved, MoneyType,
       RowsType, RejectCommit, Finish, Goto, provider
  <1>4. Stages'
    BY DEF Stages, JournalTracksStatus, Fresh, SafeInv, Reserved,
       PendingIsReserved, SaidPaid, Debited, PayoutFollowsDebit, RowsType,
       ProviderType, RejectCommit, Finish, Goto, provider
  <1>5. Drivers'
    BY DEF Drivers, Driving, CommitPoints, Stages, JournalTracksStatus,
       Fresh, SafeInv, Reserved, PendingIsReserved, Debited,
       PayoutFollowsDebit, RowsType, ProviderType, RejectCommit, Finish,
       Goto, provider
  <1> QED BY <1>1, <1>2, <1>3, <1>4, <1>5

\* The call of the provider.
LEMMA SubmitIsolated ==
  ASSUME Isolated, TypeOK, SafeInv, IsolatedInv, NEW k \in Workers, MayRun(k),
         Submit(k)
  PROVE  IsolatedInv'
  <1> USE ConstantsAssumption, HandlerFacts
      DEF IsolatedInv, TypeOK, HandlersType, MayRun
  <1>1. Exclusive'
    BY DEF Exclusive, CommitPoints, Submit, AcceptPayout, Goto, rows, money,
       provider
  <1>2. Fresh'
    BY DEF Exclusive, Fresh, CommitPoints, RowsType, MoneyType, Submit,
       AcceptPayout, Goto, rows, money, provider
  <1>3. Books'
    BY DEF Fresh, Books, WalletMatchesLedger, LedgerConserved, MoneyType,
       RowsType, Submit, AcceptPayout, Goto, rows, money, provider
  <1>4. Stages'
    BY DEF Stages, JournalTracksStatus, Fresh, SafeInv, Reserved,
       PendingIsReserved, SaidPaid, Debited, PayoutFollowsDebit, RowsType,
       ProviderType, Submit, AcceptPayout, Goto, rows, money, provider
  <1>5. Drivers'
    BY DEF Drivers, Driving, ProviderType, Submit, AcceptPayout, Goto, rows,
       provider
  <1> QED BY <1>1, <1>2, <1>3, <1>4, <1>5

\* The read of the recording transaction.
LEMMA RecordReadIsolated ==
  ASSUME Isolated, TypeOK, SafeInv, IsolatedInv, NEW k \in Workers, MayRun(k),
         RecordRead(k)
  PROVE  IsolatedInv'
  <1> USE ConstantsAssumption, HandlerFacts
      DEF IsolatedInv, TypeOK, HandlersType, MayRun
  <1>1. Exclusive'
    BY DEF Exclusive, CommitPoints, RecordRead, Goto, rows, money, provider
  <1>2. Fresh'
    BY DEF Exclusive, Fresh, CommitPoints, RowsType, MoneyType, RecordRead,
       Goto, rows, money, provider
  <1>3. Books'
    BY DEF Fresh, Books, WalletMatchesLedger, LedgerConserved, MoneyType,
       RowsType, RecordRead, Goto, rows, money, provider
  <1>4. Stages'
    BY DEF Stages, JournalTracksStatus, Fresh, SafeInv, Reserved,
       PendingIsReserved, SaidPaid, Debited, PayoutFollowsDebit, RowsType,
       ProviderType, RecordRead, Goto, rows, money, provider
  <1>5. Drivers'
    BY DEF Drivers, Driving, CommitPoints, Stages, JournalTracksStatus,
       Fresh, SafeInv, Reserved, PendingIsReserved, Debited,
       PayoutFollowsDebit, RowsType, ProviderType, RecordRead, Goto, rows,
       money, provider
  <1> QED BY <1>1, <1>2, <1>3, <1>4, <1>5

\* The write of the recording transaction.
LEMMA RecordCommitIsolated ==
  ASSUME Isolated, TypeOK, SafeInv, IsolatedInv, NEW k \in Workers, MayRun(k),
         RecordCommit(k)
  PROVE  IsolatedInv'
  <1> USE ConstantsAssumption, HandlerFacts
      DEF IsolatedInv, TypeOK, HandlersType, MayRun
  <1>1. Exclusive'
    BY DEF Exclusive, CommitPoints, RecordCommit, Finish, Goto, provider
  <1>2. Fresh'
    BY DEF Exclusive, Fresh, CommitPoints, RowsType, MoneyType,
       RecordCommit, Finish, Goto, provider
  <1>3. Books'
    <2>1. /\ seen[k].account = account["PLATFORM"]
          /\ seen[k].clearing = clearing
      BY DEF Fresh, RecordCommit
    <2>2. CASE Kind[on[k]] = "ORGANIZATION"
      <3> DEFINE share == NonNegative(seen[k].fee - payoutFee[on[k]])
      <3>1. share \in Nat
        BY NonNegativeType DEF ProviderType, Snapshots
      <3>2. \/ UNCHANGED <<account, clearing, balance>>
            \/ /\ account' = [account EXCEPT !["PLATFORM"] = @ + share]
               /\ clearing' = clearing - share
               /\ balance' = [balance EXCEPT !["PLATFORM"] = @ + share]
        BY <2>1, <2>2 DEF RecordCommit, RecordOrganizationPayout
      <3> HIDE DEF share
      <3> QED BY <3>1, <3>2 DEF Books, WalletMatchesLedger, LedgerConserved,
                                MoneyType, RecordCommit
    <2>3. CASE Kind[on[k]] # "ORGANIZATION"
      <3> DEFINE difference == payoutFee[on[k]] - seen[k].fee
      <3>1. difference \in Int
        BY DEF ProviderType, Snapshots
      <3>2. /\ balance' = [balance EXCEPT ![Kind[on[k]]] = @ - difference]
            /\ account' = [account EXCEPT ![Kind[on[k]]] = @ - difference]
            /\ clearing' = clearing + difference
        BY <2>3 DEF RecordCommit, RecordOtherPayout
      <3> HIDE DEF difference
      <3> QED BY <3>1, <3>2 DEF Books, WalletMatchesLedger, LedgerConserved,
                                MoneyType, RecordCommit
    <2> QED BY <2>2, <2>3
  <1>4. Stages'
    BY DEF Stages, JournalTracksStatus, Fresh, SafeInv, Reserved,
       PendingIsReserved, SaidPaid, Debited, PayoutFollowsDebit, RowsType,
       ProviderType, RecordCommit, Finish, Goto, provider
  <1>5. Drivers'
    BY DEF Drivers, Driving, CommitPoints, Stages, JournalTracksStatus,
       Fresh, SafeInv, Reserved, PendingIsReserved, Debited,
       PayoutFollowsDebit, RowsType, ProviderType, RecordCommit, Finish,
       Goto, provider
  <1> QED BY <1>1, <1>2, <1>3, <1>4, <1>5

\* A failed recording.
LEMMA RecordFailsIsolated ==
  ASSUME Isolated, TypeOK, SafeInv, IsolatedInv, NEW k \in Workers, MayRun(k),
         RecordFails(k)
  PROVE  IsolatedInv'
  <1> USE ConstantsAssumption, HandlerFacts
      DEF IsolatedInv, TypeOK, HandlersType, MayRun
  <1>1. Exclusive'
    BY DEF Exclusive, CommitPoints, RecordFails, Goto, rows, money, provider
  <1>2. Fresh'
    BY DEF Exclusive, Fresh, CommitPoints, RowsType, MoneyType, RecordFails,
       Goto, rows, money, provider
  <1>3. Books'
    BY DEF Fresh, Books, WalletMatchesLedger, LedgerConserved, MoneyType,
       RowsType, RecordFails, Goto, rows, money, provider
  <1>4. Stages'
    BY DEF Stages, JournalTracksStatus, Fresh, SafeInv, Reserved,
       PendingIsReserved, SaidPaid, Debited, PayoutFollowsDebit, RowsType,
       ProviderType, RecordFails, Goto, rows, money, provider
  <1>5. Drivers'
    BY DEF Drivers, Driving, CommitPoints, Stages, JournalTracksStatus,
       Fresh, SafeInv, Reserved, PendingIsReserved, Debited,
       PayoutFollowsDebit, RowsType, ProviderType, RecordFails, Goto, rows,
       money, provider
  <1> QED BY <1>1, <1>2, <1>3, <1>4, <1>5

\* The read of the compensation.
LEMMA CompensateReadIsolated ==
  ASSUME Isolated, TypeOK, SafeInv, IsolatedInv, NEW k \in Workers, MayRun(k),
         CompensateRead(k)
  PROVE  IsolatedInv'
  <1> USE ConstantsAssumption, HandlerFacts
      DEF IsolatedInv, TypeOK, HandlersType, MayRun
  <1>1. Exclusive'
    BY DEF Exclusive, CommitPoints, CompensateRead, Finish, Goto, rows,
       money, provider
  <1>2. Fresh'
    BY DEF Exclusive, Fresh, CommitPoints, RowsType, MoneyType,
       CompensateRead, Finish, Goto, rows, money, provider
  <1>3. Books'
    BY DEF Fresh, Books, WalletMatchesLedger, LedgerConserved, MoneyType,
       RowsType, CompensateRead, Finish, Goto, rows, money, provider
  <1>4. Stages'
    BY DEF Stages, JournalTracksStatus, CompensateRead, Finish, Goto, rows,
       provider
  <1>5. Drivers'
    BY DEF Drivers, Driving, CompensateRead, Finish, Goto, rows, provider
  <1> QED BY <1>1, <1>2, <1>3, <1>4, <1>5

\* The write of the compensation.
LEMMA CompensateCommitIsolated ==
  ASSUME Isolated, TypeOK, SafeInv, IsolatedInv, NEW k \in Workers, MayRun(k),
         CompensateCommit(k)
  PROVE  IsolatedInv'
  <1> USE ConstantsAssumption, HandlerFacts
      DEF IsolatedInv, TypeOK, HandlersType, MayRun
  <1>1. Exclusive'
    BY DEF Exclusive, CommitPoints, CompensateCommit, ReverseJournal,
       Finish, Goto, provider, EntryStatuses
  <1>2. Fresh'
    BY DEF Exclusive, Fresh, CommitPoints, RowsType, MoneyType,
       CompensateCommit, ReverseJournal, Finish, Goto, provider,
       EntryStatuses
  <1>3. Books'
    BY DEF Fresh, Books, WalletMatchesLedger, LedgerConserved, MoneyType,
       RowsType, CompensateCommit, ReverseJournal, Finish, Goto, provider,
       EntryStatuses, Refund, Snapshots
  <1>4. Stages'
    BY DEF Stages, JournalTracksStatus, Fresh, SafeInv, Reserved,
       PendingIsReserved, SaidPaid, Debited, PayoutFollowsDebit, RowsType,
       ProviderType, CompensateCommit, ReverseJournal, Finish, Goto,
       provider, EntryStatuses
  <1>5. Drivers'
    BY DEF Drivers, Driving, CommitPoints, Stages, JournalTracksStatus,
       Fresh, SafeInv, Reserved, PendingIsReserved, Debited,
       PayoutFollowsDebit, RowsType, ProviderType, CompensateCommit,
       ReverseJournal, Finish, Goto, provider, EntryStatuses
  <1> QED BY <1>1, <1>2, <1>3, <1>4, <1>5

\* The cron takes up a stale row.
LEMMA ReconcileIsolated ==
  ASSUME Isolated, TypeOK, SafeInv, IsolatedInv, NEW k \in Workers, MayRun(k),
         NEW w \in Withdrawals, Reconcile(k, w)
  PROVE  IsolatedInv'
  <1> USE ConstantsAssumption, HandlerFacts
      DEF IsolatedInv, TypeOK, HandlersType, MayRun
  <1>1. Exclusive'
    BY DEF Exclusive, CommitPoints, Reconcile, Goto, rows, money, provider
  <1>2. Fresh'
    BY DEF Exclusive, Fresh, CommitPoints, RowsType, MoneyType, Reconcile,
       Goto, rows, money, provider
  <1>3. Books'
    BY DEF Fresh, Books, WalletMatchesLedger, LedgerConserved, MoneyType,
       RowsType, Reconcile, Goto, rows, money, provider
  <1>4. Stages'
    BY DEF Stages, JournalTracksStatus, Fresh, SafeInv, Reserved,
       PendingIsReserved, SaidPaid, Debited, PayoutFollowsDebit, RowsType,
       ProviderType, Reconcile, Goto, rows, money, provider
  <1>5. Drivers'
    BY DEF Drivers, Driving, CommitPoints, Stages, JournalTracksStatus,
       Fresh, SafeInv, Reserved, PendingIsReserved, Debited,
       PayoutFollowsDebit, RowsType, ProviderType, Reconcile, Goto, rows,
       money, provider
  <1> QED BY <1>1, <1>2, <1>3, <1>4, <1>5

\* The cron's handler reads the row.
LEMMA ReconcileReadIsolated ==
  ASSUME Isolated, TypeOK, SafeInv, IsolatedInv, NEW k \in Workers, MayRun(k),
         ReconcileRead(k)
  PROVE  IsolatedInv'
  <1> USE ConstantsAssumption, HandlerFacts
      DEF IsolatedInv, TypeOK, HandlersType, MayRun
  <1>1. Exclusive'
    BY DEF Exclusive, CommitPoints, ReconcileRead, HandlerRead, PaidApplies,
       FailedApplies, Finish, Goto, rows, money, provider
  <1>2. Fresh'
    BY DEF Exclusive, Fresh, CommitPoints, RowsType, MoneyType,
       ReconcileRead, HandlerRead, PaidApplies, FailedApplies, Finish, Goto,
       rows, money, provider
  <1>3. Books'
    BY DEF Fresh, Books, WalletMatchesLedger, LedgerConserved, MoneyType,
       RowsType, ReconcileRead, HandlerRead, PaidApplies, FailedApplies,
       Finish, Goto, rows, money, provider
  <1>4. Stages'
    BY DEF Stages, JournalTracksStatus, ReconcileRead, HandlerRead, Finish,
       Goto, rows, provider
  <1>5. Drivers'
    BY DEF Drivers, Driving, ReconcileRead, HandlerRead, Finish, Goto, rows,
       provider
  <1> QED BY <1>1, <1>2, <1>3, <1>4, <1>5

\* A paid event.
LEMMA PaidWebhookIsolated ==
  ASSUME Isolated, TypeOK, SafeInv, IsolatedInv, NEW k \in Workers, MayRun(k),
         NEW w \in Withdrawals, PaidWebhook(k, w)
  PROVE  IsolatedInv'
  <1> USE ConstantsAssumption, HandlerFacts
      DEF IsolatedInv, TypeOK, HandlersType, MayRun
  <1>1. Exclusive'
    BY DEF Exclusive, CommitPoints, PaidWebhook, PaidApplies, Deliver,
       HandlerRead, Goto, rows, money, provider
  <1>2. Fresh'
    BY DEF Exclusive, Fresh, CommitPoints, RowsType, MoneyType, PaidWebhook,
       PaidApplies, Deliver, HandlerRead, Goto, rows, money, provider
  <1>3. Books'
    BY DEF Fresh, Books, WalletMatchesLedger, LedgerConserved, MoneyType,
       RowsType, PaidWebhook, PaidApplies, Deliver, HandlerRead, Goto, rows,
       money, provider
  <1>4. Stages'
    BY DEF Stages, JournalTracksStatus, Fresh, SafeInv, Reserved,
       PendingIsReserved, SaidPaid, Debited, PayoutFollowsDebit, RowsType,
       ProviderType, PaidWebhook, PaidApplies, Deliver, HandlerRead, Goto,
       rows, money, provider
  <1>5. Drivers'
    BY DEF Drivers, Driving, CommitPoints, Stages, JournalTracksStatus,
       Fresh, SafeInv, Reserved, PendingIsReserved, Debited,
       PayoutFollowsDebit, RowsType, ProviderType, PaidWebhook, PaidApplies,
       Deliver, HandlerRead, Goto, rows, money, provider
  <1> QED BY <1>1, <1>2, <1>3, <1>4, <1>5

\* A failed event.
LEMMA FailedWebhookIsolated ==
  ASSUME Isolated, TypeOK, SafeInv, IsolatedInv, NEW k \in Workers, MayRun(k),
         NEW w \in Withdrawals, FailedWebhook(k, w)
  PROVE  IsolatedInv'
  <1> USE ConstantsAssumption, HandlerFacts
      DEF IsolatedInv, TypeOK, HandlersType, MayRun
  <1>1. Exclusive'
    BY DEF Exclusive, CommitPoints, FailedWebhook, FailedApplies, Deliver,
       HandlerRead, Goto, rows, money, provider
  <1>2. Fresh'
    BY DEF Exclusive, Fresh, CommitPoints, RowsType, MoneyType,
       FailedWebhook, FailedApplies, Deliver, HandlerRead, Goto, rows,
       money, provider
  <1>3. Books'
    BY DEF Fresh, Books, WalletMatchesLedger, LedgerConserved, MoneyType,
       RowsType, FailedWebhook, FailedApplies, Deliver, HandlerRead, Goto,
       rows, money, provider
  <1>4. Stages'
    BY ZenonT(40) DEF Stages, JournalTracksStatus, FailedWebhook, Deliver, HandlerRead,
       Goto, rows, provider
  <1>5. Drivers'
    BY DEF Drivers, Driving, CommitPoints, Stages, JournalTracksStatus,
       Fresh, SafeInv, Reserved, PendingIsReserved, Debited,
       PayoutFollowsDebit, RowsType, ProviderType, FailedWebhook,
       FailedApplies, Deliver, HandlerRead, Goto, rows, money, provider
  <1> QED BY <1>1, <1>2, <1>3, <1>4, <1>5

\* A created event.
LEMMA CreatedWebhookIsolated ==
  ASSUME Isolated, TypeOK, SafeInv, IsolatedInv, NEW k \in Workers, MayRun(k),
         NEW w \in Withdrawals, CreatedWebhook(k, w)
  PROVE  IsolatedInv'
  <1> USE ConstantsAssumption, HandlerFacts
      DEF IsolatedInv, TypeOK, HandlersType, MayRun
  <1>1. Exclusive'
    BY DEF Exclusive, CommitPoints, CreatedWebhook, CreatedApplies, Deliver,
       HandlerRead, Goto, rows, money, provider
  <1>2. Fresh'
    BY DEF Exclusive, Fresh, CommitPoints, RowsType, MoneyType,
       CreatedWebhook, CreatedApplies, Deliver, HandlerRead, Goto, rows,
       money, provider
  <1>3. Books'
    BY DEF Fresh, Books, WalletMatchesLedger, LedgerConserved, MoneyType,
       RowsType, CreatedWebhook, CreatedApplies, Deliver, HandlerRead, Goto,
       rows, money, provider
  <1>4. Stages'
    BY ZenonT(40) DEF Stages, JournalTracksStatus, CreatedWebhook, Deliver,
       HandlerRead, Goto, rows, provider
  <1>5. Drivers'
    BY DEF Drivers, Driving, CommitPoints, Stages, JournalTracksStatus,
       Fresh, SafeInv, Reserved, PendingIsReserved, Debited,
       PayoutFollowsDebit, RowsType, ProviderType, CreatedWebhook,
       CreatedApplies, Deliver, HandlerRead, Goto, rows, money, provider
  <1> QED BY <1>1, <1>2, <1>3, <1>4, <1>5

\* The write of a paid event.
LEMMA PaidCommitIsolated ==
  ASSUME Isolated, TypeOK, SafeInv, IsolatedInv, NEW k \in Workers, MayRun(k),
         PaidCommit(k)
  PROVE  IsolatedInv'
  <1> USE ConstantsAssumption, HandlerFacts
      DEF IsolatedInv, TypeOK, HandlersType, MayRun
  <1>1. Exclusive'
    BY DEF Exclusive, CommitPoints, PaidCommit, Finish, Goto, money,
       provider
  <1>2. Fresh'
    BY DEF Exclusive, Fresh, CommitPoints, RowsType, MoneyType, PaidCommit,
       Finish, Goto, money, provider
  <1>3. Books'
    BY DEF Fresh, Books, WalletMatchesLedger, LedgerConserved, MoneyType,
       RowsType, PaidCommit, Finish, Goto, money, provider
  <1>4. Stages'
    BY DEF Stages, JournalTracksStatus, Fresh, SafeInv, Reserved,
       PendingIsReserved, SaidPaid, Debited, PayoutFollowsDebit, RowsType,
       ProviderType, PaidCommit, Finish, Goto, money, provider
  <1>5. Drivers'
    BY DEF Drivers, Driving, CommitPoints, Stages, JournalTracksStatus,
       Fresh, SafeInv, Reserved, PendingIsReserved, Debited,
       PayoutFollowsDebit, RowsType, ProviderType, PaidCommit, Finish, Goto,
       money, provider
  <1> QED BY <1>1, <1>2, <1>3, <1>4, <1>5

\* The write of a failed event.
LEMMA FailedCommitIsolated ==
  ASSUME Isolated, TypeOK, SafeInv, IsolatedInv, NEW k \in Workers, MayRun(k),
         FailedCommit(k)
  PROVE  IsolatedInv'
  <1> USE ConstantsAssumption, HandlerFacts
      DEF IsolatedInv, TypeOK, HandlersType, MayRun
  <1>1. Exclusive'
    BY DEF Exclusive, CommitPoints, FailedCommit, ReverseJournal, Finish,
       Goto, provider, EntryStatuses
  <1>2. Fresh'
    BY DEF Exclusive, Fresh, CommitPoints, RowsType, MoneyType,
       FailedCommit, ReverseJournal, Finish, Goto, provider, EntryStatuses
  <1>3. Books'
    BY DEF Fresh, Books, WalletMatchesLedger, LedgerConserved, MoneyType,
       RowsType, FailedCommit, ReverseJournal, Finish, Goto, provider,
       EntryStatuses, Refund, Snapshots
  <1>4. Stages'
    BY DEF Stages, JournalTracksStatus, Fresh, SafeInv, Reserved,
       PendingIsReserved, SaidPaid, Debited, PayoutFollowsDebit, RowsType,
       ProviderType, FailedCommit, ReverseJournal, Finish, Goto, provider,
       EntryStatuses
  <1>5. Drivers'
    BY DEF Drivers, Driving, CommitPoints, Stages, JournalTracksStatus,
       Fresh, SafeInv, Reserved, PendingIsReserved, Debited,
       PayoutFollowsDebit, RowsType, ProviderType, FailedCommit,
       ReverseJournal, Finish, Goto, provider, EntryStatuses
  <1> QED BY <1>1, <1>2, <1>3, <1>4, <1>5

\* The write of a created event.
LEMMA CreatedCommitIsolated ==
  ASSUME Isolated, TypeOK, SafeInv, IsolatedInv, NEW k \in Workers, MayRun(k),
         CreatedCommit(k)
  PROVE  IsolatedInv'
  <1> USE ConstantsAssumption, HandlerFacts
      DEF IsolatedInv, TypeOK, HandlersType, MayRun
  <1>1. Exclusive'
    BY DEF Exclusive, CommitPoints, CreatedCommit, Finish, Goto, money,
       provider
  <1>2. Fresh'
    BY DEF Exclusive, Fresh, CommitPoints, RowsType, MoneyType,
       CreatedCommit, Finish, Goto, money, provider
  <1>3. Books'
    BY DEF Fresh, Books, WalletMatchesLedger, LedgerConserved, MoneyType,
       RowsType, CreatedCommit, Finish, Goto, money, provider
  <1>4. Stages'
    <2>1. status[on[k]] = "PROCESSING" /\ journal[on[k]] = "POSTED"
      BY DEF CreatedCommit, Fresh, Stages, JournalTracksStatus, SafeInv,
             Reserved, PendingIsReserved, Debited, PayoutFollowsDebit,
             RowsType, Statuses
    <2> QED
      BY <2>1 DEF Stages, JournalTracksStatus, RowsType, CreatedCommit, Finish,
                  Goto, provider
  <1>5. Drivers'
    BY DEF Drivers, Driving, CommitPoints, Stages, JournalTracksStatus,
       Fresh, SafeInv, Reserved, PendingIsReserved, Debited,
       PayoutFollowsDebit, RowsType, ProviderType, CreatedCommit, Finish,
       Goto, money, provider
  <1> QED BY <1>1, <1>2, <1>3, <1>4, <1>5

\* A handler that only ends.
LEMMA FinishedIsolated ==
  ASSUME Isolated, TypeOK, SafeInv, IsolatedInv, NEW k \in Workers, MayRun(k),
         Finish(k), UNCHANGED <<rows, money, credits, late, provider>>
  PROVE  IsolatedInv'
  <1> USE ConstantsAssumption, HandlerFacts
      DEF IsolatedInv, TypeOK, HandlersType, MayRun
  <1>1. Exclusive'
    BY DEF Exclusive, CommitPoints, Finish, Goto, rows, money, provider
  <1>2. Fresh'
    BY DEF Exclusive, Fresh, CommitPoints, RowsType, MoneyType, Finish,
       Goto, rows, money, provider
  <1>3. Books'
    BY DEF Fresh, Books, WalletMatchesLedger, LedgerConserved, MoneyType,
       RowsType, Finish, Goto, rows, money, provider
  <1>4. Stages'
    BY DEF Stages, JournalTracksStatus, Fresh, SafeInv, Reserved,
       PendingIsReserved, SaidPaid, Debited, PayoutFollowsDebit, RowsType,
       ProviderType, Finish, Goto, rows, money, provider
  <1>5. Drivers'
    BY DEF Drivers, Driving, CommitPoints, Stages, JournalTracksStatus,
       Fresh, SafeInv, Reserved, PendingIsReserved, Debited,
       PayoutFollowsDebit, RowsType, ProviderType, Finish, Goto, rows,
       money, provider
  <1> QED BY <1>1, <1>2, <1>3, <1>4, <1>5

\* Every step of isolated handlers keeps the invariant.
LEMMA IsolatedStep ==
  ASSUME Isolated, TypeOK, SafeInv, IsolatedInv, [Next]_vars
  PROVE  IsolatedInv'
  <1>1. ASSUME NEW k \in Workers, MayRun(k), Continue(k) PROVE IsolatedInv'
    <2>1. CASE SettleOwn(k)
      BY <1>1, <2>1, SettleReadIsolated, FinishedIsolated, HandlerFacts
      DEF SettleOwn
    <2>2. CASE SettleRollback(k)
      BY <1>1, <2>2, FinishedIsolated DEF SettleRollback
    <2> QED BY <1>1, <2>1, <2>2, SettleCommitIsolated, RejectCommitIsolated,
               SubmitIsolated, RecordReadIsolated, RecordCommitIsolated,
               CompensateReadIsolated, CompensateCommitIsolated,
               ReconcileReadIsolated, PaidCommitIsolated,
               FailedCommitIsolated, CreatedCommitIsolated
            DEF Continue
  <1>2. ASSUME NEW k \in Workers, MayRun(k), NEW w \in Withdrawals, Start(k, w)
        PROVE  IsolatedInv'
    BY <1>2, RequestIsolated, SettleReadIsolated, RejectReadIsolated,
       PaidWebhookIsolated, FailedWebhookIsolated, CreatedWebhookIsolated,
       ReconcileIsolated DEF Start, Approve
  <1>3. ASSUME NEW k \in Workers, MayRun(k), RecordFails(k) \/ Crash(k)
        PROVE  IsolatedInv'
    BY <1>3, RecordFailsIsolated, FinishedIsolated DEF Crash
  <1>4. ASSUME NEW w \in Withdrawals, Decide(w) PROVE IsolatedInv'
    <2> USE DEF Decide, IsolatedInv, rows, money, handlers
    <2>1. Exclusive' /\ Fresh' /\ Books'
      BY <1>4 DEF Exclusive, Fresh, Books, WalletMatchesLedger, LedgerConserved
    <2>2. Stages'
      BY <1>4 DEF Stages, JournalTracksStatus, TypeOK, ProviderType, HandlersType
    <2>3. Drivers'
      BY <1>4 DEF Drivers, TypeOK, ProviderType, HandlersType
    <2> QED BY <2>1, <2>2, <2>3
  <1>5. ASSUME NEW x \in Kinds, Credit(x) PROVE IsolatedInv'
    <2> USE DEF Credit, IsolatedInv, rows, provider, handlers
    <2>1. Exclusive' /\ Stages' /\ Drivers'
      BY <1>5 DEF Exclusive, Stages, JournalTracksStatus, Drivers
    <2>2. Fresh'
      BY <1>5 DEF Fresh, CommitPoints
    <2>3. WalletMatchesLedger'
      BY <1>5 DEF Books, WalletMatchesLedger, TypeOK, MoneyType
    <2>4. LedgerConserved'
      <3>1. CASE x = "USER"
        BY <1>5, <3>1, ConstantsAssumption
        DEF Books, LedgerConserved, TypeOK, MoneyType
      <3>2. CASE x = "ORGANIZATION"
        BY <1>5, <3>2, ConstantsAssumption
        DEF Books, LedgerConserved, TypeOK, MoneyType
      <3>3. CASE x = "PLATFORM"
        BY <1>5, <3>3, ConstantsAssumption
        DEF Books, LedgerConserved, TypeOK, MoneyType
      <3> QED BY <3>1, <3>2, <3>3
    <2> QED BY <2>1, <2>2, <2>3, <2>4 DEF Books
  <1>6. CASE UNCHANGED vars
    BY <1>6 DEF IsolatedInv, Exclusive, Fresh, Books, Stages, Drivers,
            WalletMatchesLedger, LedgerConserved, JournalTracksStatus,
            vars, rows, money, provider, handlers
  <1> QED BY <1>1, <1>2, <1>3, <1>4, <1>5, <1>6 DEF Next

\* Every state that isolated handlers reach.
LEMMA IsolatedSafe ==
  ASSUME Isolated
  PROVE  Spec => []IsolatedInv
  <1>1. Init => IsolatedInv
    BY InitIsolated
  <1>2. TypeOK /\ SafeInv /\ IsolatedInv /\ [Next]_vars => IsolatedInv'
    BY IsolatedStep
  <1> QED BY <1>1, <1>2, TypeCorrect, Safe, PTL DEF Spec

\* Without lost updates every wallet row equals its ledger account: each
\* settlement, refund, fee correction and fee share moves both alike.
THEOREM WalletsMatch ==
  ASSUME Isolated
  PROVE  Spec => []WalletMatchesLedger
  <1>1. IsolatedInv => WalletMatchesLedger
    BY DEF IsolatedInv, Books
  <1> QED BY <1>1, IsolatedSafe, PTL

\* Without lost updates the ledger neither makes nor loses money.
THEOREM LedgerBalanced ==
  ASSUME Isolated
  PROVE  Spec => []LedgerConserved
  <1>1. IsolatedInv => LedgerConserved
    BY DEF IsolatedInv, Books
  <1> QED BY <1>1, IsolatedSafe, PTL

\* Without overlapping handlers a withdrawal is debited exactly while it is
\* processing or completed.
THEOREM JournalFollows ==
  ASSUME Isolated
  PROVE  Spec => []JournalTracksStatus
  <1>1. IsolatedInv => JournalTracksStatus
    BY DEF IsolatedInv, Stages
  <1> QED BY <1>1, IsolatedSafe, PTL

----------------------------------------------------------------------------
(* Isolated handlers implement the abstract withdrawal *)

\* The initial state is one of the abstract withdrawal's.
LEMMA InitPromise == Init => Promise!Init
  BY DEF Init, Promise!Init, Funds

\* A step that leaves status, hold, journal and payout is a stutter.
LEMMA QuietPromise ==
  ASSUME UNCHANGED <<status, hold, journal, payout>>
  PROVE  UNCHANGED Promise!promised
  BY DEF Promise!promised, Funds

\* The status of a withdrawal whose failed or created event is being handled.
LEMMA HandledIsProcessing ==
  ASSUME TypeOK, SafeInv, IsolatedInv, NEW k \in Workers,
         pc[k] \in {"paidCommit", "compensateCommit", "failedCommit", "createdCommit"}
  PROVE  status[on[k]] = "PROCESSING" /\ journal[on[k]] = "POSTED"
  <1>1. on[k] \in Withdrawals /\ status[on[k]] \in Statuses
    BY DEF TypeOK, RowsType, HandlersType
  <1>2. CASE pc[k] \in {"paidCommit", "compensateCommit"}
    BY <1>1, <1>2 DEF IsolatedInv, Fresh, Stages, JournalTracksStatus
  <1>3. CASE pc[k] \in {"failedCommit", "createdCommit"}
    BY <1>1, <1>3 DEF IsolatedInv, Fresh, Stages, JournalTracksStatus, SafeInv,
       Reserved, PendingIsReserved, SaidPaid, CompletedIsPaid, Debited,
       PayoutFollowsDebit, Statuses
  <1> QED BY <1>2, <1>3

\* A step that touches the hold and journal of one withdrawal moves its funds
\* and no other's.
LEMMA FundsMove ==
  ASSUME NEW w \in Withdrawals, NEW money1,
         Funds(w)' = money1,
         \A x \in Withdrawals \ {w} : hold'[x] = hold[x] /\ journal'[x] = journal[x]
  PROVE  [x \in Withdrawals |-> Funds(x)]'
           = [[x \in Withdrawals |-> Funds(x)] EXCEPT ![w] = money1]
  <1>1. \A x \in Withdrawals \ {w} : Funds(x)' = Funds(x)
    BY DEF Funds
  <1> QED BY <1>1

\* Every step is an abstract step or a stutter.
LEMMA PromiseStep ==
  ASSUME Isolated, TypeOK, SafeInv, IsolatedInv, [Next]_vars
  PROVE  [Promise!Next]_(Promise!promised)
  <1> USE DEF Promise!Next, Promise!Move, Funds
  <1>1. ASSUME NEW k \in Workers, NEW w \in Withdrawals, Request(k, w)
        PROVE  Promise!Reserve(w)
    <2>1. Funds(w) = "free" /\ status[w] = "NEW"
      BY <1>1 DEF Request, IsolatedInv, Stages, SafeInv, Reserved
    <2>2. /\ Funds(w)' = "reserved"
          /\ \A x \in Withdrawals \ {w} : hold'[x] = hold[x] /\ journal'[x] = journal[x]
      BY <1>1 DEF Request, SafeInv, Reserved, TypeOK, RowsType
    <2>3. status' = [status EXCEPT ![w] = "PENDING"] /\ UNCHANGED payout
      BY <1>1 DEF Request, provider
    <2> HIDE DEF Funds
    <2> QED BY <2>1, <2>2, <2>3, FundsMove DEF Promise!Reserve
  <1>2. ASSUME NEW k \in Workers, NEW w \in Withdrawals, w = on[k],
               SettleCommit(k)
        PROVE  Promise!Settle(w)
    <2>1. /\ w \in Withdrawals
          /\ status[w] = "PENDING"
          /\ hold[w] = "ACTIVE"
          /\ journal[w] = "NONE"
      BY <1>2, HandlerFacts DEF SettleCommit, IsolatedInv, Fresh, SafeInv,
                  Reserved, PendingIsReserved
    <2>2. /\ status' = [status EXCEPT ![w] = "PROCESSING"]
          /\ journal' = [journal EXCEPT ![w] = "POSTED"]
          /\ \A x \in Withdrawals \ {w} : hold'[x] = hold[x]
          /\ UNCHANGED payout
      BY <1>2, <2>1 DEF SettleCommit, PostJournal, TypeOK, RowsType, provider
    <2>3. Funds(w) = "reserved" /\ Funds(w)' = "debited"
      BY <2>1, <2>2 DEF TypeOK, RowsType
    <2>4. \A x \in Withdrawals \ {w} :
             hold'[x] = hold[x] /\ journal'[x] = journal[x]
      BY <2>1, <2>2 DEF TypeOK, RowsType
    <2> HIDE DEF Funds
    <2> QED BY <2>1, <2>2, <2>3, <2>4, FundsMove DEF Promise!Settle
  <1>3. ASSUME NEW k \in Workers, NEW w \in Withdrawals, w = on[k],
               RejectCommit(k)
        PROVE  Promise!Decline(w)
    <2>1. /\ w \in Withdrawals
          /\ status[w] = "PENDING"
          /\ hold[w] = "ACTIVE"
          /\ journal[w] = "NONE"
      BY <1>3, HandlerFacts DEF RejectCommit, IsolatedInv, Fresh, SafeInv,
                  Reserved, PendingIsReserved
    <2>2. status' = [status EXCEPT ![w] = "FAILED"] /\ UNCHANGED payout
      BY <1>3 DEF RejectCommit, provider
    <2>3. Funds(w) = "reserved" /\ Funds(w)' = "free"
      BY <1>3, <2>1 DEF RejectCommit, TypeOK, RowsType
    <2>4. \A x \in Withdrawals \ {w} :
             hold'[x] = hold[x] /\ journal'[x] = journal[x]
      BY <1>3, <2>1 DEF RejectCommit, TypeOK, RowsType
    <2> HIDE DEF Funds
    <2> QED BY <2>1, <2>2, <2>3, <2>4, FundsMove DEF Promise!Decline
  <1>4. ASSUME NEW k \in Workers, NEW w \in Withdrawals, w = on[k],
               CompensateCommit(k) \/ FailedCommit(k)
        PROVE  Promise!GiveBack(w)
    <2>1. /\ w \in Withdrawals
          /\ status[w] = "PROCESSING"
          /\ journal[w] = "POSTED"
      BY <1>4, HandlerFacts, HandledIsProcessing
      DEF CompensateCommit, FailedCommit
    <2>2. /\ status' = [status EXCEPT ![w] = "FAILED"]
          /\ journal' = [journal EXCEPT ![w] = "REVERSED"]
          /\ \A x \in Withdrawals \ {w} : hold'[x] = hold[x]
          /\ UNCHANGED payout
      BY <1>4, <2>1 DEF CompensateCommit, FailedCommit, ReverseJournal, TypeOK,
                        RowsType, provider
    <2>3. Funds(w) = "debited" /\ Funds(w)' = "returned"
      BY <2>1, <2>2 DEF TypeOK, RowsType
    <2>4. \A x \in Withdrawals \ {w} :
             hold'[x] = hold[x] /\ journal'[x] = journal[x]
      BY <2>1, <2>2 DEF TypeOK, RowsType
    <2> HIDE DEF Funds
    <2> QED BY <2>1, <2>2, <2>3, <2>4, FundsMove DEF Promise!GiveBack
  <1>5. ASSUME NEW k \in Workers, NEW w \in Withdrawals, w = on[k],
               PaidCommit(k)
        PROVE  Promise!Complete(w)
    <2>1. /\ w \in Withdrawals
          /\ status[w] = "PROCESSING"
          /\ journal[w] = "POSTED"
          /\ payout[w] = "PAID"
      BY <1>5, HandlerFacts, HandledIsProcessing
      DEF PaidCommit, SafeInv, SaidPaid
    <2>2. /\ status' = [status EXCEPT ![w] = "COMPLETED"]
          /\ UNCHANGED <<hold, journal, payout>>
      BY <1>5 DEF PaidCommit, provider
    <2>3. Funds(w) = "debited" /\ Funds(w)' = "debited"
      BY <2>1, <2>2
    <2>4. \A x \in Withdrawals \ {w} :
             hold'[x] = hold[x] /\ journal'[x] = journal[x]
      BY <2>2
    <2> HIDE DEF Funds
    <2> QED BY <2>1, <2>2, <2>3, <2>4, FundsMove DEF Promise!Complete
  <1>6. ASSUME NEW k \in Workers, CreatedCommit(k)
        PROVE  UNCHANGED Promise!promised
    BY <1>6, HandledIsProcessing, QuietPromise
    DEF CreatedCommit, TypeOK, RowsType, provider
  <1>7. ASSUME NEW k \in Workers, Submit(k)
        PROVE  Promise!Accept(on[k]) \/ UNCHANGED Promise!promised
    <2>1. CASE payout[on[k]] = "NONE"
      <3>1. on[k] \in Withdrawals /\ journal[on[k]] = "POSTED"
        BY <1>7, <2>1, HandlerFacts DEF Submit, IsolatedInv, Drivers
      <3>2. \/ \E d \in {"PENDING", "FAILED"} :
                  payout' = [payout EXCEPT ![on[k]] = d]
            \/ UNCHANGED payout
        BY <1>7, <2>1 DEF Submit, AcceptPayout, provider
      <3>3. UNCHANGED <<status, hold, journal>>
        BY <1>7 DEF Submit, rows
      <3> QED BY <2>1, <3>1, <3>2, <3>3 DEF Promise!Accept, Promise!promised
    <2>2. CASE payout[on[k]] # "NONE"
      BY <1>7, <2>2, QuietPromise DEF Submit, AcceptPayout, provider, rows
    <2> QED BY <2>1, <2>2
  <1>8. ASSUME NEW w \in Withdrawals, Decide(w) PROVE Promise!Decide(w)
    BY <1>8 DEF Decide, Promise!Decide, rows
  <1>9. ASSUME NEW k \in Workers,
               \/ SettleOwn(k) \/ SettleRollback(k) \/ RecordRead(k)
               \/ RecordCommit(k) \/ CompensateRead(k) \/ ReconcileRead(k)
               \/ RecordFails(k) \/ Crash(k)
        PROVE  UNCHANGED Promise!promised
    BY <1>9, QuietPromise
    DEF SettleOwn, SettleRead, SettleRollback, RecordRead, RecordCommit,
        CompensateRead, ReconcileRead, HandlerRead, RecordFails, Crash,
        rows, provider
  <1>10. ASSUME NEW k \in Workers, NEW w \in Withdrawals, Start(k, w),
                ~Request(k, w)
         PROVE  UNCHANGED Promise!promised
    BY <1>10, QuietPromise
    DEF Start, Approve, SettleRead, RejectRead, PaidWebhook, FailedWebhook,
        CreatedWebhook, Deliver, HandlerRead, Reconcile, rows, provider
  <1>11. ASSUME (\E x \in Kinds : Credit(x)) \/ UNCHANGED vars
         PROVE  UNCHANGED Promise!promised
    BY <1>11, QuietPromise DEF Credit, vars, rows, provider
  <1> HIDE DEF Promise!Move, Funds
  <1> QED
    BY <1>1, <1>2, <1>3, <1>4, <1>5, <1>6, <1>7, <1>8, <1>9, <1>10, <1>11,
       HandlerFacts
    DEF Next, Continue

\* Every behaviour of isolated handlers is one of the abstract withdrawal:
\* debited once, given back at most once, completed only when paid.
THEOREM Implementation ==
  ASSUME Isolated
  PROVE  Spec => ImplementsPromise
  <1>1. Init => Promise!Init
    BY InitPromise
  <1>2. TypeOK /\ SafeInv /\ IsolatedInv /\ [Next]_vars
          => [Promise!Next]_(Promise!promised)
    BY PromiseStep
  <1> QED BY <1>1, <1>2, TypeCorrect, Safe, IsolatedSafe, PTL
          DEF Spec, ImplementsPromise, Promise!Spec

----------------------------------------------------------------------------
(* Sums over finite sets *)

\* MapThenSumSet folds by taking one element after the other.
Pick(S) == CHOOSE x \in S : TRUE
Adds(f, S, g) ==
    g = [s \in SUBSET S |-> IF s = {} THEN 0 ELSE f[Pick(s)] + g[s \ {Pick(s)}]]

\* The sum is the value of the function the fold chooses.
LEMMA SumIs ==
  ASSUME NEW f, NEW S
  PROVE  SumOf(f, S) = (CHOOSE g : Adds(f, S, g))[S]
  BY DEF SumOf, MapThenSumSet, MapThenFoldSet, Adds, Pick

\* A set of subsets of a finite set has a least element.
LEMMA LeastSet ==
  ASSUME NEW S, IsFiniteSet(S), NEW B, B \subseteq SUBSET S, B # {}
  PROVE  \E s \in B : \A t \in B : t \subseteq s => t = s
  <1>1. IsWellFoundedOn(StrictSubsetOrdering(S), SUBSET S)
    BY FS_StrictSubsetOrderingWellFounded, FS_FiniteSubsetsOfFinite
  <1>2. PICK s \in B : \A t \in B : <<t, s>> \notin StrictSubsetOrdering(S)
    BY <1>1, WFMin
  <1>3. ASSUME NEW t \in B, t \subseteq s, t # s PROVE FALSE
    BY <1>2, <1>3 DEF StrictSubsetOrdering
  <1> QED BY <1>3

\* What is picked of a set is in it.
LEMMA PickIn == \A S : S # {} => Pick(S) \in S
  BY DEF Pick

\* Such a function at one subset.
LEMMA AddsAt ==
  ASSUME NEW f, NEW S, NEW g, Adds(f, S, g), NEW s, s \subseteq S
  PROVE  g[s] = IF s = {} THEN 0 ELSE f[Pick(s)] + g[s \ {Pick(s)}]
  <1>1. s \in SUBSET S
    OBVIOUS
  <1>2. g = [t \in SUBSET S |-> IF t = {} THEN 0 ELSE f[Pick(t)] + g[t \ {Pick(t)}]]
    BY DEF Adds
  <1> DEFINE E(t) == IF t = {} THEN 0 ELSE f[Pick(t)] + g[t \ {Pick(t)}]
  <1>3. g = [t \in SUBSET S |-> E(t)]
    BY <1>2
  <1> HIDE DEF E
  <1>4. g[s] = E(s)
    BY <1>1, <1>3
  <1> QED BY <1>4 DEF E

\* Two such functions agree wherever both are defined.
LEMMA AddsAgree ==
  ASSUME NEW f, NEW S, IsFiniteSet(S), NEW T, T \subseteq S,
         NEW g, NEW h, Adds(f, S, g), Adds(f, T, h)
  PROVE  \A s \in SUBSET T : g[s] = h[s]
  <1> DEFINE B == {s \in SUBSET T : g[s] # h[s]}
  <1>1. SUFFICES ASSUME B # {} PROVE FALSE
    OBVIOUS
  <1>2. IsFiniteSet(T) /\ B \subseteq SUBSET T
    BY FS_Subset
  <1>3. PICK s \in B : \A t \in B : t \subseteq s => t = s
    <2> HIDE DEF B
    <2> QED BY <1>1, <1>2, LeastSet
  <1>4. s \subseteq T /\ s \subseteq S /\ g[s] # h[s]
    BY <1>3
  <1>5. g[s] = (IF s = {} THEN 0 ELSE f[Pick(s)] + g[s \ {Pick(s)}])
    BY <1>4, AddsAt
  <1>6. h[s] = (IF s = {} THEN 0 ELSE f[Pick(s)] + h[s \ {Pick(s)}])
    BY <1>4, AddsAt
  <1>7. s # {}
    BY <1>4, <1>5, <1>6
  <1>8. s \ {Pick(s)} \notin B
    BY <1>3, <1>7, PickIn
  <1>9. g[s \ {Pick(s)}] = h[s \ {Pick(s)}]
    BY <1>4, <1>8
  <1> QED BY <1>4, <1>5, <1>6, <1>7, <1>9

\* Any such function gives the sums of the subsets.
LEMMA SumOfAdds ==
  ASSUME NEW f, NEW S, IsFiniteSet(S), NEW g, Adds(f, S, g)
  PROVE  \A s \in SUBSET S : SumOf(f, s) = g[s]
  <1> TAKE s \in SUBSET S
  <1> DEFINE h == [t \in SUBSET s |-> g[t]]
  <1>1. Adds(f, s, h)
    <2>1. ASSUME NEW t \in SUBSET s
          PROVE h[t] = IF t = {} THEN 0 ELSE f[Pick(t)] + h[t \ {Pick(t)}]
      <3>1. t \subseteq S /\ t \ {Pick(t)} \in SUBSET s
        OBVIOUS
      <3>2. g[t] = IF t = {} THEN 0 ELSE f[Pick(t)] + g[t \ {Pick(t)}]
        BY <3>1, AddsAt
      <3> QED BY <3>1, <3>2
    <2>2. h = [t \in SUBSET s |-> h[t]]
      OBVIOUS
    <2> HIDE DEF h
    <2>3. h = [t \in SUBSET s |-> IF t = {} THEN 0 ELSE f[Pick(t)] + h[t \ {Pick(t)}]]
      BY <2>1, <2>2
    <2> QED BY <2>3 DEF Adds
  <1> HIDE DEF h
  <1> DEFINE c == CHOOSE a : Adds(f, s, a)
  <1>2. Adds(f, s, c)
    BY <1>1
  <1>3. c[s] = g[s]
    <2> HIDE DEF c
    <2> QED BY <1>2, AddsAgree
  <1> QED BY <1>3, SumIs

\* There is such a function for every finite set.
LEMMA AddsExists ==
  ASSUME NEW f, NEW S, IsFiniteSet(S)
  PROVE  \E g : Adds(f, S, g)
  <1> DEFINE B == {s \in SUBSET S : ~ \E g : Adds(f, s, g)}
  <1>1. SUFFICES ASSUME B # {} PROVE FALSE
    OBVIOUS
  <1>2. PICK s \in B : \A t \in B : t \subseteq s => t = s
    <2>1. B \subseteq SUBSET S
      OBVIOUS
    <2> HIDE DEF B
    <2> QED BY <1>1, <2>1, LeastSet
  <1>3. s \subseteq S /\ ~ \E g : Adds(f, s, g)
    BY <1>2
  <1>4. ASSUME NEW t, t \subseteq s, t # s PROVE \E g : Adds(f, t, g)
    BY <1>2, <1>3, <1>4
  <1> HIDE DEF B
  <1> DEFINE V(t) == IF t = s THEN IF s = {} THEN 0 ELSE f[Pick(s)] + SumOf(f, s \ {Pick(s)})
                              ELSE SumOf(f, t)
             h == [t \in SUBSET s |-> V(t)]
  <1>5. ASSUME NEW t \in SUBSET s
        PROVE  V(t) = IF t = {} THEN 0 ELSE f[Pick(t)] + h[t \ {Pick(t)}]
    <2>1. t # {} => t \ {Pick(t)} # s /\ t \ {Pick(t)} \in SUBSET s
      BY PickIn
    <2>2. t # {} => h[t \ {Pick(t)}] = SumOf(f, t \ {Pick(t)})
      BY <2>1
    <2>3. CASE t = s
      BY <2>2, <2>3
    <2>4. CASE t # s
      <3>1. PICK g : Adds(f, t, g)
        BY <1>4, <2>4
      <3>2. IsFiniteSet(t)
        BY <1>3, FS_Subset
      <3>3. SumOf(f, t) = g[t] /\ SumOf(f, t \ {Pick(t)}) = g[t \ {Pick(t)}]
        BY <3>1, <3>2, SumOfAdds
      <3>4. g[t] = IF t = {} THEN 0 ELSE f[Pick(t)] + g[t \ {Pick(t)}]
        BY <3>1, AddsAt
      <3>5. V(t) = SumOf(f, t)
        BY <2>4
      <3> HIDE DEF V, h
      <3> QED BY <2>2, <3>3, <3>4, <3>5
    <2> QED BY <2>3, <2>4
  <1>6. h = [t \in SUBSET s |-> IF t = {} THEN 0 ELSE f[Pick(t)] + h[t \ {Pick(t)}]]
    <2> DEFINE E(t) == IF t = {} THEN 0 ELSE f[Pick(t)] + h[t \ {Pick(t)}]
    <2>1. \A t \in SUBSET s : V(t) = E(t)
      BY <1>5
    <2>2. h = [t \in SUBSET s |-> V(t)]
      OBVIOUS
    <2> HIDE DEF V, h, E
    <2>3. h = [t \in SUBSET s |-> E(t)]
      BY <2>1, <2>2
    <2> QED BY <2>3 DEF E
  <1> HIDE DEF h
  <1>7. Adds(f, s, h)
    BY <1>6 DEF Adds
  <1> QED BY <1>3, <1>7

\* The sum over a finite set, one element taken out.
LEMMA SumStep ==
  ASSUME NEW f, NEW S, IsFiniteSet(S)
  PROVE  SumOf(f, S) = IF S = {} THEN 0 ELSE f[Pick(S)] + SumOf(f, S \ {Pick(S)})
  <1>1. PICK g : Adds(f, S, g)
    BY AddsExists
  <1>2. S \in SUBSET S /\ S \ {Pick(S)} \in SUBSET S
    OBVIOUS
  <1>3. SumOf(f, S) = g[S] /\ SumOf(f, S \ {Pick(S)}) = g[S \ {Pick(S)}]
    BY <1>1, <1>2, SumOfAdds
  <1>4. g[S] = IF S = {} THEN 0 ELSE f[Pick(S)] + g[S \ {Pick(S)}]
    BY <1>1, AddsAt
  <1> QED BY <1>3, <1>4

\* Nothing sums to 0.
LEMMA SumEmpty == \A f : SumOf(f, {}) = 0
  BY SumStep, FS_EmptySet

\* Naturals sum to a natural.
LEMMA SumNat ==
  ASSUME NEW S, IsFiniteSet(S), NEW f, \A x \in S : f[x] \in Nat
  PROVE  SumOf(f, S) \in Nat
  <1> DEFINE B == {s \in SUBSET S : SumOf(f, s) \notin Nat}
  <1>1. SUFFICES ASSUME B # {} PROVE FALSE
    <2>1. S \in SUBSET S
      OBVIOUS
    <2> QED BY <2>1
  <1>2. PICK s \in B : \A t \in B : t \subseteq s => t = s
    <2>1. B \subseteq SUBSET S
      OBVIOUS
    <2> HIDE DEF B
    <2> QED BY <1>1, <2>1, LeastSet
  <1>3. s \subseteq S /\ SumOf(f, s) \notin Nat /\ IsFiniteSet(s)
    BY <1>2, FS_Subset
  <1>4. s # {}
    BY <1>3, SumEmpty
  <1>5. Pick(s) \in s /\ s \ {Pick(s)} # s /\ s \ {Pick(s)} \in SUBSET S
    BY <1>3, <1>4, PickIn
  <1>6. SumOf(f, s \ {Pick(s)}) \in Nat
    BY <1>2, <1>5
  <1>7. SumOf(f, s) = f[Pick(s)] + SumOf(f, s \ {Pick(s)})
    BY <1>3, <1>4, SumStep
  <1> HIDE DEF B
  <1> QED BY <1>3, <1>5, <1>6, <1>7

\* Equal terms, equal sums.
LEMMA SumSame ==
  ASSUME NEW S, IsFiniteSet(S), NEW f, NEW g, \A x \in S : f[x] = g[x]
  PROVE  SumOf(f, S) = SumOf(g, S)
  <1> DEFINE B == {s \in SUBSET S : SumOf(f, s) # SumOf(g, s)}
  <1>1. SUFFICES ASSUME B # {} PROVE FALSE
    <2>1. S \in SUBSET S
      OBVIOUS
    <2> QED BY <2>1
  <1>2. PICK s \in B : \A t \in B : t \subseteq s => t = s
    <2>1. B \subseteq SUBSET S
      OBVIOUS
    <2> HIDE DEF B
    <2> QED BY <1>1, <2>1, LeastSet
  <1>3. s \subseteq S /\ SumOf(f, s) # SumOf(g, s) /\ IsFiniteSet(s)
    BY <1>2, FS_Subset
  <1>4. s # {}
    BY <1>3, SumEmpty
  <1>5. Pick(s) \in s /\ s \ {Pick(s)} # s /\ s \ {Pick(s)} \in SUBSET S
    BY <1>3, <1>4, PickIn
  <1>6. SumOf(f, s \ {Pick(s)}) = SumOf(g, s \ {Pick(s)})
    BY <1>2, <1>5
  <1>7. /\ SumOf(f, s) = f[Pick(s)] + SumOf(f, s \ {Pick(s)})
        /\ SumOf(g, s) = g[Pick(s)] + SumOf(g, s \ {Pick(s)})
    BY <1>3, <1>4, SumStep
  <1> HIDE DEF B
  <1> QED BY <1>3, <1>5, <1>6, <1>7

\* Any element may be taken out.
LEMMA SumWithout ==
  ASSUME NEW S, IsFiniteSet(S), NEW f, \A x \in S : f[x] \in Nat, NEW w \in S
  PROVE  SumOf(f, S) = f[w] + SumOf(f, S \ {w})
  <1> DEFINE Split(s, v) == SumOf(f, s) = f[v] + SumOf(f, s \ {v})
             B == {s \in SUBSET S : \E v \in s : ~Split(s, v)}
  <1>1. SUFFICES ASSUME B # {} PROVE FALSE
    <2>1. S \in SUBSET S
      OBVIOUS
    <2> QED BY <2>1
  <1>2. PICK s \in B : \A t \in B : t \subseteq s => t = s
    <2>1. B \subseteq SUBSET S
      OBVIOUS
    <2> HIDE DEF B
    <2> QED BY <1>1, <2>1, LeastSet
  <1>3. PICK v \in s : ~Split(s, v)
    BY <1>2
  <1>4. ASSUME NEW t \in SUBSET s, t # s, NEW u \in t PROVE Split(t, u)
    BY <1>2, <1>4
  <1>5. s \subseteq S /\ IsFiniteSet(s)
    BY <1>2, FS_Subset
  <1> HIDE DEF B
  <1> DEFINE c == Pick(s)
  <1>6. c \in s /\ SumOf(f, s) = f[c] + SumOf(f, s \ {c})
    BY <1>5, SumStep, PickIn
  <1>7. c # v
    BY <1>3, <1>6
  <1> HIDE DEF c
  <1>8. Split(s \ {c}, v)
    <2> HIDE DEF Split
    <2> QED BY <1>4, <1>6, <1>7
  <1>9. Split(s \ {v}, c)
    <2> HIDE DEF Split
    <2> QED BY <1>4, <1>6, <1>7
  <1>10. (s \ {c}) \ {v} = (s \ {v}) \ {c}
    OBVIOUS
  <1>11. /\ IsFiniteSet((s \ {v}) \ {c})
         /\ \A x \in (s \ {v}) \ {c} : f[x] \in Nat
    BY <1>5, FS_Subset
  <1>12. SumOf(f, (s \ {v}) \ {c}) \in Nat
    BY <1>11, SumNat
  <1>13. f[c] \in Nat /\ f[v] \in Nat
    BY <1>5, <1>6
  <1> QED BY <1>3, <1>6, <1>8, <1>9, <1>10, <1>12, <1>13

\* Whether or not it is in the set.
LEMMA SumLess ==
  ASSUME NEW S, IsFiniteSet(S), NEW f, \A x \in S : f[x] \in Nat, NEW w
  PROVE  SumOf(f, S) - (IF w \in S THEN f[w] ELSE 0) = SumOf(f, S \ {w})
  <1>1. IsFiniteSet(S \ {w}) /\ \A x \in S \ {w} : f[x] \in Nat
    BY FS_Subset
  <1>2. SumOf(f, S \ {w}) \in Nat
    BY <1>1, SumNat
  <1>3. CASE w \in S
    <2>1. SumOf(f, S) = f[w] + SumOf(f, S \ {w})
      BY <1>3, SumWithout
    <2>2. f[w] \in Nat
      BY <1>3
    <2> QED BY <1>2, <1>3, <2>1, <2>2
  <1>4. CASE w \notin S
    <2>1. S \ {w} = S
      BY <1>4
    <2> QED BY <1>2, <1>4, <2>1
  <1> QED BY <1>3, <1>4

\* A sum changes by what is changed at one element.
LEMMA SumMoves ==
  ASSUME NEW S, IsFiniteSet(S), NEW T, NEW w, S \ {w} = T \ {w},
         NEW f, NEW g, \A x \in S : f[x] \in Nat, \A x \in T : g[x] \in Nat,
         \A x \in S \ {w} : f[x] = g[x]
  PROVE  /\ IsFiniteSet(T)
         /\ SumOf(f, S) \in Nat
         /\ SumOf(g, T) \in Nat
         /\ SumOf(g, T) - (IF w \in T THEN g[w] ELSE 0)
              = SumOf(f, S) - (IF w \in S THEN f[w] ELSE 0)
  <1>0. IsFiniteSet(T)
    <2>1. IsFiniteSet(S \cup {w}) /\ T \subseteq S \cup {w}
      BY FS_AddElement
    <2> QED BY <2>1, FS_Subset
  <1>1. IsFiniteSet(S \ {w}) /\ S \ {w} \subseteq S
    BY FS_Subset
  <1>2. SumOf(f, S \ {w}) = SumOf(g, T \ {w})
    BY <1>1, SumSame
  <1>3. SumOf(f, S \ {w}) \in Nat
    BY <1>1, SumNat
  <1>4. SumOf(f, S) - (IF w \in S THEN f[w] ELSE 0) = SumOf(f, S \ {w})
    BY SumLess
  <1>5. SumOf(g, T) - (IF w \in T THEN g[w] ELSE 0) = SumOf(g, T \ {w})
    BY <1>0, SumLess
  <1>6. SumOf(f, S) \in Nat
    BY SumNat
  <1>7. SumOf(g, T) \in Nat
    BY <1>0, SumNat
  <1> QED BY <1>0, <1>2, <1>4, <1>5, <1>6, <1>7

\* A part sums to no more than the whole.
LEMMA SumOfPart ==
  ASSUME NEW S, IsFiniteSet(S), NEW f, \A x \in S : f[x] \in Nat, NEW T, T \subseteq S
  PROVE  SumOf(f, T) <= SumOf(f, S)
  <1> DEFINE B == {s \in SUBSET S : T \subseteq s /\ ~(SumOf(f, T) <= SumOf(f, s))}
  <1>1. SUFFICES ASSUME B # {} PROVE FALSE
    <2>1. S \in SUBSET S
      OBVIOUS
    <2> QED BY <2>1
  <1>2. PICK s \in B : \A t \in B : t \subseteq s => t = s
    <2>1. B \subseteq SUBSET S
      OBVIOUS
    <2> HIDE DEF B
    <2> QED BY <1>1, <2>1, LeastSet
  <1>3. /\ s \subseteq S /\ T \subseteq s /\ ~(SumOf(f, T) <= SumOf(f, s))
        /\ IsFiniteSet(s) /\ IsFiniteSet(T)
    BY <1>2, FS_Subset
  <1>4. SumOf(f, T) \in Nat
    BY <1>3, SumNat
  <1>5. PICK v \in s : v \notin T
    BY <1>3, <1>4
  <1>6. SumOf(f, T) <= SumOf(f, s \ {v})
    BY <1>2, <1>3, <1>5
  <1> HIDE DEF B
  <1>7. SumOf(f, s) = f[v] + SumOf(f, s \ {v})
    BY <1>3, <1>5, SumWithout
  <1>8. SumOf(f, s \ {v}) \in Nat
    <2>1. IsFiniteSet(s \ {v}) /\ \A x \in s \ {v} : f[x] \in Nat
      BY <1>3, FS_Subset
    <2> QED BY <2>1, SumNat
  <1>9. f[v] \in Nat
    BY <1>3, <1>5
  <1> QED BY <1>3, <1>4, <1>6, <1>7, <1>8, <1>9

----------------------------------------------------------------------------
(* The books and the holds of isolated handlers *)

\* The withdrawals requested so far, those that wait and those with a fee entry.
Started == {w \in Withdrawals : status[w] # "NEW"}
Waiting(x) == {w \in Withdrawals : status[w] = "PENDING" /\ Kind[w] = x}
Shared == {w \in Withdrawals : feeJournal[w] = "POSTED"}
WaitingTotal(x) == SumOf(Reserve, Waiting(x))

\* What a row says of itself.
RowTells(w) ==
    /\ status[w] \in {"NEW", "PENDING"} => fee[w] = Charge[w] /\ ~recorded[w]
    /\ journal[w] = "POSTED" => lineAmount[w] = Amount[w] + fee[w]
    /\ ~recorded[w] => ~allocated[w] /\ feeJournal[w] = "NONE"
    /\ allocated[w] /\ platformFee[w] > 0 /\ status[w] = "PROCESSING"
         => feeJournal[w] = "POSTED"
RowsTell == \A w \in Withdrawals : RowTells(w)

\* What the handler about to write has read of it.
ReadTells(k) ==
    LET w == on[k]
    IN  /\ pc[k] \in Driving => ~recorded[w]
        /\ pc[k] \in {"record", "recordCommit"} =>
              ~seen[k].allocated /\ seen[k].fee = fee[w] /\ journal[w] # "NONE"
        /\ pc[k] \in {"settleCommit", "rejectCommit", "failedCommit"} =>
              seen[k].held = heldBalance[Kind[w]]
        /\ pc[k] \in {"settleCommit", "rejectCommit", "compensateCommit",
                      "failedCommit"} => seen[k].fee = fee[w]
        /\ pc[k] \in {"compensateCommit", "failedCommit"} =>
              /\ seen[k].status = status[w]
              /\ seen[k].allocated = allocated[w]
              /\ seen[k].platformFee = platformFee[w]
ReadsTell == \A k \in Workers : ReadTells(k)

\* What a wallet holds back is for rows that wait.
HeldIsWaiting == \A x \in Kinds : heldBalance[x] <= WaitingTotal(x)

\* The inductive invariant of AccountsReconcile and NoPhantomHold; finitely many
\* withdrawals have been requested, whatever Withdrawals is.
SumsInv ==
    /\ IsFiniteSet(Started)
    /\ RowsTell
    /\ ReadsTell
    /\ HeldIsWaiting
    /\ AccountsReconcile

\* A step that touches no other withdrawal's row.
Touches(w) ==
    \A x \in Withdrawals \ {w} :
        /\ status'[x] = status[x]
        /\ fee'[x] = fee[x]
        /\ recorded'[x] = recorded[x]
        /\ allocated'[x] = allocated[x]
        /\ journal'[x] = journal[x]
        /\ lineAmount'[x] = lineAmount[x]
        /\ feeJournal'[x] = feeJournal[x]
        /\ platformFee'[x] = platformFee[x]

\* The sums are over finite sets.
LEMMA FewStarted ==
  ASSUME TypeOK, SafeInv, RowsTell, IsFiniteSet(Started)
  PROVE  /\ IsFiniteSet(Posted) /\ IsFiniteSet(Shared)
         /\ \A x \in Kinds : IsFiniteSet(Waiting(x))
  <1>1. Posted \subseteq Started /\ \A x \in Kinds : Waiting(x) \subseteq Started
    BY DEF Posted, Waiting, Started, SafeInv, Reserved
  <1>2. Shared \subseteq Started
    BY DEF Shared, Started, RowsTell, RowTells
  <1> QED BY <1>1, <1>2, FS_Subset

\* A step requests one withdrawal at most.
LEMMA StartedFinite ==
  ASSUME IsFiniteSet(Started), NEW w \in Withdrawals, Touches(w)
  PROVE  IsFiniteSet(Started)'
  <1>1. IsFiniteSet(Started \cup {w})
    BY FS_AddElement
  <1>2. Started' \subseteq Started \cup {w}
    BY DEF Started, Touches
  <1> QED BY <1>1, <1>2, FS_Subset

\* What one withdrawal adds to the sums.
Line(w) == IF journal[w] = "POSTED" THEN lineAmount[w] ELSE 0
Share(w) == IF feeJournal[w] = "POSTED" THEN platformFee[w] ELSE 0

\* The sums of the lines change by one withdrawal's.
LEMMA LinesMove ==
  ASSUME TypeOK, TypeOK', SafeInv, RowsTell, IsFiniteSet(Started),
         NEW w \in Withdrawals, Touches(w)
  PROVE  /\ SumOf(lineAmount, Posted) \in Nat /\ SumOf(lineAmount, Posted)' \in Nat
         /\ SumOf(lineAmount, Posted)' - Line(w)' = SumOf(lineAmount, Posted) - Line(w)
         /\ \A x \in Kinds :
               /\ PostedLines(x) \in Nat /\ PostedLines(x)' \in Nat
               /\ PostedLines(x)' - (IF x = Kind[w] THEN Line(w)' ELSE 0)
                    = PostedLines(x) - (IF x = Kind[w] THEN Line(w) ELSE 0)
  <1>1. ASSUME NEW X, NEW S, NEW T, S = {y \in Posted : Kind[y] \in X},
               T = {y \in Withdrawals : journal'[y] = "POSTED" /\ Kind[y] \in X}
        PROVE  /\ SumOf(lineAmount, S) \in Nat /\ SumOf(lineAmount', T) \in Nat
               /\ SumOf(lineAmount', T) - (IF Kind[w] \in X THEN Line(w)' ELSE 0)
                    = SumOf(lineAmount, S) - (IF Kind[w] \in X THEN Line(w) ELSE 0)
    <2>1. IsFiniteSet(S)
      BY <1>1, FewStarted, FS_Subset
    <2>2. S \ {w} = T \ {w}
      BY <1>1 DEF Posted, Touches
    <2>3. /\ \A y \in S : lineAmount[y] \in Nat
          /\ \A y \in T : lineAmount'[y] \in Nat
          /\ \A y \in S \ {w} : lineAmount[y] = lineAmount'[y]
      BY <1>1 DEF Posted, Touches, TypeOK, RowsType
    <2>4. /\ (IF w \in S THEN lineAmount[w] ELSE 0)
               = (IF Kind[w] \in X THEN Line(w) ELSE 0)
          /\ (IF w \in T THEN lineAmount'[w] ELSE 0)
               = (IF Kind[w] \in X THEN Line(w)' ELSE 0)
      BY <1>1 DEF Posted, Line
    <2>5. /\ SumOf(lineAmount, S) \in Nat
          /\ SumOf(lineAmount', T) \in Nat
          /\ SumOf(lineAmount', T) - (IF w \in T THEN lineAmount'[w] ELSE 0)
               = SumOf(lineAmount, S) - (IF w \in S THEN lineAmount[w] ELSE 0)
      BY <2>1, <2>2, <2>3, SumMoves
    <2> QED BY <2>4, <2>5
  <1>2. /\ SumOf(lineAmount, Posted) \in Nat /\ SumOf(lineAmount, Posted)' \in Nat
        /\ SumOf(lineAmount, Posted)' - Line(w)' = SumOf(lineAmount, Posted) - Line(w)
    <2>1. /\ Posted = {y \in Posted : Kind[y] \in Kinds}
          /\ Posted' = {y \in Withdrawals : journal'[y] = "POSTED" /\ Kind[y] \in Kinds}
          /\ Kind[w] \in Kinds
      BY ConstantsAssumption DEF Posted
    <2>2. SumOf(lineAmount, Posted)' = SumOf(lineAmount', Posted')
      OBVIOUS
    <2> QED BY <1>1, <2>1, <2>2
  <1>3. ASSUME NEW x \in Kinds
        PROVE  /\ PostedLines(x) \in Nat /\ PostedLines(x)' \in Nat
               /\ PostedLines(x)' - (IF x = Kind[w] THEN Line(w)' ELSE 0)
                    = PostedLines(x) - (IF x = Kind[w] THEN Line(w) ELSE 0)
    <2> DEFINE S == {y \in Posted : Kind[y] = x}
               T == {y \in Withdrawals : journal'[y] = "POSTED" /\ Kind[y] = x}
    <2>1. PostedLines(x) = SumOf(lineAmount, S) /\ PostedLines(x)' = SumOf(lineAmount', T)
      <3>1. {y \in Posted' : Kind[y] = x} = T
        BY DEF Posted
      <3> HIDE DEF T
      <3> QED BY <3>1 DEF PostedLines
    <2>2. /\ S = {y \in Posted : Kind[y] \in {x}}
          /\ T = {y \in Withdrawals : journal'[y] = "POSTED" /\ Kind[y] \in {x}}
      OBVIOUS
    <2>3. Kind[w] \in {x} <=> x = Kind[w]
      OBVIOUS
    <2> HIDE DEF S, T
    <2>4. /\ SumOf(lineAmount, S) \in Nat /\ SumOf(lineAmount', T) \in Nat
          /\ SumOf(lineAmount', T) - (IF Kind[w] \in {x} THEN Line(w)' ELSE 0)
               = SumOf(lineAmount, S) - (IF Kind[w] \in {x} THEN Line(w) ELSE 0)
      BY <1>1, <2>2
    <2> QED BY <2>1, <2>3, <2>4
  <1> QED BY <1>2, <1>3

\* The sum of the shares changes by one withdrawal's.
LEMMA SharesMove ==
  ASSUME TypeOK, TypeOK', SafeInv, RowsTell, IsFiniteSet(Started),
         NEW w \in Withdrawals, Touches(w)
  PROVE  /\ PostedFees \in Nat /\ PostedFees' \in Nat
         /\ PostedFees' - Share(w)' = PostedFees - Share(w)
  <1> DEFINE T == {y \in Withdrawals : feeJournal'[y] = "POSTED"}
  <1>1. PostedFees = SumOf(platformFee, Shared) /\ PostedFees' = SumOf(platformFee', T)
    BY DEF PostedFees, Shared
  <1>2. IsFiniteSet(Shared)
    BY FewStarted
  <1>3. Shared \ {w} = T \ {w}
    BY DEF Shared, Touches
  <1>4. /\ \A y \in Shared : platformFee[y] \in Nat
        /\ \A y \in T : platformFee'[y] \in Nat
        /\ \A y \in Shared \ {w} : platformFee[y] = platformFee'[y]
    BY DEF Shared, Touches, TypeOK, RowsType
  <1>5. /\ (IF w \in Shared THEN platformFee[w] ELSE 0) = Share(w)
        /\ (IF w \in T THEN platformFee'[w] ELSE 0) = Share(w)'
    BY DEF Shared, Share
  <1> HIDE DEF T
  <1>6. /\ SumOf(platformFee, Shared) \in Nat
        /\ SumOf(platformFee', T) \in Nat
        /\ SumOf(platformFee', T) - (IF w \in T THEN platformFee'[w] ELSE 0)
             = SumOf(platformFee, Shared) - (IF w \in Shared THEN platformFee[w] ELSE 0)
    BY <1>2, <1>3, <1>4, SumMoves
  <1> QED BY <1>1, <1>5, <1>6

\* The sum of what waits changes by one withdrawal's.
LEMMA WaitingMoves ==
  ASSUME TypeOK, TypeOK', SafeInv, RowsTell, IsFiniteSet(Started),
         NEW w \in Withdrawals, Touches(w), NEW x \in Kinds
  PROVE  /\ WaitingTotal(x) \in Nat /\ WaitingTotal(x)' \in Nat
         /\ WaitingTotal(x)'
                - (IF x = Kind[w] /\ status'[w] = "PENDING" THEN Amount[w] + Charge[w] ELSE 0)
              = WaitingTotal(x)
                - (IF x = Kind[w] /\ status[w] = "PENDING" THEN Amount[w] + Charge[w] ELSE 0)
  <1> DEFINE S == Waiting(x)
             T == {y \in Withdrawals : status'[y] = "PENDING" /\ Kind[y] = x}
  <1>1. WaitingTotal(x) = SumOf(Reserve, S) /\ WaitingTotal(x)' = SumOf(Reserve, T)
    BY DEF WaitingTotal, Waiting
  <1>2. IsFiniteSet(S)
    BY FewStarted
  <1>3. S \ {w} = T \ {w}
    BY DEF Waiting, Touches
  <1>4. (\A y \in S : Reserve[y] \in Nat) /\ (\A y \in T : Reserve[y] \in Nat)
    BY ConstantsAssumption DEF Waiting, Reserve
  <1>5. /\ w \in S <=> (x = Kind[w] /\ status[w] = "PENDING")
        /\ w \in T <=> (x = Kind[w] /\ status'[w] = "PENDING")
        /\ Reserve[w] = Amount[w] + Charge[w]
    BY DEF Waiting, Reserve
  <1> HIDE DEF S, T
  <1>6. /\ SumOf(Reserve, S) \in Nat
        /\ SumOf(Reserve, T) \in Nat
        /\ SumOf(Reserve, T) - (IF w \in T THEN Reserve[w] ELSE 0)
             = SumOf(Reserve, S) - (IF w \in S THEN Reserve[w] ELSE 0)
    BY <1>2, <1>3, <1>4, SumMoves
  <1> QED BY <1>1, <1>5, <1>6

\* The books agree after a step that posts what it moves.
LEMMA AccountsMove ==
  ASSUME TypeOK, TypeOK', SafeInv, RowsTell, IsFiniteSet(Started), AccountsReconcile,
         NEW w \in Withdrawals, Touches(w), late \subseteq late',
         \A x \in Kinds : (\A y \in late' : Kind[y] # x) =>
             account'[x] - credits'[x] + (IF x = Kind[w] THEN Line(w)' ELSE 0)
                 - (IF x = "PLATFORM" THEN Share(w)' ELSE 0)
               = account[x] - credits[x] + (IF x = Kind[w] THEN Line(w) ELSE 0)
                 - (IF x = "PLATFORM" THEN Share(w) ELSE 0),
         late' = {} => clearing' - Line(w)' + Share(w)' = clearing - Line(w) + Share(w)
  PROVE  AccountsReconcile'
  <1>1. /\ Line(w) \in Nat /\ Line(w)' \in Nat /\ Share(w) \in Nat /\ Share(w)' \in Nat
        /\ account \in [Kinds -> Int] /\ account' \in [Kinds -> Int]
        /\ credits \in [Kinds -> Nat] /\ credits' \in [Kinds -> Nat]
        /\ clearing \in Int /\ clearing' \in Int /\ Opening \in [Kinds -> Nat]
        /\ Kind[w] \in Kinds
    BY ConstantsAssumption DEF TypeOK, RowsType, MoneyType, Line, Share
  <1>2. ASSUME NEW x \in Kinds, \A y \in late' : Kind[y] # x
        PROVE  AccountReconciles(x)'
    <2> DEFINE l0 == IF x = Kind[w] THEN Line(w) ELSE 0
               l1 == IF x = Kind[w] THEN Line(w)' ELSE 0
               s0 == IF x = "PLATFORM" THEN Share(w) ELSE 0
               s1 == IF x = "PLATFORM" THEN Share(w)' ELSE 0
               f0 == IF x = "PLATFORM" THEN PostedFees ELSE 0
               f1 == IF x = "PLATFORM" THEN PostedFees' ELSE 0
               a0 == account[x]
               a1 == account'[x]
               c0 == credits[x]
               c1 == credits'[x]
               p0 == PostedLines(x)
               p1 == PostedLines(x)'
               o == Opening[x]
    <2>1. a0 = o + c0 - p0 + f0
      BY <1>2 DEF AccountsReconcile, AccountReconciles
    <2>2. p0 \in Nat /\ p1 \in Nat /\ p1 - l1 = p0 - l0
      BY LinesMove
    <2>3. f0 \in Nat /\ f1 \in Nat /\ f1 - s1 = f0 - s0
      BY SharesMove
    <2>4. a1 - c1 + l1 - s1 = a0 - c0 + l0 - s0
      BY <1>2
    <2>5. /\ l0 \in Nat /\ l1 \in Nat /\ s0 \in Nat /\ s1 \in Nat
          /\ a0 \in Int /\ a1 \in Int /\ c0 \in Int /\ c1 \in Int /\ o \in Int
      BY <1>1
    <2>6. a1 = o + c1 - p1 + f1
      <3> HIDE DEF l0, l1, s0, s1, f0, f1, a0, a1, c0, c1, p0, p1, o
      <3> QED BY <2>1, <2>2, <2>3, <2>4, <2>5
    <2> QED BY <2>6 DEF AccountReconciles
  <1>3. ASSUME late' = {} PROVE ClearingReconciles'
    <2> DEFINE Lines == SumOf(lineAmount, Posted)
               NewLines == SumOf(lineAmount, Posted)'
    <2> DEFINE c0 == clearing
               c1 == clearing'
               l0 == Line(w)
               l1 == Line(w)'
               s0 == Share(w)
               s1 == Share(w)'
               f0 == PostedFees
               f1 == PostedFees'
    <2>1. c0 = Lines - f0
      BY <1>3 DEF AccountsReconcile, ClearingReconciles
    <2>2. Lines \in Nat /\ NewLines \in Nat /\ NewLines - l1 = Lines - l0
      BY LinesMove
    <2>3. f0 \in Nat /\ f1 \in Nat /\ f1 - s1 = f0 - s0
      BY SharesMove
    <2>4. c1 - l1 + s1 = c0 - l0 + s0
      BY <1>3
    <2>5. /\ c0 \in Int /\ l0 \in Int /\ s0 \in Int
          /\ c1 \in Int /\ l1 \in Int /\ s1 \in Int
      BY <1>1
    <2>6. c1 = NewLines - f1
      <3> HIDE DEF Lines, NewLines, c0, c1, l0, l1, s0, s1, f0, f1
      <3> QED BY <2>1, <2>2, <2>3, <2>4, <2>5
    <2> QED BY <2>6 DEF ClearingReconciles
  <1> QED BY <1>2, <1>3 DEF AccountsReconcile

\* A step that lowers what is held at least as much as what waits.
LEMMA HeldMoves ==
  ASSUME TypeOK, TypeOK', SafeInv, RowsTell, IsFiniteSet(Started), HeldIsWaiting,
         NEW w \in Withdrawals, Touches(w),
         \A x \in Kinds :
             \/ heldBalance'[x] = 0
             \/ heldBalance'[x]
                  - (IF x = Kind[w] /\ status'[w] = "PENDING" THEN Amount[w] + Charge[w] ELSE 0)
                <= heldBalance[x]
                  - (IF x = Kind[w] /\ status[w] = "PENDING" THEN Amount[w] + Charge[w] ELSE 0)
  PROVE  HeldIsWaiting'
  <1>1. ASSUME NEW x \in Kinds PROVE heldBalance'[x] <= WaitingTotal(x)'
    <2> DEFINE p0 == IF x = Kind[w] /\ status[w] = "PENDING" THEN Amount[w] + Charge[w] ELSE 0
               p1 == IF x = Kind[w] /\ status'[w] = "PENDING" THEN Amount[w] + Charge[w] ELSE 0
               t0 == WaitingTotal(x)
               t1 == WaitingTotal(x)'
    <2>1. t0 \in Nat /\ t1 \in Nat /\ t1 - p1 = t0 - p0
      BY WaitingMoves
    <2>2. heldBalance'[x] = 0 \/ heldBalance'[x] - p1 <= heldBalance[x] - p0
      OBVIOUS
    <2>3. /\ heldBalance[x] \in Nat /\ heldBalance'[x] \in Nat
          /\ p0 \in Nat /\ p1 \in Nat
      BY ConstantsAssumption DEF TypeOK, MoneyType
    <2>4. heldBalance[x] <= t0
      BY DEF HeldIsWaiting
    <2> HIDE DEF p0, p1, t0, t1
    <2>5. heldBalance'[x] <= t1
      BY <2>1, <2>2, <2>3, <2>4
    <2> QED BY <2>5 DEF t1
  <1> QED BY <1>1 DEF HeldIsWaiting

\* What the other handlers have read stays so.
LEMMA OthersRead ==
  ASSUME Isolated, TypeOK, IsolatedInv, ReadsTell, NEW k \in Workers, MayRun(k),
         \A j \in Workers \ {k} : pc'[j] = pc[j] /\ on'[j] = on[j] /\ seen'[j] = seen[j],
         NEW w \in Withdrawals, Touches(w),
         journal[w] # "NONE" => journal'[w] # "NONE",
         \/ recorded'[w] = recorded[w] /\ fee'[w] = fee[w]
         \/ pc[k] \in Driving /\ on[k] = w
  PROVE  \A j \in Workers \ {k} : ReadTells(j)'
  <1> TAKE j \in Workers \ {k}
  <1>1. pc[j] \notin CommitPoints /\ on[j] \in Withdrawals
    BY DEF MayRun, TypeOK, HandlersType
  <1>2. ReadTells(j)
    BY DEF ReadsTell
  <1>3. pc[j] \in Driving => recorded'[on[j]] = recorded[on[j]] /\ fee'[on[j]] = fee[on[j]]
    BY <1>1 DEF Touches, IsolatedInv, Drivers
  <1>4. journal[on[j]] # "NONE" => journal'[on[j]] # "NONE"
    BY <1>1 DEF Touches
  <1>5. pc'[j] = pc[j] /\ on'[j] = on[j] /\ seen'[j] = seen[j]
    OBVIOUS
  <1> QED BY <1>1, <1>2, <1>3, <1>4, <1>5 DEF ReadTells, CommitPoints, Driving

\* What a step on one withdrawal must show.
LEMMA SumsMove ==
  ASSUME Isolated, TypeOK, TypeOK', SafeInv, IsolatedInv, SumsInv,
         NEW k \in Workers, MayRun(k), NEW w \in Withdrawals, Touches(w),
         \A j \in Workers \ {k} : pc'[j] = pc[j] /\ on'[j] = on[j] /\ seen'[j] = seen[j],
         journal[w] # "NONE" => journal'[w] # "NONE",
         \/ recorded'[w] = recorded[w] /\ fee'[w] = fee[w]
         \/ pc[k] \in Driving /\ on[k] = w,
         RowTells(w)', ReadTells(k)', HeldIsWaiting', AccountsReconcile'
  PROVE  SumsInv'
  <1>1. IsFiniteSet(Started)'
    BY StartedFinite DEF SumsInv
  <1>2. RowsTell'
    BY DEF SumsInv, RowsTell, RowTells, Touches
  <1>3. ReadsTell'
    BY OthersRead DEF SumsInv, ReadsTell
  <1> QED BY <1>1, <1>2, <1>3 DEF SumsInv

\* A handler that reads or ends moves no row and no money.
LEMMA QuietSums ==
  ASSUME Isolated, TypeOK, TypeOK', SafeInv, IsolatedInv, SumsInv,
         NEW k \in Workers, MayRun(k),
         \A j \in Workers \ {k} : pc'[j] = pc[j] /\ on'[j] = on[j] /\ seen'[j] = seen[j],
         UNCHANGED <<rows, money, credits, late>>,
         ReadTells(k)'
  PROVE  SumsInv'
  <1>1. PICK w \in Withdrawals : w = SomeWithdrawal
    BY SomeWithdrawalType
  <1>2. Touches(w) /\ recorded'[w] = recorded[w] /\ fee'[w] = fee[w] /\ journal'[w] = journal[w]
    BY DEF Touches, rows
  <1>3. RowTells(w)'
    BY <1>1 DEF RowTells, SumsInv, RowsTell, rows
  <1>4. HeldIsWaiting'
    <2>1. \A x \in Kinds : WaitingTotal(x)' = WaitingTotal(x)
      BY DEF WaitingTotal, Waiting, rows
    <2> QED BY <2>1 DEF SumsInv, HeldIsWaiting, money
  <1>5. AccountsReconcile'
    <2>1. PostedFees' = PostedFees /\ SumOf(lineAmount, Posted)' = SumOf(lineAmount, Posted)
      BY DEF PostedFees, Posted, rows
    <2>2. \A x \in Kinds : PostedLines(x)' = PostedLines(x)
      BY DEF PostedLines, Posted, rows
    <2> QED BY <2>1, <2>2
            DEF SumsInv, AccountsReconcile, AccountReconciles, ClearingReconciles, money
  <1> QED BY <1>2, <1>3, <1>4, <1>5, SumsMove

\* Handlers that end.
LEMMA FinishedSums ==
  ASSUME Isolated, TypeOK, TypeOK', SafeInv, IsolatedInv, SumsInv,
         NEW k \in Workers, MayRun(k), Finish(k), UNCHANGED <<rows, money, credits, late>>
  PROVE  SumsInv'
  <1>1. ReadTells(k)'
    BY DEF ReadTells, Finish, Goto, TypeOK, HandlersType, Driving
  <1>2. \A j \in Workers \ {k} : pc'[j] = pc[j] /\ on'[j] = on[j] /\ seen'[j] = seen[j]
    BY DEF Finish, Goto, TypeOK, HandlersType
  <1> QED BY <1>1, <1>2, QuietSums

\* The reads of settlement and rejection.
LEMMA SettleReadSums ==
  ASSUME Isolated, TypeOK, TypeOK', SafeInv, IsolatedInv, SumsInv,
         NEW k \in Workers, MayRun(k), NEW w \in Withdrawals, NEW e \in Endpoints,
         SettleRead(k, w, e)
  PROVE  SumsInv'
  <1>1. ReadTells(k)'
    BY DEF ReadTells, SettleRead, Read, Goto, TypeOK, HandlersType, Driving, rows, money
  <1>2. \A j \in Workers \ {k} : pc'[j] = pc[j] /\ on'[j] = on[j] /\ seen'[j] = seen[j]
    BY DEF SettleRead, Goto, TypeOK, HandlersType
  <1> QED BY <1>1, <1>2, QuietSums DEF SettleRead

\* The read of a rejection.
LEMMA RejectReadSums ==
  ASSUME Isolated, TypeOK, TypeOK', SafeInv, IsolatedInv, SumsInv,
         NEW k \in Workers, MayRun(k), NEW w \in Withdrawals, RejectRead(k, w)
  PROVE  SumsInv'
  <1>1. ReadTells(k)'
    BY DEF ReadTells, RejectRead, Read, Goto, TypeOK, HandlersType, Driving, rows, money
  <1>2. \A j \in Workers \ {k} : pc'[j] = pc[j] /\ on'[j] = on[j] /\ seen'[j] = seen[j]
    BY DEF RejectRead, Goto, TypeOK, HandlersType
  <1> QED BY <1>1, <1>2, QuietSums DEF RejectRead

\* The call of the provider: nothing is recorded or allocated yet.
LEMMA SubmitSums ==
  ASSUME Isolated, TypeOK, TypeOK', SafeInv, IsolatedInv, SumsInv,
         NEW k \in Workers, MayRun(k), Submit(k)
  PROVE  SumsInv'
  <1>1. ReadTells(k)'
    <2>1. on[k] \in Withdrawals /\ ~recorded[on[k]] /\ journal[on[k]] # "NONE"
      BY HandlerFacts DEF Submit, SumsInv, ReadsTell, ReadTells, SafeInv, Debited, Driving
    <2>2. ~allocated[on[k]]
      BY <2>1 DEF SumsInv, RowsTell, RowTells
    <2>3. /\ pc'[k] \in {"compensate", "record"} /\ on' = on
          /\ seen'[k] = Read(on[k], "PLATFORM")
          /\ UNCHANGED rows
      BY DEF Submit, Goto, TypeOK, HandlersType
    <2> QED BY <2>1, <2>2, <2>3 DEF ReadTells, Read, rows
  <1>2. \A j \in Workers \ {k} : pc'[j] = pc[j] /\ on'[j] = on[j] /\ seen'[j] = seen[j]
    BY DEF Submit, Goto, TypeOK, HandlersType
  <1> QED BY <1>1, <1>2, QuietSums DEF Submit

\* The read of the recording transaction keeps what the submission read.
LEMMA RecordReadSums ==
  ASSUME Isolated, TypeOK, TypeOK', SafeInv, IsolatedInv, SumsInv,
         NEW k \in Workers, MayRun(k), RecordRead(k)
  PROVE  SumsInv'
  <1>1. seen'[k].allocated = seen[k].allocated /\ seen'[k].fee = seen[k].fee
    BY DEF RecordRead, TypeOK, HandlersType, Snapshots
  <1>2. ReadTells(k)'
    <2>1. ReadTells(k)
      BY DEF SumsInv, ReadsTell
    <2> QED BY <1>1, <2>1 DEF ReadTells, RecordRead, Goto, TypeOK, HandlersType, Driving, rows
  <1>3. \A j \in Workers \ {k} : pc'[j] = pc[j] /\ on'[j] = on[j] /\ seen'[j] = seen[j]
    BY DEF RecordRead, Goto, TypeOK, HandlersType
  <1> QED BY <1>2, <1>3, QuietSums DEF RecordRead

\* A failed recording.
LEMMA RecordFailsSums ==
  ASSUME Isolated, TypeOK, TypeOK', SafeInv, IsolatedInv, SumsInv,
         NEW k \in Workers, MayRun(k), RecordFails(k)
  PROVE  SumsInv'
  <1>1. ReadTells(k)'
    <2>1. ReadTells(k)
      BY DEF SumsInv, ReadsTell
    <2> QED BY <2>1 DEF ReadTells, RecordFails, Goto, TypeOK, HandlersType, Driving, rows
  <1>2. \A j \in Workers \ {k} : pc'[j] = pc[j] /\ on'[j] = on[j] /\ seen'[j] = seen[j]
    BY DEF RecordFails, Goto, TypeOK, HandlersType
  <1> QED BY <1>1, <1>2, QuietSums DEF RecordFails

\* The read of the compensation.
LEMMA CompensateReadSums ==
  ASSUME Isolated, TypeOK, TypeOK', SafeInv, IsolatedInv, SumsInv,
         NEW k \in Workers, MayRun(k), CompensateRead(k)
  PROVE  SumsInv'
  <1>1. CASE Finish(k)
    BY <1>1, FinishedSums DEF CompensateRead
  <1>2. CASE /\ ~recorded[on[k]]
             /\ Goto(k, "compensateCommit")
             /\ seen' = [seen EXCEPT ![k] = Read(on[k], Kind[on[k]])]
             /\ UNCHANGED <<on, endpoint>>
    <2>1. ReadTells(k)'
      BY <1>2 DEF CompensateRead, ReadTells, Read, Goto, TypeOK, HandlersType, Driving, rows
    <2>2. \A j \in Workers \ {k} : pc'[j] = pc[j] /\ on'[j] = on[j] /\ seen'[j] = seen[j]
      BY <1>2 DEF Goto, TypeOK, HandlersType
    <2> QED BY <2>1, <2>2, QuietSums DEF CompensateRead
  <1> QED BY <1>1, <1>2 DEF CompensateRead

\* The read of an event's handler.
LEMMA HandlerReadSums ==
  ASSUME Isolated, TypeOK, TypeOK', SafeInv, IsolatedInv, SumsInv,
         NEW k \in Workers, MayRun(k), NEW w \in Withdrawals,
         NEW point \in {"paidCommit", "failedCommit", "createdCommit"},
         HandlerRead(k, w, point), on' = [on EXCEPT ![k] = w]
  PROVE  SumsInv'
  <1>1. ReadTells(k)'
    BY DEF HandlerRead, ReadTells, Read, Goto, TypeOK, HandlersType, Driving, rows, money
  <1>2. \A j \in Workers \ {k} : pc'[j] = pc[j] /\ on'[j] = on[j] /\ seen'[j] = seen[j]
    BY DEF HandlerRead, Goto, TypeOK, HandlersType
  <1> QED BY <1>1, <1>2, QuietSums DEF HandlerRead

\* The cron.
LEMMA ReconcileSums ==
  ASSUME Isolated, TypeOK, TypeOK', SafeInv, IsolatedInv, SumsInv,
         NEW k \in Workers, MayRun(k), NEW w \in Withdrawals, Reconcile(k, w)
  PROVE  SumsInv'
  <1>1. ReadTells(k)'
    BY DEF Reconcile, ReadTells, Goto, TypeOK, HandlersType, Driving
  <1>2. \A j \in Workers \ {k} : pc'[j] = pc[j] /\ on'[j] = on[j] /\ seen'[j] = seen[j]
    BY DEF Reconcile, Goto, TypeOK, HandlersType
  <1> QED BY <1>1, <1>2, QuietSums DEF Reconcile

\* The cron's handler reads the row.
LEMMA ReconcileReadSums ==
  ASSUME Isolated, TypeOK, TypeOK', SafeInv, IsolatedInv, SumsInv,
         NEW k \in Workers, MayRun(k), ReconcileRead(k)
  PROVE  SumsInv'
  <1>1. CASE Finish(k) /\ UNCHANGED <<rows, money, credits, late>>
    BY <1>1, FinishedSums
  <1>2. ASSUME NEW point \in {"paidCommit", "failedCommit"}, HandlerRead(k, on[k], point),
               UNCHANGED on
        PROVE  SumsInv'
    <2>1. on' = [on EXCEPT ![k] = on[k]] /\ on[k] \in Withdrawals
      BY <1>2 DEF TypeOK, HandlersType
    <2> QED BY <1>2, <2>1, HandlerReadSums
  <1> QED BY <1>1, <1>2 DEF ReconcileRead

\* A step that moves no line, no share and no account leaves the books as they are.
LEMMA BooksStay ==
  ASSUME TypeOK, TypeOK', SafeInv, RowsTell, IsFiniteSet(Started), AccountsReconcile,
         NEW w \in Withdrawals, Touches(w),
         Line(w)' = Line(w), Share(w)' = Share(w),
         UNCHANGED <<account, clearing, credits, late>>
  PROVE  AccountsReconcile'
  <1>1. late \subseteq late'
    OBVIOUS
  <1> DEFINE l0 == Line(w)
             l1 == Line(w)'
             s0 == Share(w)
             s1 == Share(w)'
  <1>2. l1 = l0 /\ s1 = s0
    OBVIOUS
  <1> HIDE DEF l0, l1, s0, s1
  <1>3. \A x \in Kinds : (\A y \in late' : Kind[y] # x) =>
             account'[x] - credits'[x] + (IF x = Kind[w] THEN l1 ELSE 0)
                 - (IF x = "PLATFORM" THEN s1 ELSE 0)
               = account[x] - credits[x] + (IF x = Kind[w] THEN l0 ELSE 0)
                 - (IF x = "PLATFORM" THEN s0 ELSE 0)
    BY <1>2
  <1>4. late' = {} => clearing' - l1 + s1 = clearing - l0 + s0
    BY <1>2
  <1> USE DEF l0, l1, s0, s1
  <1> QED BY <1>1, <1>3, <1>4, AccountsMove

\* A request reserves the principal and the fee computed for it.
LEMMA RequestSums ==
  ASSUME Isolated, TypeOK, TypeOK', SafeInv, IsolatedInv, SumsInv,
         NEW k \in Workers, MayRun(k), NEW w \in Withdrawals, Request(k, w)
  PROVE  SumsInv'
  <1> USE DEF TypeOK
  <1>1. /\ status' = [status EXCEPT ![w] = "PENDING"]
        /\ status[w] = "NEW" /\ status'[w] = "PENDING"
        /\ UNCHANGED <<fee, recorded, allocated, platformFee, journal, lineAmount,
                       feeJournal, account, clearing, credits, late>>
    BY DEF Request, RowsType
  <1>2. Touches(w)
    BY <1>1 DEF Touches, RowsType
  <1>3. \A j \in Workers \ {k} : pc'[j] = pc[j] /\ on'[j] = on[j] /\ seen'[j] = seen[j]
    BY DEF Request, Goto, HandlersType
  <1>4. RowTells(w)'
    BY <1>1 DEF RowTells, SumsInv, RowsTell
  <1>5. ReadTells(k)'
    BY DEF ReadTells, Request, Goto, HandlersType, Driving
  <1>6. HeldIsWaiting'
    <2>1. \A x \in Kinds :
             heldBalance'[x]
               - (IF x = Kind[w] /\ status'[w] = "PENDING" THEN Amount[w] + Charge[w] ELSE 0)
             <= heldBalance[x]
               - (IF x = Kind[w] /\ status[w] = "PENDING" THEN Amount[w] + Charge[w] ELSE 0)
      BY <1>1, ConstantsAssumption DEF Request, MoneyType
    <2> QED BY <1>2, <2>1, HeldMoves DEF SumsInv
  <1>7. AccountsReconcile'
    <2>1. Line(w)' = Line(w) /\ Share(w)' = Share(w)
      BY <1>1 DEF Line, Share
    <2> QED BY <1>1, <1>2, <2>1, BooksStay DEF SumsInv
  <1> QED BY <1>1, <1>2, <1>3, <1>4, <1>5, <1>6, <1>7, SumsMove

\* A settlement posts the line it debits and releases what was reserved for it.
LEMMA SettleCommitSums ==
  ASSUME Isolated, TypeOK, TypeOK', SafeInv, IsolatedInv, SumsInv,
         NEW k \in Workers, MayRun(k), SettleCommit(k)
  PROVE  SumsInv'
  <1> USE DEF TypeOK
  <1>1. PICK w \in Withdrawals : w = on[k]
    BY HandlerFacts
  <1>2. /\ status[w] = "PENDING" /\ journal[w] = "NONE" /\ ~recorded[w]
        /\ fee[w] = Charge[w] /\ seen[k].fee = fee[w]
        /\ seen[k].account = account[Kind[w]] /\ seen[k].clearing = clearing
        /\ seen[k].held = heldBalance[Kind[w]]
    BY <1>1 DEF SettleCommit, IsolatedInv, Fresh, SafeInv, Reserved, PendingIsReserved,
                SumsInv, ReadsTell, ReadTells, RowsTell, RowTells
  <1> DEFINE total == Amount[w] + fee[w]
  <1>3. /\ SeenTotal(k) = total
        /\ total \in Nat /\ total = Amount[w] + Charge[w]
        /\ Kind[w] \in Kinds
    BY <1>1, <1>2, ConstantsAssumption DEF SeenTotal, RowsType
  <1> HIDE DEF total
  <1>4. /\ status' = [status EXCEPT ![w] = "PROCESSING"]
        /\ journal' = [journal EXCEPT ![w] = "POSTED"]
        /\ lineAmount' = [lineAmount EXCEPT ![w] = total]
        /\ account' = [account EXCEPT ![Kind[w]] = account[Kind[w]] - total]
        /\ clearing' = clearing + total
        /\ heldBalance' = [heldBalance EXCEPT ![Kind[w]] =
                             NonNegative(heldBalance[Kind[w]] - total)]
        /\ UNCHANGED <<fee, recorded, allocated, platformFee, feeJournal, credits, late>>
    BY <1>1, <1>2, <1>3 DEF SettleCommit, PostJournal
  <1>5. Touches(w)
    BY <1>4 DEF Touches, RowsType
  <1>6. /\ pc'[k] = "submit" /\ on' = on /\ seen' = seen
        /\ \A j \in Workers \ {k} : pc'[j] = pc[j]
    BY DEF SettleCommit, Goto, HandlersType
  <1>7. RowTells(w)'
    BY <1>2, <1>4 DEF RowTells, SumsInv, RowsTell, RowsType, total
  <1>8. ReadTells(k)'
    BY <1>1, <1>2, <1>4, <1>6 DEF ReadTells
  <1>9. HeldIsWaiting'
    <2>1. \A x \in Kinds :
             \/ heldBalance'[x] = 0
             \/ heldBalance'[x]
                  - (IF x = Kind[w] /\ status'[w] = "PENDING" THEN Amount[w] + Charge[w] ELSE 0)
                <= heldBalance[x]
                  - (IF x = Kind[w] /\ status[w] = "PENDING" THEN Amount[w] + Charge[w] ELSE 0)
      BY <1>2, <1>3, <1>4 DEF MoneyType, RowsType, NonNegative
    <2> QED BY <1>5, <2>1, HeldMoves DEF SumsInv
  <1>10. AccountsReconcile'
    <2>1. /\ Line(w) = 0 /\ Line(w)' = total /\ Share(w)' = Share(w)
          /\ Share(w) \in Nat
      BY <1>2, <1>4 DEF Line, Share, RowsType
    <2>2. \A x \in Kinds :
             account'[x] - credits'[x] + (IF x = Kind[w] THEN Line(w)' ELSE 0)
                 - (IF x = "PLATFORM" THEN Share(w)' ELSE 0)
               = account[x] - credits[x] + (IF x = Kind[w] THEN Line(w) ELSE 0)
                 - (IF x = "PLATFORM" THEN Share(w) ELSE 0)
      BY <1>3, <1>4, <2>1 DEF MoneyType
    <2>3. clearing' - Line(w)' + Share(w)' = clearing - Line(w) + Share(w)
      BY <1>3, <1>4, <2>1 DEF MoneyType
    <2> QED BY <1>4, <1>5, <2>2, <2>3, AccountsMove DEF SumsInv
  <1> QED BY <1>4, <1>5, <1>6, <1>7, <1>8, <1>9, <1>10, SumsMove DEF RowsType

\* A rejection.
LEMMA RejectCommitSums ==
  ASSUME Isolated, TypeOK, TypeOK', SafeInv, IsolatedInv, SumsInv,
         NEW k \in Workers, MayRun(k), RejectCommit(k)
  PROVE  SumsInv'
  <1> USE DEF TypeOK
  <1>1. PICK w \in Withdrawals : w = on[k]
    BY HandlerFacts
  <1>2. /\ status[w] = "PENDING" /\ journal[w] = "NONE"
        /\ fee[w] = Charge[w] /\ seen[k].fee = fee[w]
        /\ seen[k].held = heldBalance[Kind[w]]
    BY <1>1 DEF RejectCommit, IsolatedInv, Fresh, SafeInv, Reserved, PendingIsReserved,
                SumsInv, ReadsTell, ReadTells, RowsTell, RowTells
  <1>3. SeenTotal(k) = Amount[w] + Charge[w] /\ Amount[w] + Charge[w] \in Nat
    BY <1>1, <1>2, ConstantsAssumption DEF SeenTotal
  <1>4. /\ status' = [status EXCEPT ![w] = "FAILED"]
        /\ heldBalance' = [heldBalance EXCEPT ![Kind[w]] =
                             NonNegative(heldBalance[Kind[w]] - (Amount[w] + Charge[w]))]
        /\ UNCHANGED <<fee, recorded, allocated, platformFee, journal, lineAmount,
                       feeJournal, account, clearing, credits, late>>
    BY <1>1, <1>2, <1>3 DEF RejectCommit
  <1>5. Touches(w)
    BY <1>4 DEF Touches, RowsType
  <1>6. /\ pc'[k] = "idle"
        /\ \A j \in Workers \ {k} : pc'[j] = pc[j] /\ on'[j] = on[j] /\ seen'[j] = seen[j]
    BY DEF RejectCommit, Finish, Goto, HandlersType
  <1>7. RowTells(w)'
    BY <1>2, <1>4 DEF RowTells, SumsInv, RowsTell, RowsType
  <1>8. ReadTells(k)'
    BY <1>6 DEF ReadTells, Driving
  <1>9. HeldIsWaiting'
    <2>1. \A x \in Kinds :
             \/ heldBalance'[x] = 0
             \/ heldBalance'[x]
                  - (IF x = Kind[w] /\ status'[w] = "PENDING" THEN Amount[w] + Charge[w] ELSE 0)
                <= heldBalance[x]
                  - (IF x = Kind[w] /\ status[w] = "PENDING" THEN Amount[w] + Charge[w] ELSE 0)
      BY <1>2, <1>3, <1>4 DEF MoneyType, RowsType, NonNegative
    <2> QED BY <1>5, <2>1, HeldMoves DEF SumsInv
  <1>10. AccountsReconcile'
    <2>1. Line(w)' = Line(w) /\ Share(w)' = Share(w)
      BY <1>4 DEF Line, Share
    <2> QED BY <1>4, <1>5, <2>1, BooksStay DEF SumsInv
  <1> QED BY <1>4, <1>5, <1>6, <1>7, <1>8, <1>9, <1>10, SumsMove

\* The recording of an organisation's payout posts the platform's share of the
\* fee, once.
LEMMA OrganizationSums ==
  ASSUME Isolated, TypeOK, TypeOK', SafeInv, IsolatedInv, SumsInv,
         NEW k \in Workers, MayRun(k), RecordCommit(k), Kind[on[k]] = "ORGANIZATION"
  PROVE  SumsInv'
  <1> USE DEF TypeOK
  <1>1. PICK w \in Withdrawals : w = on[k]
    BY HandlerFacts
  <1>2. /\ pc[k] = "recordCommit" /\ status[w] \notin {"NEW", "PENDING"}
        /\ ~recorded[w] /\ ~seen[k].allocated /\ ~allocated[w]
        /\ feeJournal[w] = "NONE"
        /\ seen[k].account = account["PLATFORM"] /\ seen[k].clearing = clearing
    BY <1>1 DEF RecordCommit, IsolatedInv, Fresh, Drivers, Driving, SumsInv,
                ReadsTell, ReadTells, RowsTell, RowTells
  <1> DEFINE share == NonNegative(seen[k].fee - payoutFee[w])
  <1>3. share \in Nat
    BY <1>1, HandlerFacts, NonNegativeType DEF ProviderType, Snapshots
  <1>4. /\ IF share > 0
             THEN /\ account' = [account EXCEPT !["PLATFORM"] = account["PLATFORM"] + share]
                  /\ clearing' = clearing - share
                  /\ feeJournal' = [feeJournal EXCEPT ![w] = "POSTED"]
             ELSE UNCHANGED <<account, clearing, feeJournal>>
        /\ recorded' = [recorded EXCEPT ![w] = TRUE]
        /\ allocated' = [allocated EXCEPT ![w] = TRUE]
        /\ platformFee' = [platformFee EXCEPT ![w] = share]
        /\ UNCHANGED <<status, fee, lineAmount, journal, heldBalance, credits, late>>
    BY <1>1, <1>2 DEF RecordCommit, RecordOrganizationPayout
  <1> HIDE DEF share
  <1>5. Touches(w)
    BY <1>4 DEF Touches, RowsType
  <1>6. /\ pc'[k] = "idle"
        /\ \A j \in Workers \ {k} : pc'[j] = pc[j] /\ on'[j] = on[j] /\ seen'[j] = seen[j]
    BY DEF RecordCommit, Finish, Goto, HandlersType
  <1>7. RowTells(w)'
    BY <1>2, <1>3, <1>4 DEF RowTells, SumsInv, RowsTell, RowsType
  <1>8. ReadTells(k)'
    BY <1>6 DEF ReadTells, Driving
  <1>9. HeldIsWaiting'
    <2>1. \A x \in Kinds :
             heldBalance'[x]
                  - (IF x = Kind[w] /\ status'[w] = "PENDING" THEN Amount[w] + Charge[w] ELSE 0)
                <= heldBalance[x]
                  - (IF x = Kind[w] /\ status[w] = "PENDING" THEN Amount[w] + Charge[w] ELSE 0)
      BY <1>2, <1>4 DEF MoneyType
    <2> QED BY <1>5, <2>1, HeldMoves DEF SumsInv
  <1>10. AccountsReconcile'
    <2>1. /\ Line(w)' = Line(w) /\ Share(w) = 0 /\ Share(w)' = share
          /\ Line(w) \in Nat
      BY <1>2, <1>3, <1>4 DEF Line, Share, RowsType
    <2>2. \A x \in Kinds :
             account'[x] - credits'[x] + (IF x = Kind[w] THEN Line(w)' ELSE 0)
                 - (IF x = "PLATFORM" THEN Share(w)' ELSE 0)
               = account[x] - credits[x] + (IF x = Kind[w] THEN Line(w) ELSE 0)
                 - (IF x = "PLATFORM" THEN Share(w) ELSE 0)
      BY <1>3, <1>4, <2>1 DEF MoneyType
    <2>3. clearing' - Line(w)' + Share(w)' = clearing - Line(w) + Share(w)
      BY <1>3, <1>4, <2>1 DEF MoneyType
    <2> QED BY <1>4, <1>5, <2>2, <2>3, AccountsMove DEF SumsInv
  <1>11. pc[k] \in Driving
    BY <1>2 DEF Driving
  <1> QED BY <1>1, <1>4, <1>5, <1>6, <1>7, <1>8, <1>9, <1>10, <1>11, SumsMove

\* The recording of another payout corrects the fee, and the lines with it; the
\* books follow unless the entry has been reversed.
LEMMA OtherSums ==
  ASSUME Isolated, TypeOK, TypeOK', SafeInv, IsolatedInv, SumsInv,
         NEW k \in Workers, MayRun(k), RecordCommit(k), Kind[on[k]] # "ORGANIZATION"
  PROVE  SumsInv'
  <1> USE DEF TypeOK
  <1>1. PICK w \in Withdrawals : w = on[k]
    BY HandlerFacts
  <1>2. /\ pc[k] = "recordCommit" /\ status[w] \notin {"NEW", "PENDING"}
        /\ journal[w] \in {"POSTED", "REVERSED"}
        /\ journal[w] = "POSTED" => lineAmount[w] = Amount[w] + fee[w]
        /\ seen[k].fee = fee[w]
    BY <1>1 DEF RecordCommit, IsolatedInv, Drivers, Driving, SumsInv, RowsType,
                EntryStatuses, ReadsTell, ReadTells, RowsTell, RowTells
  <1> DEFINE difference == payoutFee[w] - fee[w]
  <1>3. /\ difference \in Int /\ fee[w] \in Nat /\ payoutFee[w] \in Nat
        /\ Amount[w] \in Nat /\ lineAmount[w] \in Nat /\ Kind[w] \in Kinds
        /\ difference = 0 <=> payoutFee[w] = fee[w]
        /\ Amount[w] + payoutFee[w] = Amount[w] + fee[w] + difference
    <2>1. /\ fee[w] \in Nat /\ payoutFee[w] \in Nat /\ Amount[w] \in Nat
          /\ lineAmount[w] \in Nat /\ Kind[w] \in Kinds
      BY ConstantsAssumption DEF ProviderType, RowsType
    <2> DEFINE f == fee[w]
               p == payoutFee[w]
               a == Amount[w]
    <2>2. a \in Nat /\ f \in Nat /\ p \in Nat
      BY <2>1
    <2> HIDE DEF a, f, p
    <2>3. p - f \in Int /\ (p - f = 0 <=> p = f) /\ a + p = a + f + (p - f)
      BY <2>2
    <2> QED BY <2>1, <2>3 DEF a, f, p
  <1>4. /\ account' = [account EXCEPT ![Kind[w]] = @ - difference]
        /\ clearing' = clearing + difference
        /\ lineAmount' = IF difference # 0
                           THEN [lineAmount EXCEPT ![w] = Amount[w] + payoutFee[w]]
                           ELSE lineAmount
        /\ fee' = [fee EXCEPT ![w] = payoutFee[w]]
        /\ recorded' = [recorded EXCEPT ![w] = TRUE]
        /\ late' = IF payoutFee[w] # fee[w] /\ journal[w] = "REVERSED"
                     THEN late \cup {w} ELSE late
        /\ UNCHANGED <<status, journal, heldBalance, credits, allocated, platformFee,
                       feeJournal>>
    BY <1>1, <1>2 DEF RecordCommit, RecordOtherPayout
  <1> HIDE DEF difference
  <1>5. Touches(w)
    BY <1>4 DEF Touches, RowsType
  <1>6. /\ pc'[k] = "idle"
        /\ \A j \in Workers \ {k} : pc'[j] = pc[j] /\ on'[j] = on[j] /\ seen'[j] = seen[j]
    BY DEF RecordCommit, Finish, Goto, HandlersType
  <1>7. RowTells(w)'
    <2>1. RowTells(w)
      BY DEF SumsInv, RowsTell
    <2>2. journal'[w] = "POSTED" => lineAmount'[w] = Amount[w] + fee'[w]
      BY <1>2, <1>3, <1>4 DEF RowsType
    <2> QED BY <1>2, <1>4, <2>1, <2>2 DEF RowTells, RowsType
  <1>8. ReadTells(k)'
    BY <1>6 DEF ReadTells, Driving
  <1>9. HeldIsWaiting'
    <2>1. \A x \in Kinds :
             heldBalance'[x]
                  - (IF x = Kind[w] /\ status'[w] = "PENDING" THEN Amount[w] + Charge[w] ELSE 0)
                <= heldBalance[x]
                  - (IF x = Kind[w] /\ status[w] = "PENDING" THEN Amount[w] + Charge[w] ELSE 0)
      BY <1>2, <1>4 DEF MoneyType
    <2> QED BY <1>5, <2>1, HeldMoves DEF SumsInv
  <1>10. AccountsReconcile'
    <2>1. Share(w)' = Share(w) /\ Share(w) \in Nat
      BY <1>4 DEF Share, RowsType
    <2>2. /\ journal[w] = "POSTED" => Line(w)' = Line(w) + difference
          /\ journal[w] = "REVERSED" => Line(w)' = 0 /\ Line(w) = 0
          /\ Line(w) \in Nat /\ Line(w)' \in Nat
      BY <1>2, <1>3, <1>4 DEF Line, RowsType
    <2>3. late \subseteq late' /\ (journal[w] = "REVERSED" /\ difference # 0 => w \in late')
      BY <1>3, <1>4
    <2>4. Line(w)' = Line(w) + difference \/ w \in late'
      BY <1>2, <1>3, <2>2, <2>3
    <2>5. ASSUME NEW x \in Kinds, \A y \in late' : Kind[y] # x
          PROVE  account'[x] - credits'[x] + (IF x = Kind[w] THEN Line(w)' ELSE 0)
                     - (IF x = "PLATFORM" THEN Share(w)' ELSE 0)
                   = account[x] - credits[x] + (IF x = Kind[w] THEN Line(w) ELSE 0)
                     - (IF x = "PLATFORM" THEN Share(w) ELSE 0)
      BY <1>3, <1>4, <2>1, <2>2, <2>4, <2>5 DEF MoneyType
    <2>6. late' = {} => clearing' - Line(w)' + Share(w)' = clearing - Line(w) + Share(w)
      BY <1>3, <1>4, <2>1, <2>2, <2>4 DEF MoneyType
    <2> QED BY <1>5, <2>3, <2>5, <2>6, AccountsMove DEF SumsInv
  <1>11. pc[k] \in Driving
    BY <1>2 DEF Driving
  <1> QED BY <1>1, <1>4, <1>5, <1>6, <1>7, <1>8, <1>9, <1>10, <1>11, SumsMove

\* What a refund moves.
LEMMA RefundMoves ==
  ASSUME NEW k, NEW w, NEW total, Refund(k, w, total)
  PROVE  /\ \A x \in Kinds :
               account'[x] = account[x] + (IF x = Kind[w] THEN total ELSE 0)
                               - (IF x = "PLATFORM" THEN FeeTakenBack(k) ELSE 0)
         /\ clearing' = clearing - total + FeeTakenBack(k)
  BY DEF Refund

\* The compensation gives back what the line took; no share is posted yet.
LEMMA CompensateCommitSums ==
  ASSUME Isolated, TypeOK, TypeOK', SafeInv, IsolatedInv, SumsInv,
         NEW k \in Workers, MayRun(k), CompensateCommit(k)
  PROVE  SumsInv'
  <1> USE DEF TypeOK
  <1>1. PICK w \in Withdrawals : w = on[k]
    BY HandlerFacts
  <1>2. status[w] = "PROCESSING" /\ journal[w] = "POSTED"
    BY <1>1, HandledIsProcessing DEF CompensateCommit
  <1>3. /\ ~recorded[w] /\ ~allocated[w] /\ ~seen[k].allocated
        /\ feeJournal[w] = "NONE"
        /\ seen[k].fee = fee[w] /\ lineAmount[w] = Amount[w] + fee[w]
    BY <1>1, <1>2 DEF CompensateCommit, Driving, SumsInv, ReadsTell, ReadTells,
                      RowsTell, RowTells
  <1> DEFINE total == lineAmount[w]
  <1>4. /\ SeenTotal(k) = total /\ FeeTakenBack(k) = 0
        /\ total \in Nat /\ Kind[w] \in Kinds
    BY <1>1, <1>3, ConstantsAssumption DEF SeenTotal, FeeTakenBack, RowsType
  <1>5. /\ status' = [status EXCEPT ![w] = "FAILED"]
        /\ journal' = [journal EXCEPT ![w] = "REVERSED"]
        /\ \A x \in Kinds : account'[x] = account[x] + (IF x = Kind[w] THEN total ELSE 0)
        /\ clearing' = clearing - total
        /\ UNCHANGED <<fee, recorded, allocated, platformFee, lineAmount, feeJournal,
                       heldBalance, credits, late>>
    <2>1. /\ status' = [status EXCEPT ![w] = "FAILED"]
          /\ journal' = [journal EXCEPT ![w] = "REVERSED"]
          /\ Refund(k, w, total)
          /\ UNCHANGED <<fee, recorded, allocated, platformFee, lineAmount,
                         heldBalance, credits, late>>
      BY <1>1, <1>2, <1>4 DEF CompensateCommit, ReverseJournal
    <2> HIDE DEF total
    <2>2. feeJournal' = feeJournal
      BY <1>4, <2>1 DEF Refund
    <2>3. \A x \in Kinds : account'[x] = account[x] + (IF x = Kind[w] THEN total ELSE 0)
      BY <1>4, <2>1, RefundMoves DEF MoneyType
    <2>4. clearing' = clearing - total
      BY <1>4, <2>1, RefundMoves DEF MoneyType
    <2> QED BY <2>1, <2>2, <2>3, <2>4
  <1> HIDE DEF total
  <1>6. Touches(w)
    BY <1>5 DEF Touches, RowsType
  <1>7. /\ pc'[k] = "idle"
        /\ \A j \in Workers \ {k} : pc'[j] = pc[j] /\ on'[j] = on[j] /\ seen'[j] = seen[j]
    BY DEF CompensateCommit, Finish, Goto, HandlersType
  <1>8. RowTells(w)'
    BY <1>2, <1>3, <1>5 DEF RowTells, RowsType
  <1>9. ReadTells(k)'
    BY <1>7 DEF ReadTells, Driving
  <1>10. HeldIsWaiting'
    <2>1. status[w] # "PENDING" /\ status'[w] # "PENDING" /\ heldBalance' = heldBalance
      BY <1>2, <1>5 DEF RowsType
    <2>2. \A x \in Kinds :
             heldBalance'[x]
                  - (IF x = Kind[w] /\ status'[w] = "PENDING" THEN Amount[w] + Charge[w] ELSE 0)
                <= heldBalance[x]
                  - (IF x = Kind[w] /\ status[w] = "PENDING" THEN Amount[w] + Charge[w] ELSE 0)
      BY <2>1 DEF MoneyType
    <2> QED BY <1>6, <2>2, HeldMoves DEF SumsInv
  <1>11. AccountsReconcile'
    <2>1. /\ Line(w) = total /\ Line(w)' = 0
          /\ Share(w)' = Share(w) /\ Share(w) = 0
      BY <1>2, <1>3, <1>5 DEF Line, Share, RowsType, total
    <2>2. \A x \in Kinds :
             account'[x] - credits'[x] + (IF x = Kind[w] THEN Line(w)' ELSE 0)
                 - (IF x = "PLATFORM" THEN Share(w)' ELSE 0)
               = account[x] - credits[x] + (IF x = Kind[w] THEN Line(w) ELSE 0)
                 - (IF x = "PLATFORM" THEN Share(w) ELSE 0)
      BY <1>4, <1>5, <2>1 DEF MoneyType
    <2>3. clearing' - Line(w)' + Share(w)' = clearing - Line(w) + Share(w)
      BY <1>4, <1>5, <2>1 DEF MoneyType
    <2> QED BY <1>5, <1>6, <2>2, <2>3, AccountsMove DEF SumsInv
  <1> QED BY <1>5, <1>6, <1>7, <1>8, <1>9, <1>10, <1>11, SumsMove DEF RowsType

\* The failure webhook gives back what the line took, and the share if one has
\* been posted.
LEMMA FailedCommitSums ==
  ASSUME Isolated, TypeOK, TypeOK', SafeInv, IsolatedInv, SumsInv,
         NEW k \in Workers, MayRun(k), FailedCommit(k)
  PROVE  SumsInv'
  <1> USE DEF TypeOK
  <1>1. PICK w \in Withdrawals : w = on[k]
    BY HandlerFacts
  <1>2. status[w] = "PROCESSING" /\ journal[w] = "POSTED"
    BY <1>1, HandledIsProcessing DEF FailedCommit
  <1>3. /\ seen[k].status = "PROCESSING" /\ seen[k].fee = fee[w]
        /\ seen[k].allocated = allocated[w] /\ seen[k].platformFee = platformFee[w]
        /\ seen[k].held = heldBalance[Kind[w]]
        /\ lineAmount[w] = Amount[w] + fee[w]
        /\ ~recorded[w] => ~allocated[w] /\ feeJournal[w] = "NONE"
        /\ allocated[w] /\ platformFee[w] > 0 => feeJournal[w] = "POSTED"
    BY <1>1, <1>2 DEF FailedCommit, SumsInv, ReadsTell, ReadTells, RowsTell, RowTells
  <1> DEFINE total == lineAmount[w]
             back == IF allocated[w] THEN platformFee[w] ELSE 0
  <1>4. /\ SeenTotal(k) = total /\ FeeTakenBack(k) = back
        /\ total \in Nat /\ back \in Nat /\ Kind[w] \in Kinds
    BY <1>1, <1>3, ConstantsAssumption DEF SeenTotal, FeeTakenBack, RowsType
  <1>5. /\ status' = [status EXCEPT ![w] = "FAILED"]
        /\ journal' = [journal EXCEPT ![w] = "REVERSED"]
        /\ \A x \in Kinds : account'[x] = account[x] + (IF x = Kind[w] THEN total ELSE 0)
                                            - (IF x = "PLATFORM" THEN back ELSE 0)
        /\ clearing' = clearing - total + back
        /\ feeJournal' = IF back > 0 /\ feeJournal[w] = "POSTED"
                           THEN [feeJournal EXCEPT ![w] = "REVERSED"]
                           ELSE feeJournal
        /\ heldBalance' = [heldBalance EXCEPT ![Kind[w]] =
                             NonNegative(heldBalance[Kind[w]] - total)]
        /\ UNCHANGED <<fee, recorded, allocated, platformFee, lineAmount, credits, late>>
    <2> HIDE DEF total, back
    <2>1. /\ status' = [status EXCEPT ![w] = "FAILED"]
          /\ journal' = [journal EXCEPT ![w] = "REVERSED"]
          /\ Refund(k, w, total)
          /\ heldBalance' = [heldBalance EXCEPT ![Kind[w]] =
                               NonNegative(heldBalance[Kind[w]] - total)]
          /\ UNCHANGED <<fee, recorded, allocated, platformFee, lineAmount, credits, late>>
      BY <1>1, <1>2, <1>3, <1>4 DEF FailedCommit, ReverseJournal
    <2>2. feeJournal' = IF back > 0 /\ feeJournal[w] = "POSTED"
                          THEN [feeJournal EXCEPT ![w] = "REVERSED"]
                          ELSE feeJournal
      BY <1>4, <2>1 DEF Refund
    <2>3. /\ \A x \in Kinds : account'[x] = account[x] + (IF x = Kind[w] THEN total ELSE 0)
                                              - (IF x = "PLATFORM" THEN back ELSE 0)
          /\ clearing' = clearing - total + back
      BY <1>4, <2>1, RefundMoves
    <2> QED BY <2>1, <2>2, <2>3
  <1>6. /\ Line(w) = total /\ Line(w)' = 0
        /\ Share(w) \in Nat /\ Share(w)' \in Nat
        /\ Share(w)' = Share(w) - back
    BY <1>2, <1>3, <1>5 DEF Line, Share, RowsType
  <1>7. RowTells(w)'
    BY <1>2, <1>3, <1>5 DEF RowTells, RowsType
  <1> HIDE DEF total, back
  <1>8. Touches(w)
    BY <1>5 DEF Touches, RowsType
  <1>9. /\ pc'[k] = "idle"
        /\ \A j \in Workers \ {k} : pc'[j] = pc[j] /\ on'[j] = on[j] /\ seen'[j] = seen[j]
    BY DEF FailedCommit, Finish, Goto, HandlersType
  <1>10. ReadTells(k)'
    BY <1>9 DEF ReadTells, Driving
  <1>11. HeldIsWaiting'
    <2>1. status[w] # "PENDING" /\ status'[w] # "PENDING"
      BY <1>2, <1>5 DEF RowsType
    <2>2. \A x \in Kinds :
             \/ heldBalance'[x] = 0
             \/ heldBalance'[x]
                  - (IF x = Kind[w] /\ status'[w] = "PENDING" THEN Amount[w] + Charge[w] ELSE 0)
                <= heldBalance[x]
                  - (IF x = Kind[w] /\ status[w] = "PENDING" THEN Amount[w] + Charge[w] ELSE 0)
      BY <1>4, <1>5, <2>1 DEF MoneyType, NonNegative
    <2> QED BY <1>8, <2>2, HeldMoves DEF SumsInv
  <1>12. AccountsReconcile'
    <2> DEFINE l0 == Line(w)
               l1 == Line(w)'
               s0 == Share(w)
               s1 == Share(w)'
    <2>1. l0 = total /\ l1 = 0 /\ s0 \in Nat /\ s1 \in Nat /\ s1 = s0 - back
      BY <1>6
    <2> HIDE DEF l0, l1, s0, s1
    <2>2. ASSUME NEW x \in Kinds
          PROVE  account'[x] - credits'[x] + (IF x = Kind[w] THEN l1 ELSE 0)
                     - (IF x = "PLATFORM" THEN s1 ELSE 0)
                   = account[x] - credits[x] + (IF x = Kind[w] THEN l0 ELSE 0)
                     - (IF x = "PLATFORM" THEN s0 ELSE 0)
      <3>1. /\ account[x] \in Int /\ credits[x] \in Nat /\ credits'[x] = credits[x]
            /\ account'[x] = account[x] + (IF x = Kind[w] THEN total ELSE 0)
                               - (IF x = "PLATFORM" THEN back ELSE 0)
        BY <1>5 DEF MoneyType
      <3> QED BY <1>4, <2>1, <3>1
    <2>3. clearing' - l1 + s1 = clearing - l0 + s0
      BY <1>4, <1>5, <2>1 DEF MoneyType
    <2> USE DEF l0, l1, s0, s1
    <2> QED BY <1>5, <1>8, <2>2, <2>3, AccountsMove DEF SumsInv
  <1> QED BY <1>5, <1>7, <1>8, <1>9, <1>10, <1>11, <1>12, SumsMove DEF RowsType

\* A step that only moves a processing row on.
LEMMA StatusSums ==
  ASSUME Isolated, TypeOK, TypeOK', SafeInv, IsolatedInv, SumsInv,
         NEW k \in Workers, MayRun(k), NEW w \in Withdrawals,
         status[w] = "PROCESSING", NEW st \in {"PROCESSING", "COMPLETED"},
         status' = [status EXCEPT ![w] = st], Finish(k),
         UNCHANGED <<fee, recorded, allocated, platformFee, journal, lineAmount,
                     feeJournal, money, credits, late>>
  PROVE  SumsInv'
  <1> USE DEF TypeOK
  <1>1. Touches(w)
    BY DEF Touches, RowsType
  <1>2. /\ pc'[k] = "idle"
        /\ \A j \in Workers \ {k} : pc'[j] = pc[j] /\ on'[j] = on[j] /\ seen'[j] = seen[j]
    BY DEF Finish, Goto, HandlersType
  <1>3. ReadTells(k)'
    BY <1>2 DEF ReadTells, Driving
  <1>4. RowTells(w)'
    BY DEF SumsInv, RowsTell, RowTells, RowsType
  <1>5. HeldIsWaiting'
    <2>1. status[w] # "PENDING" /\ status'[w] # "PENDING" /\ heldBalance' = heldBalance
      BY DEF RowsType, money
    <2>2. \A x \in Kinds :
             heldBalance'[x]
                  - (IF x = Kind[w] /\ status'[w] = "PENDING" THEN Amount[w] + Charge[w] ELSE 0)
                <= heldBalance[x]
                  - (IF x = Kind[w] /\ status[w] = "PENDING" THEN Amount[w] + Charge[w] ELSE 0)
      BY <2>1 DEF MoneyType
    <2> QED BY <1>1, <2>2, HeldMoves DEF SumsInv
  <1>6. AccountsReconcile'
    <2>1. Line(w)' = Line(w) /\ Share(w)' = Share(w)
      BY DEF Line, Share
    <2> QED BY <1>1, <2>1, BooksStay DEF SumsInv, money
  <1> QED BY <1>1, <1>2, <1>3, <1>4, <1>5, <1>6, SumsMove

\* The write of a paid event.
LEMMA PaidCommitSums ==
  ASSUME Isolated, TypeOK, TypeOK', SafeInv, IsolatedInv, SumsInv,
         NEW k \in Workers, MayRun(k), PaidCommit(k)
  PROVE  SumsInv'
  <1>1. on[k] \in Withdrawals /\ status[on[k]] = "PROCESSING"
    BY HandlerFacts, HandledIsProcessing DEF PaidCommit
  <1> QED BY <1>1, StatusSums DEF PaidCommit

\* The write of a created event.
LEMMA CreatedCommitSums ==
  ASSUME Isolated, TypeOK, TypeOK', SafeInv, IsolatedInv, SumsInv,
         NEW k \in Workers, MayRun(k), CreatedCommit(k)
  PROVE  SumsInv'
  <1>1. on[k] \in Withdrawals /\ status[on[k]] = "PROCESSING"
    BY HandlerFacts, HandledIsProcessing DEF CreatedCommit
  <1> QED BY <1>1, StatusSums DEF CreatedCommit

\* A deposit is in the wallet, its account and the entries alike.
LEMMA CreditSums ==
  ASSUME TypeOK, TypeOK', SafeInv, SumsInv, NEW x \in Kinds, Credit(x)
  PROVE  SumsInv'
  <1>1. IsFiniteSet(Started)' /\ RowsTell'
    BY DEF SumsInv, Started, RowsTell, RowTells, Credit, rows
  <1>2. ReadsTell'
    BY DEF SumsInv, ReadsTell, ReadTells, Credit, rows, handlers
  <1>3. HeldIsWaiting'
    <2>1. \A y \in Kinds : WaitingTotal(y)' = WaitingTotal(y)
      BY DEF WaitingTotal, Waiting, Credit, rows
    <2> QED BY <2>1 DEF SumsInv, HeldIsWaiting, Credit
  <1>4. AccountsReconcile'
    <2>1. PICK w \in Withdrawals : w = SomeWithdrawal
      BY SomeWithdrawalType
    <2>2. Touches(w)
      BY DEF Touches, Credit, rows
    <2> DEFINE l0 == Line(w)
               l1 == Line(w)'
               s0 == Share(w)
               s1 == Share(w)'
    <2>3. l1 = l0 /\ s1 = s0 /\ l0 \in Nat /\ s0 \in Nat
      BY DEF Line, Share, Credit, rows, TypeOK, RowsType
    <2> HIDE DEF l0, l1, s0, s1
    <2>4. \A y \in Kinds :
             account'[y] - credits'[y] + (IF y = Kind[w] THEN l1 ELSE 0)
                 - (IF y = "PLATFORM" THEN s1 ELSE 0)
               = account[y] - credits[y] + (IF y = Kind[w] THEN l0 ELSE 0)
                 - (IF y = "PLATFORM" THEN s0 ELSE 0)
      <3> TAKE y \in Kinds
      <3>1. /\ account[y] \in Int /\ credits[y] \in Int
            /\ account'[y] - credits'[y] = account[y] - credits[y]
            /\ account'[y] \in Int /\ credits'[y] \in Int
        BY DEF Credit, TypeOK, MoneyType
      <3> QED BY <2>3, <3>1
    <2>5. clearing' - l1 + s1 = clearing - l0 + s0 /\ late \subseteq late'
      BY <2>3 DEF Credit
    <2> USE DEF l0, l1, s0, s1
    <2> QED BY <2>2, <2>4, <2>5, AccountsMove DEF SumsInv
  <1> QED BY <1>1, <1>2, <1>3, <1>4 DEF SumsInv

\* Steps of the provider, and steps of nobody.
LEMMA IdleSums ==
  ASSUME SumsInv, UNCHANGED <<rows, money, credits, late, handlers>>
  PROVE  SumsInv'
  <1> USE DEF rows, money, handlers
  <1>1. IsFiniteSet(Started)' /\ RowsTell'
    BY DEF SumsInv, Started, RowsTell, RowTells
  <1>2. ReadsTell'
    BY DEF SumsInv, ReadsTell, ReadTells
  <1>3. HeldIsWaiting'
    <2>1. \A y \in Kinds : WaitingTotal(y)' = WaitingTotal(y)
      BY DEF WaitingTotal, Waiting
    <2> QED BY <2>1 DEF SumsInv, HeldIsWaiting
  <1>4. AccountsReconcile'
    <2>1. PostedFees' = PostedFees /\ SumOf(lineAmount, Posted)' = SumOf(lineAmount, Posted)
      BY DEF PostedFees, Posted
    <2>2. \A y \in Kinds : PostedLines(y)' = PostedLines(y)
      BY DEF PostedLines, Posted
    <2> QED BY <2>1, <2>2
            DEF SumsInv, AccountsReconcile, AccountReconciles, ClearingReconciles
  <1> QED BY <1>1, <1>2, <1>3, <1>4 DEF SumsInv

\* Nothing is requested, held or journaled at first.
LEMMA InitSums == Init => SumsInv
  <1> SUFFICES ASSUME Init PROVE SumsInv
    OBVIOUS
  <1> USE DEF Init
  <1>1. Started = {} /\ Posted = {} /\ \A x \in Kinds : Waiting(x) = {}
    BY DEF Started, Posted, Waiting
  <1>2. IsFiniteSet(Started)
    BY <1>1, FS_EmptySet
  <1>3. RowsTell
    BY DEF RowsTell, RowTells
  <1>4. ReadsTell
    BY DEF ReadsTell, ReadTells, Driving
  <1>5. HeldIsWaiting
    <2>1. \A x \in Kinds : WaitingTotal(x) = 0
      BY <1>1, SumEmpty DEF WaitingTotal
    <2> QED BY <2>1 DEF HeldIsWaiting
  <1>6. AccountsReconcile
    <2>1. {w \in Withdrawals : feeJournal[w] = "POSTED"} = {}
      OBVIOUS
    <2>2. PostedFees = 0 /\ SumOf(lineAmount, Posted) = 0
      BY <1>1, <2>1, SumEmpty DEF PostedFees
    <2>3. \A x \in Kinds : PostedLines(x) = 0
      <3> TAKE x \in Kinds
      <3>1. {w \in Posted : Kind[w] = x} = {}
        BY <1>1
      <3> QED BY <3>1, SumEmpty DEF PostedLines
    <2>4. \A x \in Kinds : AccountReconciles(x)
      BY <2>2, <2>3, ConstantsAssumption DEF AccountReconciles
    <2>5. ClearingReconciles
      BY <2>2 DEF ClearingReconciles
    <2> QED BY <2>4, <2>5 DEF AccountsReconcile
  <1> QED BY <1>2, <1>3, <1>4, <1>5, <1>6 DEF SumsInv

\* Every step of isolated handlers keeps the sums.
LEMMA SumsStep ==
  ASSUME Isolated, TypeOK, TypeOK', SafeInv, IsolatedInv, SumsInv, [Next]_vars
  PROVE  SumsInv'
  <1>1. ASSUME NEW k \in Workers, MayRun(k), Continue(k) PROVE SumsInv'
    <2>1. CASE SettleOwn(k)
      BY <1>1, <2>1, SettleReadSums, FinishedSums, HandlerFacts DEF SettleOwn
    <2>2. CASE SettleRollback(k)
      BY <1>1, <2>2, FinishedSums DEF SettleRollback
    <2>3. CASE RecordCommit(k)
      BY <1>1, <2>3, OrganizationSums, OtherSums
    <2> QED BY <1>1, <2>1, <2>2, <2>3, SettleCommitSums, RejectCommitSums, SubmitSums,
               RecordReadSums, CompensateReadSums, CompensateCommitSums,
               ReconcileReadSums, PaidCommitSums, FailedCommitSums, CreatedCommitSums
            DEF Continue
  <1>2. ASSUME NEW k \in Workers, MayRun(k), NEW w \in Withdrawals, Start(k, w)
        PROVE  SumsInv'
    <2>1. CASE PaidWebhook(k, w) \/ FailedWebhook(k, w) \/ CreatedWebhook(k, w)
      BY <1>2, <2>1, HandlerReadSums
      DEF PaidWebhook, FailedWebhook, CreatedWebhook, Deliver
    <2> QED BY <1>2, <2>1, RequestSums, SettleReadSums, RejectReadSums, ReconcileSums
            DEF Start, Approve
  <1>3. ASSUME NEW k \in Workers, MayRun(k), RecordFails(k) \/ Crash(k)
        PROVE  SumsInv'
    BY <1>3, RecordFailsSums, FinishedSums DEF Crash
  <1>4. ASSUME NEW w \in Withdrawals, Decide(w) PROVE SumsInv'
    BY <1>4, IdleSums DEF Decide
  <1>5. ASSUME NEW x \in Kinds, Credit(x) PROVE SumsInv'
    BY <1>5, CreditSums
  <1>6. CASE UNCHANGED vars
    BY <1>6, IdleSums DEF vars
  <1> QED BY <1>1, <1>2, <1>3, <1>4, <1>5, <1>6 DEF Next

\* The sums hold throughout.
LEMMA SumsSafe ==
  ASSUME Isolated
  PROVE  Spec => []SumsInv
  <1>1. Init => SumsInv
    BY InitSums
  <1>2. TypeOK /\ TypeOK' /\ SafeInv /\ IsolatedInv /\ SumsInv /\ [Next]_vars => SumsInv'
    BY SumsStep
  <1> QED BY <1>1, <1>2, TypeCorrect, Safe, IsolatedSafe, PTL DEF Spec

\* Without lost updates the balances of the accounts are what the POSTED entries
\* add up to, however settlements, fee corrections, fee shares, refunds and
\* deposits of any number of withdrawals follow each other.
THEOREM AccountsAgree ==
  ASSUME Isolated
  PROVE  Spec => []AccountsReconcile
  <1>1. SumsInv => AccountsReconcile
    BY DEF SumsInv
  <1> QED BY <1>1, SumsSafe, PTL

\* Without lost updates no wallet holds back more than its active holds.
THEOREM HoldsCovered ==
  ASSUME Isolated
  PROVE  Spec => []NoPhantomHold
  <1>1. ASSUME TypeOK, SafeInv, IsolatedInv, SumsInv PROVE NoPhantomHold
    <2> SUFFICES ASSUME NEW x \in Kinds PROVE heldBalance[x] <= HeldTotal(x)
      BY DEF NoPhantomHold
    <2> DEFINE Held == {w \in Withdrawals : hold[w] = "ACTIVE" /\ Kind[w] = x}
    <2>1. Held \subseteq Started /\ Waiting(x) \subseteq Held
      BY <1>1 DEF Started, Waiting, IsolatedInv, Stages, SafeInv, Reserved, PendingIsReserved
    <2>2. IsFiniteSet(Held) /\ IsFiniteSet(Waiting(x))
      BY <1>1, <2>1, FS_Subset DEF SumsInv
    <2>3. \A w \in Held : Reserve[w] \in Nat
      BY ConstantsAssumption DEF Reserve
    <2>4. HeldTotal(x) = SumOf(Reserve, Held)
      BY DEF HeldTotal
    <2> HIDE DEF Held
    <2>5. WaitingTotal(x) <= SumOf(Reserve, Held)
      BY <2>1, <2>2, <2>3, SumOfPart DEF WaitingTotal
    <2>6. SumOf(Reserve, Held) \in Nat /\ WaitingTotal(x) \in Nat
      <3>1. \A w \in Waiting(x) : Reserve[w] \in Nat
        BY <2>1, <2>3
      <3> QED BY <2>2, <2>3, <3>1, SumNat DEF WaitingTotal
    <2>7. heldBalance[x] <= WaitingTotal(x) /\ heldBalance[x] \in Nat
      BY <1>1 DEF SumsInv, HeldIsWaiting, TypeOK, MoneyType
    <2> QED BY <2>4, <2>5, <2>6, <2>7
  <1>2. TypeOK /\ SafeInv /\ IsolatedInv /\ SumsInv => NoPhantomHold
    BY <1>1
  <1> QED BY <1>2, TypeCorrect, Safe, IsolatedSafe, SumsSafe, PTL

\* Without overlapping handlers a status shown as terminal stays: every write of
\* a status is to a row that is new, waiting or processing.
LEMMA StatusWritten ==
  ASSUME TypeOK, SafeInv, IsolatedInv, [Next]_vars, NEW w \in Withdrawals,
         status[w] \in {"COMPLETED", "FAILED"}
  PROVE  status'[w] = status[w]
  <1> USE DEF TypeOK, RowsType
  <1>1. ASSUME NEW k \in Workers, Continue(k) PROVE status'[w] = status[w]
    <2>1. CASE SettleCommit(k) \/ RejectCommit(k)
      BY <2>1 DEF SettleCommit, RejectCommit, IsolatedInv, Fresh
    <2>2. CASE PaidCommit(k) \/ CompensateCommit(k) \/ FailedCommit(k) \/ CreatedCommit(k)
      BY <2>2, HandledIsProcessing
      DEF PaidCommit, CompensateCommit, FailedCommit, CreatedCommit
    <2>3. CASE SettleOwn(k) \/ SettleRollback(k) \/ Submit(k) \/ RecordRead(k)
               \/ RecordCommit(k) \/ CompensateRead(k) \/ ReconcileRead(k)
      BY <2>3 DEF SettleOwn, SettleRead, SettleRollback, Submit, RecordRead,
                  RecordCommit, CompensateRead, ReconcileRead, HandlerRead, rows
    <2> QED BY <1>1, <2>1, <2>2, <2>3 DEF Continue
  <1>2. ASSUME NEW k \in Workers, NEW v \in Withdrawals, Start(k, v)
        PROVE  status'[w] = status[w]
    BY <1>2 DEF Start, Request, Approve, SettleRead, RejectRead, PaidWebhook,
                FailedWebhook, CreatedWebhook, HandlerRead, Reconcile, rows
  <1>3. ASSUME NEW k \in Workers, RecordFails(k) \/ Crash(k) PROVE status'[w] = status[w]
    BY <1>3 DEF RecordFails, Crash, rows
  <1>4. ASSUME NEW v \in Withdrawals, Decide(v) PROVE status'[w] = status[w]
    BY <1>4 DEF Decide, rows
  <1>5. ASSUME NEW x \in Kinds, Credit(x) PROVE status'[w] = status[w]
    BY <1>5 DEF Credit, rows
  <1>6. CASE UNCHANGED vars
    BY <1>6 DEF vars, rows
  <1> QED BY <1>1, <1>2, <1>3, <1>4, <1>5, <1>6 DEF Next

\* Without overlapping handlers no late event, approval or compensation takes a
\* withdrawal out of COMPLETED or FAILED.
THEOREM FinalStatusKept ==
  ASSUME Isolated
  PROVE  Spec => FinalStatusIsFinal
  <1>1. TypeOK /\ SafeInv /\ IsolatedInv /\ [Next]_vars =>
          [\A w \in Withdrawals :
             status[w] \in {"COMPLETED", "FAILED"} => status'[w] = status[w]]_vars
    BY StatusWritten
  <1> QED BY <1>1, TypeCorrect, Safe, IsolatedSafe, PTL DEF Spec, FinalStatusIsFinal

=============================================================================
