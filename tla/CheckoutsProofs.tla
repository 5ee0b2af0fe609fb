-------------------------- MODULE CheckoutsProofs --------------------------
(***************************************************************************)
(* Theorems about Checkouts, for every set of dues, attempts, sessions and *)
(* workers, and every price.                                               *)
(*                                                                         *)
(* The first part needs no isolation: it rests on what links a handler's   *)
(* task to the rows and sessions it was read from, all of which only grow. *)
(* The second part assumes that handlers are not interleaved between a     *)
(* read and its commit.                                                    *)
(***************************************************************************)
EXTENDS Checkouts, TLAPS

(* Types, and what rows, sessions and tasks refer to *)

\* A row is used once it has a due, and keeps both for good.
RowsLinked == \A p \in Rows : status[p] # "NONE" <=> due[p] # None

\* Only a used row is paid.
PaymentsLinked == \A p \in Rows : paidBy[p] # None => due[p] # None

\* A session that was opened names the used row it was opened for.
SessionsLinked ==
    \A c \in Sessions : session[c] # "NONE" \/ c \in failedAttempts =>
        /\ session[c] # "NONE"
        /\ rowOf[c] \in Rows
        /\ due[rowOf[c]] # None

RowPoints == {"open", "store", "receipt", "completeCommit", "pollCommit", "cancelCommit"}

\* A handler works on a used row; one that completes has seen its session paid.
TasksLinked ==
    \A k \in Workers :
        /\ pc[k] \in RowPoints => task[k].row \in Rows
        /\ task[k].row \in Rows => due[task[k].row] # None
        /\ pc[k] = "initiateCommit" => task[k].due \in Dues
        /\ pc[k] \in {"store", "completeCommit"} => task[k].session \in Sessions
        /\ pc[k] = "completeCommit" =>
              /\ session[task[k].session] = "PAID"
              /\ rowOf[task[k].session] = task[k].row

Linked == RowsLinked /\ PaymentsLinked /\ SessionsLinked /\ TasksLinked

LEMMA ShareType ==
  ASSUME NEW d \in Dues
  PROVE  Share(d) \in [Accounts -> Nat]
  BY CheckoutAssumption DEF Share, Accounts

LEMMA NoTaskType == NoTask \in Tasks /\ NoTask.row = None
  BY DEF NoTask, Tasks

\* The tasks handlers are given.
LEMMA TaskTypes ==
  /\ \A d \in Dues, p \in Rows \cup {None}, v \in {"EXPIRED", "CANCELLED"} :
        [NoTask EXCEPT !.due = d, !.row = p, !.verdict = v] \in Tasks
  /\ \A d \in Dues, p \in Rows \cup {None} :
        [NoTask EXCEPT !.due = d, !.row = p] \in Tasks
  /\ \A d \in Dues : [NoTask EXCEPT !.due = d] \in Tasks
  /\ \A p \in Rows : [NoTask EXCEPT !.row = p] \in Tasks
  /\ \A p \in Rows, v \in {"EXPIRED", "CANCELLED"} :
        [NoTask EXCEPT !.row = p, !.verdict = v] \in Tasks
  /\ \A p \in Rows, c \in Sessions, s \in [Accounts -> Nat] :
        [NoTask EXCEPT !.row = p, !.session = c, !.seen = s] \in Tasks
  /\ \A t \in Tasks, c \in Sessions : [t EXCEPT !.session = c] \in Tasks
  BY DEF NoTask, Tasks

LEMMA InitLinked == Init => TypeOK /\ Linked
  BY NoTaskType, CheckoutAssumption
  DEF Init, TypeOK, Linked, RowsLinked, SessionsLinked, TasksLinked, RowPoints,
      PaymentsLinked, Statuses, SessionStates, ProgramPoints, Accounts

LEMMA InitiateLinked ==
  ASSUME TypeOK, Linked, NEW k \in Workers, NEW d \in Dues, Initiate(k, d)
  PROVE  TypeOK' /\ Linked'
  <1> USE DEF TypeOK, Linked, RowsLinked, PaymentsLinked, SessionsLinked,
              TasksLinked, Initiate, Active, Continue, ProgramPoints, CommitPoints, RowPoints,
              attempts, books, provider
  <1>1. PICK t \in Tasks, point \in {"initiateCommit", "open"} :
           /\ Continue(k, point, t)
           /\ t.row \in Rows => status[t.row] = "PENDING"
           /\ point = "open" => t.row \in Rows
           /\ point = "initiateCommit" => t.due \in Dues
    BY ZenonT(40), TaskTypes, NoTaskType, CheckoutAssumption DEF NoTask
  <1>2. task' \in [Workers -> Tasks] /\ pc' \in [Workers -> ProgramPoints]
    BY <1>1
  <1>3. TypeOK'
    BY <1>2
  <1>4. RowsLinked' /\ PaymentsLinked' /\ SessionsLinked'
    OBVIOUS
  <1>5. TasksLinked'
    BY <1>1
  <1> QED BY <1>3, <1>4, <1>5

\* The facts a step keeps for the tasks of the workers it leaves alone: used
\* rows stay used, and paid sessions stay paid.
LEMMA TaskKept ==
  ASSUME TypeOK, Linked, NEW k \in Workers, NEW t \in Tasks,
         NEW point \in ProgramPoints, Continue(k, point, t),
         \A p \in Rows : due[p] # None => due'[p] # None,
         \A c \in Sessions : session[c] = "PAID" =>
             session'[c] = "PAID" /\ rowOf'[c] = rowOf[c],
         point \in RowPoints => t.row \in Rows,
         t.row \in Rows => due'[t.row] # None,
         point = "initiateCommit" => t.due \in Dues,
         point \in {"store", "completeCommit"} => t.session \in Sessions,
         point = "completeCommit" =>
             /\ session'[t.session] = "PAID"
             /\ rowOf'[t.session] = t.row
  PROVE  TasksLinked' /\ task' \in [Workers -> Tasks] /\ pc' \in [Workers -> ProgramPoints]
  <1>1. task' \in [Workers -> Tasks] /\ pc' \in [Workers -> ProgramPoints]
    BY DEF TypeOK, Continue
  <1>2. ASSUME NEW o \in Workers
        PROVE  TasksLinked!(o)'
    <2>1. CASE o = k
      BY <2>1 DEF TypeOK, Continue
    <2>2. CASE o # k
      BY <2>2 DEF TypeOK, Continue, Linked, TasksLinked, RowPoints
    <2> QED BY <2>1, <2>2
  <1> QED BY <1>1, <1>2 DEF TasksLinked

\* A step that only finishes a task changes nothing that is linked.
LEMMA FinishLinked ==
  ASSUME TypeOK, Linked, NEW k \in Workers, Finish(k), UNCHANGED <<attempts, paidBy, provider>>
  PROVE  /\ Linked'
         /\ task' \in [Workers -> Tasks]
         /\ pc' \in [Workers -> ProgramPoints]
  <1>1. TasksLinked' /\ task' \in [Workers -> Tasks] /\ pc' \in [Workers -> ProgramPoints]
    BY TaskKept, NoTaskType, CheckoutAssumption
    DEF Finish, ProgramPoints, RowPoints, attempts, provider
  <1> QED
    BY <1>1 DEF Linked, RowsLinked, PaymentsLinked, SessionsLinked, attempts, provider

LEMMA ClosedType ==
  ASSUME TypeOK, NEW t \in Tasks
  PROVE  /\ Closed(t) \in [Rows -> Statuses]
         /\ \A p \in Rows : Closed(t)[p] \in {status[p], "EXPIRED", "CANCELLED"}
         /\ \A p \in Rows : p # t.row => Closed(t)[p] = status[p]
  BY DEF TypeOK, Closed, Tasks, Statuses

LEMMA InitiateCommitLinked ==
  ASSUME TypeOK, Linked, NEW k \in Workers, InitiateCommit(k)
  PROVE  TypeOK' /\ Linked'
  <1>1. PICK p \in Unused :
           /\ status' = [Closed(task[k]) EXCEPT ![p] = "PENDING"]
           /\ due' = [due EXCEPT ![p] = task[k].due]
           /\ Continue(k, "open", [NoTask EXCEPT !.row = p])
    BY DEF InitiateCommit
  <1>2. p \in Rows /\ status[p] = "NONE" /\ due[p] = None
    BY DEF Unused, Linked, RowsLinked
  <1>3. task[k] \in Tasks /\ task[k].due \in Dues
    BY DEF InitiateCommit, TypeOK, Linked, TasksLinked
  <1>4. /\ [NoTask EXCEPT !.row = p] \in Tasks
        /\ [NoTask EXCEPT !.row = p].row = p
    BY <1>2, TaskTypes DEF NoTask
  <1>5. /\ status' \in [Rows -> Statuses]
        /\ due' \in [Rows -> Dues \cup {None}]
        /\ \A q \in Rows : due[q] # None => due'[q] = due[q]
        /\ due'[p] # None
    BY <1>1, <1>2, <1>3, ClosedType, CheckoutAssumption DEF TypeOK, Statuses
  <1>6. TasksLinked' /\ task' \in [Workers -> Tasks] /\ pc' \in [Workers -> ProgramPoints]
    <2>1. \A q \in Rows : due[q] # None => due'[q] # None
      BY <1>5
    <2>2. "open" \in ProgramPoints
      BY DEF ProgramPoints
    <2>3. session' = session /\ rowOf' = rowOf
      BY DEF InitiateCommit, provider
    <2> QED BY <1>1, <1>2, <1>4, <1>5, <2>1, <2>2, <2>3, TaskKept
  <1>7. RowsLinked'
    <2> SUFFICES ASSUME NEW q \in Rows PROVE status'[q] # "NONE" <=> due'[q] # None
      BY DEF RowsLinked
    <2>1. CASE q = p
      BY <2>1, <1>1, <1>2, <1>5, <1>3, ClosedType DEF TypeOK
    <2>2. CASE q # p /\ q = task[k].row
      <3>1. due[q] # None
        BY <2>2, <1>3, CheckoutAssumption DEF Linked, TasksLinked
      <3>2. status'[q] # "NONE"
        BY <3>1, <2>2, <1>1, <1>2, <1>3, ClosedType DEF Linked, RowsLinked, TypeOK
      <3> QED BY <3>1, <3>2, <1>5
    <2>3. CASE q # p /\ q # task[k].row
      BY <2>3, <1>1, <1>2, <1>3, ClosedType DEF Linked, RowsLinked, TypeOK
    <2> QED BY <2>1, <2>2, <2>3
  <1>8. SessionsLinked'
    BY <1>5 DEF InitiateCommit, Linked, SessionsLinked, provider
  <1>9. PaymentsLinked'
    BY <1>5 DEF InitiateCommit, Linked, PaymentsLinked, books
  <1>10. TypeOK'
    BY <1>5, <1>6 DEF InitiateCommit, TypeOK, books, provider
  <1> QED BY <1>6, <1>7, <1>8, <1>9, <1>10 DEF Linked

LEMMA OpenSessionLinked ==
  ASSUME TypeOK, Linked, NEW k \in Workers, OpenSession(k)
  PROVE  TypeOK' /\ Linked'
  <1>1. task[k] \in Tasks /\ task[k].row \in Rows /\ due[task[k].row] # None
    BY DEF OpenSession, TypeOK, Linked, TasksLinked, RowPoints
  <1>2. CASE Finish(k) /\ UNCHANGED provider
    BY <1>2, FinishLinked DEF OpenSession, TypeOK, attempts, books, provider
  <1>3. ASSUME NEW c \in Sessions,
               session[c] = "NONE",
               session' = [session EXCEPT ![c] = "OPEN"],
               rowOf' = [rowOf EXCEPT ![c] = task[k].row],
               Continue(k, "store", [task[k] EXCEPT !.session = c]) \/ Finish(k),
               UNCHANGED <<offered, failedAttempts>>
        PROVE  TypeOK' /\ Linked'
    <2>1. /\ session' \in [Sessions -> SessionStates]
          /\ rowOf' \in [Sessions -> Rows \cup {None}]
          /\ UNCHANGED <<attempts, books, offered, failedAttempts, crashes>>
      BY <1>1, <1>3 DEF OpenSession, TypeOK, SessionStates
    <2>2. \A b \in Sessions : session[b] = "PAID" =>
              session'[b] = "PAID" /\ rowOf'[b] = rowOf[b]
      BY <1>3 DEF TypeOK
    <2> DEFINE stored == [task[k] EXCEPT !.session = c]
    <2>3. /\ stored \in Tasks
          /\ stored.row = task[k].row
          /\ stored.session = c
      BY <1>1, TaskTypes DEF Tasks
    <2> HIDE DEF stored
    <2>4. TasksLinked' /\ task' \in [Workers -> Tasks] /\ pc' \in [Workers -> ProgramPoints]
      <3>1. due' = due
        BY <2>1 DEF attempts
      <3>2. CASE Continue(k, "store", stored)
        <4>1. "store" \in ProgramPoints
          BY DEF ProgramPoints
        <4> QED BY <1>1, <2>2, <2>3, <3>1, <3>2, <4>1, TaskKept
      <3>3. CASE Finish(k)
        <4>1. "idle" \in ProgramPoints /\ "idle" \notin RowPoints
          BY DEF ProgramPoints, RowPoints
        <4> QED
          BY <2>2, <3>1, <3>3, <4>1, TaskKept, NoTaskType, CheckoutAssumption DEF Finish
      <3> QED BY <1>3, <3>2, <3>3 DEF stored
    <2>5. SessionsLinked'
      BY <1>1, <1>3, <2>1 DEF TypeOK, Linked, SessionsLinked, attempts
    <2>6. RowsLinked' /\ PaymentsLinked'
      BY <2>1 DEF Linked, RowsLinked, PaymentsLinked, attempts, books
    <2> QED BY <2>1, <2>4, <2>5, <2>6 DEF TypeOK, Linked, attempts, books
  <1> QED BY <1>2, <1>3 DEF OpenSession

LEMMA StoreCheckoutLinked ==
  ASSUME TypeOK, Linked, NEW k \in Workers, StoreCheckout(k)
  PROVE  TypeOK' /\ Linked'
  <1>1. task[k] \in Tasks /\ task[k].row \in Rows /\ task[k].session \in Sessions
    BY DEF StoreCheckout, TypeOK, Linked, TasksLinked, RowPoints
  <1>2. TasksLinked' /\ task' \in [Workers -> Tasks] /\ pc' \in [Workers -> ProgramPoints]
    BY TaskKept, NoTaskType, CheckoutAssumption
    DEF StoreCheckout, Finish, ProgramPoints, RowPoints
  <1> QED
    BY <1>1, <1>2
    DEF StoreCheckout, TypeOK, Tasks, Linked, RowsLinked, PaymentsLinked,
        SessionsLinked, books

\* A step that only gives a worker a task on a used row.
LEMMA ReadLinked ==
  ASSUME TypeOK, Linked, NEW k \in Workers, NEW t \in Tasks,
         NEW point \in {"completeCommit", "receipt", "pollCommit", "cancelCommit"},
         Continue(k, point, t), t.row \in Rows, due[t.row] # None,
         point = "completeCommit" =>
             /\ t.session \in Sessions
             /\ session[t.session] = "PAID"
             /\ rowOf[t.session] = t.row,
         UNCHANGED <<attempts, books, provider, crashes>>
  PROVE  TypeOK' /\ Linked'
  <1>1. due' = due /\ session' = session /\ rowOf' = rowOf
    BY DEF attempts, provider
  <1>2. point \in ProgramPoints
    BY DEF ProgramPoints, CommitPoints
  <1>3. TasksLinked' /\ task' \in [Workers -> Tasks] /\ pc' \in [Workers -> ProgramPoints]
    BY <1>1, <1>2, TaskKept
  <1> QED
    BY <1>3
    DEF TypeOK, Linked, RowsLinked, PaymentsLinked, SessionsLinked, attempts, books,
        provider

\* A status is overwritten on a used row, which stays used.
LEMMA StatusLinked ==
  ASSUME TypeOK, Linked, NEW p \in Rows, due[p] # None, NEW v \in Statuses \ {"NONE"},
         status' = [status EXCEPT ![p] = v], UNCHANGED <<due, provider>>
  PROVE  status' \in [Rows -> Statuses] /\ RowsLinked' /\ SessionsLinked'
  BY DEF TypeOK, Linked, RowsLinked, SessionsLinked, provider

LEMMA CompleteReadLinked ==
  ASSUME TypeOK, Linked, NEW k \in Workers, NEW c \in Sessions, CompleteRead(k, c)
  PROVE  TypeOK' /\ Linked'
  <1>1. session[c] = "PAID" /\ rowOf[c] \in Rows /\ due[rowOf[c]] # None
    BY DEF CompleteRead, Linked, SessionsLinked
  <1>2. CASE Continue(k, "receipt", [NoTask EXCEPT !.row = rowOf[c]])
    <2>1. /\ [NoTask EXCEPT !.row = rowOf[c]] \in Tasks
          /\ [NoTask EXCEPT !.row = rowOf[c]].row = rowOf[c]
      BY <1>1, TaskTypes DEF NoTask
    <2> QED BY <1>1, <1>2, <2>1, ReadLinked DEF CompleteRead
  <1>3. CASE Continue(k, "completeCommit",
               [NoTask EXCEPT !.row = rowOf[c], !.session = c, !.seen = balance])
    <2> DEFINE t == [NoTask EXCEPT !.row = rowOf[c], !.session = c, !.seen = balance]
    <2>1. t \in Tasks /\ t.row = rowOf[c] /\ t.session = c
      BY <1>1, TaskTypes DEF NoTask, TypeOK
    <2>2. Continue(k, "completeCommit", t)
      BY <1>3
    <2> HIDE DEF t
    <2> QED BY <1>1, <2>1, <2>2, ReadLinked DEF CompleteRead
  <1> QED BY <1>2, <1>3 DEF CompleteRead

LEMMA CompleteCommitLinked ==
  ASSUME TypeOK, Linked, NEW k \in Workers, CompleteCommit(k)
  PROVE  TypeOK' /\ Linked'
  <1> DEFINE p == task[k].row
             t == [NoTask EXCEPT !.row = p]
  <1>1. /\ task[k] \in Tasks /\ p \in Rows /\ due[p] \in Dues
        /\ task[k].session \in Sessions
    BY DEF CompleteCommit, TypeOK, Linked, TasksLinked, RowPoints
  <1>2. t \in Tasks /\ t.row = p
    BY <1>1, TaskTypes DEF NoTask
  <1>3. status' \in [Rows -> Statuses] /\ RowsLinked' /\ SessionsLinked'
    BY <1>1, StatusLinked, CheckoutAssumption DEF CompleteCommit, Statuses
  <1>4. balance' \in [Accounts -> Nat]
    BY <1>1, ShareType DEF CompleteCommit, Credited, Tasks
  <1>5. TasksLinked' /\ task' \in [Workers -> Tasks] /\ pc' \in [Workers -> ProgramPoints]
    <2>1. "receipt" \in ProgramPoints
      BY DEF ProgramPoints
    <2>2. /\ due' = due /\ session' = session /\ rowOf' = rowOf
          /\ Continue(k, "receipt", t)
      BY DEF CompleteCommit, provider
    <2>3. due[p] # None
      BY <1>1, CheckoutAssumption
    <2> HIDE DEF t
    <2> QED BY <1>1, <1>2, <2>1, <2>2, <2>3, TaskKept
  <1>6. paidBy' \in [Rows -> Sessions \cup {None}] /\ duePayment' \in [Dues -> Rows \cup {None}]
    BY <1>1 DEF CompleteCommit, SettleDue, TypeOK
  <1>7. PaymentsLinked'
    BY <1>1, CheckoutAssumption DEF CompleteCommit, TypeOK, Linked, PaymentsLinked
  <1> QED BY <1>3, <1>4, <1>5, <1>6, <1>7 DEF CompleteCommit, TypeOK, Linked, provider

LEMMA CompleteConflictLinked ==
  ASSUME TypeOK, Linked, NEW k \in Workers, CompleteConflict(k)
  PROVE  TypeOK' /\ Linked'
  <1> DEFINE p == task[k].row
             t == [NoTask EXCEPT !.row = p]
  <1>1. p \in Rows /\ due[p] # None
    BY DEF CompleteConflict, Linked, TasksLinked, RowPoints
  <1>2. CASE Finish(k)
    BY <1>2, FinishLinked DEF CompleteConflict, TypeOK, attempts, books, provider
  <1>3. CASE Continue(k, "receipt", t)
    <2>1. t \in Tasks /\ t.row = p
      BY <1>1, TaskTypes DEF NoTask
    <2> HIDE DEF t
    <2> QED BY <1>1, <1>3, <2>1, ReadLinked DEF CompleteConflict
  <1> QED BY <1>2, <1>3 DEF CompleteConflict

LEMMA IssueReceiptLinked ==
  ASSUME TypeOK, Linked, NEW k \in Workers, IssueReceipt(k)
  PROVE  TypeOK' /\ Linked'
  <1>1. task[k].row \in Rows
    BY DEF IssueReceipt, Linked, TasksLinked, RowPoints
  <1>2. receipts' \subseteq Rows
    BY <1>1 DEF IssueReceipt, TypeOK
  <1> QED
    BY <1>2, FinishLinked DEF IssueReceipt, TypeOK, attempts, provider

LEMMA PollLinked ==
  ASSUME TypeOK, Linked, NEW k \in Workers, NEW p \in Rows, Poll(k, p)
  PROVE  TypeOK' /\ Linked'
  <1>1. ASSUME status[p] = "PENDING", checkout[p] # None, CompleteRead(k, checkout[p])
        PROVE  TypeOK' /\ Linked'
    BY <1>1, CompleteReadLinked DEF TypeOK
  <1>2. ASSUME status[p] = "PENDING", checkout[p] # None,
               session[checkout[p]] \in {"EXPIRED", "CANCELLED"},
               Continue(k, "pollCommit",
                        [NoTask EXCEPT !.row = p, !.verdict = session[checkout[p]]]),
               UNCHANGED <<attempts, books, provider, crashes>>
        PROVE  TypeOK' /\ Linked'
    <2> DEFINE t == [NoTask EXCEPT !.row = p, !.verdict = session[checkout[p]]]
    <2>1. t \in Tasks /\ t.row = p
      BY <1>2, TaskTypes DEF NoTask
    <2>2. due[p] # None
      BY <1>2 DEF Linked, RowsLinked
    <2>3. Continue(k, "pollCommit", t)
      BY <1>2
    <2> HIDE DEF t
    <2> QED BY <1>2, <2>1, <2>2, <2>3, ReadLinked
  <1>3. ASSUME status[p] # "PENDING", paidBy[p] # None,
               Continue(k, "receipt", [NoTask EXCEPT !.row = p]),
               UNCHANGED <<attempts, books, provider, crashes>>
        PROVE  TypeOK' /\ Linked'
    <2>1. [NoTask EXCEPT !.row = p] \in Tasks /\ [NoTask EXCEPT !.row = p].row = p
      BY TaskTypes DEF NoTask
    <2>2. due[p] # None
      BY <1>3 DEF Linked, PaymentsLinked
    <2> QED BY <1>3, <2>1, <2>2, ReadLinked
  <1> QED BY <1>1, <1>2, <1>3 DEF Poll

LEMMA PollCommitLinked ==
  ASSUME TypeOK, Linked, NEW k \in Workers, PollCommit(k)
  PROVE  TypeOK' /\ Linked'
  <1> DEFINE p == task[k].row
             t == [NoTask EXCEPT !.row = p]
  <1>1. p \in Rows /\ due[p] # None /\ task[k].verdict \in Statuses \ {"NONE"}
    BY DEF PollCommit, TypeOK, Linked, TasksLinked, RowPoints, Tasks, Statuses
  <1>2. status' \in [Rows -> Statuses] /\ RowsLinked' /\ SessionsLinked'
    BY <1>1, StatusLinked DEF PollCommit
  <1>3. TasksLinked' /\ task' \in [Workers -> Tasks] /\ pc' \in [Workers -> ProgramPoints]
    <2>1. due' = due /\ session' = session /\ rowOf' = rowOf
      BY DEF PollCommit, provider
    <2>2. CASE Continue(k, "receipt", t)
      <3>1. t \in Tasks /\ t.row = p
        BY <1>1, TaskTypes DEF NoTask
      <3>2. "receipt" \in ProgramPoints
        BY DEF ProgramPoints
      <3> HIDE DEF t
      <3> QED BY <1>1, <2>1, <2>2, <3>1, <3>2, TaskKept
    <2>3. CASE Finish(k)
      BY <2>1, <2>3, TaskKept, NoTaskType, CheckoutAssumption
      DEF Finish, ProgramPoints, RowPoints
    <2> QED BY <2>2, <2>3 DEF PollCommit
  <1> QED
    BY <1>2, <1>3 DEF PollCommit, TypeOK, Linked, PaymentsLinked, books, provider

LEMMA CancelReadLinked ==
  ASSUME TypeOK, Linked, NEW k \in Workers, NEW p \in Rows, CancelRead(k, p)
  PROVE  TypeOK' /\ Linked'
  <1>1. [NoTask EXCEPT !.row = p] \in Tasks /\ [NoTask EXCEPT !.row = p].row = p
    BY TaskTypes DEF NoTask
  <1>2. due[p] # None
    BY DEF CancelRead, Linked, RowsLinked
  <1> QED BY <1>1, <1>2, ReadLinked DEF CancelRead

LEMMA CancelCommitLinked ==
  ASSUME TypeOK, Linked, NEW k \in Workers, CancelCommit(k)
  PROVE  TypeOK' /\ Linked'
  <1>1. task[k].row \in Rows /\ due[task[k].row] # None
    BY DEF CancelCommit, Linked, TasksLinked, RowPoints
  <1>2. status' \in [Rows -> Statuses] /\ RowsLinked' /\ SessionsLinked'
    BY <1>1, StatusLinked DEF CancelCommit, Statuses
  <1>3. TasksLinked' /\ task' \in [Workers -> Tasks] /\ pc' \in [Workers -> ProgramPoints]
    BY TaskKept, NoTaskType, CheckoutAssumption
    DEF CancelCommit, Finish, ProgramPoints, RowPoints, provider
  <1> QED
    BY <1>2, <1>3 DEF CancelCommit, TypeOK, Linked, PaymentsLinked, books, provider

LEMMA EventLinked ==
  ASSUME TypeOK, Linked, NEW c \in Sessions, FailedWebhook(c) \/ ExpiredWebhook(c)
  PROVE  TypeOK' /\ Linked'
  <1>1. rowOf[c] \in Rows /\ due[rowOf[c]] # None
    BY DEF FailedWebhook, ExpiredWebhook, Linked, SessionsLinked
  <1>2. status' \in [Rows -> Statuses] /\ RowsLinked' /\ SessionsLinked'
    BY <1>1, StatusLinked DEF FailedWebhook, ExpiredWebhook, Statuses
  <1> QED
    BY <1>2
    DEF FailedWebhook, ExpiredWebhook, TypeOK, Linked, PaymentsLinked, TasksLinked,
        books, provider, handlers

LEMMA StudentLinked ==
  ASSUME TypeOK, Linked, NEW c \in Sessions, Pay(c) \/ AttemptFails(c) \/ Lapse(c)
  PROVE  TypeOK' /\ Linked'
  BY DEF Pay, AttemptFails, Lapse, TypeOK, Linked, RowsLinked, PaymentsLinked,
         SessionsLinked, TasksLinked, SessionStates, attempts, books, handlers

LEMMA LinkedStep == TypeOK /\ Linked /\ [Next]_vars => TypeOK' /\ Linked'
  <1> SUFFICES ASSUME TypeOK, Linked, [Next]_vars PROVE TypeOK' /\ Linked'
    OBVIOUS
  <1>1. ASSUME NEW k \in Workers, Proceed(k) PROVE TypeOK' /\ Linked'
    BY <1>1, InitiateCommitLinked, OpenSessionLinked, StoreCheckoutLinked,
       CompleteCommitLinked, CompleteConflictLinked, IssueReceiptLinked,
       PollCommitLinked, CancelCommitLinked, FinishLinked
    DEF Proceed, InitiateConflict, TypeOK, attempts, books, provider
  <1>2. ASSUME NEW k \in Workers, Start(k) PROVE TypeOK' /\ Linked'
    BY <1>2, InitiateLinked, CompleteReadLinked, PollLinked, CancelReadLinked
    DEF Start, SucceededWebhook
  <1>3. ASSUME NEW k \in Workers, Crash(k) PROVE TypeOK' /\ Linked'
    BY <1>3, FinishLinked DEF Crash, TypeOK, attempts, books, provider
  <1>4. ASSUME NEW p \in Rows, Age(p) PROVE TypeOK' /\ Linked'
    BY <1>4
    DEF Age, TypeOK, Linked, RowsLinked, PaymentsLinked, SessionsLinked, TasksLinked,
        books, provider, handlers
  <1>5. CASE UNCHANGED vars
    BY <1>5
    DEF vars, TypeOK, Linked, RowsLinked, PaymentsLinked, SessionsLinked, TasksLinked,
        attempts, books, provider, handlers
  <1> QED
    BY <1>1, <1>2, <1>3, <1>4, <1>5, EventLinked, StudentLinked DEF Next, Environment

\* The types of all variables: a balance is never lowered, a handler only works
\* on attempts that exist.
THEOREM TypeCorrect == Spec => []TypeOK
  BY InitLinked, LinkedStep, PTL DEF Spec

LEMMA LinkedAlways == Spec => [](TypeOK /\ Linked)
  BY InitLinked, LinkedStep, PTL DEF Spec

----------------------------------------------------------------------------
(* What holds however handlers overlap *)

\* Which steps may change what: a payment is only recorded by a completion, a
\* session only opened once, and a row only used once.
LEMMA PaidByFrame ==
  ASSUME [Next]_vars
  PROVE  \/ UNCHANGED <<paidBy, duePayment, balance>>
         \/ \E k \in Workers : MayRun(k) /\ CompleteCommit(k)
  BY ZenonT(40) DEF Next, Environment, Proceed, Start, Crash, Initiate, InitiateCommit,
         InitiateConflict, OpenSession, StoreCheckout, CompleteRead, CompleteConflict,
         IssueReceipt, SucceededWebhook, FailedWebhook, ExpiredWebhook, Poll,
         PollCommit, CancelRead, CancelCommit, Pay, AttemptFails, Lapse, Age, vars,
         books

LEMMA DueFrame ==
  ASSUME [Next]_vars
  PROVE  UNCHANGED due \/ \E k \in Workers : MayRun(k) /\ InitiateCommit(k)
  BY DEF Next, Environment, Proceed, Start, Crash, Initiate,
         InitiateConflict, OpenSession, StoreCheckout, CompleteRead, CompleteCommit,
         CompleteConflict, IssueReceipt, SucceededWebhook, FailedWebhook,
         ExpiredWebhook, Poll, PollCommit, CancelRead, CancelCommit, Pay,
         AttemptFails, Lapse, Age, vars, attempts

LEMMA PaidSessionKept ==
  ASSUME TypeOK, [Next]_vars, NEW c \in Sessions, session[c] = "PAID"
  PROVE  session'[c] = "PAID" /\ rowOf'[c] = rowOf[c]
  BY ZenonT(40) DEF TypeOK, Next, Environment, Proceed, Start, Crash, Initiate, InitiateCommit,
         InitiateConflict, OpenSession, StoreCheckout, CompleteRead, CompleteCommit,
         CompleteConflict, IssueReceipt, SucceededWebhook, FailedWebhook,
         ExpiredWebhook, Poll, PollCommit, CancelRead, CancelCommit, Pay,
         AttemptFails, Lapse, Age, vars, provider

\* The due of a used row stays, and a row becomes pending only as a new one.
LEMMA UsedRowKept ==
  ASSUME TypeOK, Linked, [Next]_vars, NEW p \in Rows, due[p] # None
  PROVE  due'[p] = due[p]
  <1>1. CASE UNCHANGED due
    BY <1>1
  <1>2. ASSUME NEW k \in Workers, InitiateCommit(k) PROVE due'[p] = due[p]
    BY <1>2 DEF InitiateCommit, Unused, Linked, RowsLinked, TypeOK
  <1> QED BY <1>1, <1>2, DueFrame

LEMMA PendingFrame ==
  ASSUME TypeOK, Linked, [Next]_vars
  PROVE  \/ \A p \in Rows : status'[p] = "PENDING" => status[p] = "PENDING"
         \/ \E k \in Workers : MayRun(k) /\ InitiateCommit(k)
  <1>1. ASSUME NEW k \in Workers, PollCommit(k)
        PROVE  \A p \in Rows : status'[p] = "PENDING" => status[p] = "PENDING"
    BY <1>1 DEF PollCommit, TypeOK, Tasks
  <1> QED
    BY ZenonT(40), <1>1
    DEF Next, Environment, Proceed, Start, Crash, Initiate, InitiateConflict,
        OpenSession, StoreCheckout, CompleteRead, CompleteCommit, CompleteConflict,
        IssueReceipt, SucceededWebhook, FailedWebhook, ExpiredWebhook, Poll,
        CancelRead, CancelCommit, Pay, AttemptFails, Lapse, Age, vars, attempts,
        TypeOK

\* No organisation is credited without money (completePayment's look at the
\* session, taken before the transaction): every recorded payment was charged
\* on a paid session of its own row.
THEOREM PaymentsFunded == Spec => []PaymentIsFunded
  <1>1. Init => PaymentIsFunded
    BY DEF Init, PaymentIsFunded
  <1>2. TypeOK /\ Linked /\ PaymentIsFunded /\ [Next]_vars => PaymentIsFunded'
    <2> SUFFICES ASSUME TypeOK, Linked, PaymentIsFunded, [Next]_vars,
                        NEW p \in Rows, paidBy'[p] # None
                 PROVE  session'[paidBy'[p]] = "PAID" /\ rowOf'[paidBy'[p]] = p
      BY DEF PaymentIsFunded
    <2>1. CASE paidBy'[p] = paidBy[p]
      BY <2>1, PaidSessionKept DEF TypeOK, PaymentIsFunded
    <2>2. ASSUME NEW k \in Workers, CompleteCommit(k), paidBy'[p] # paidBy[p]
          PROVE  session'[paidBy'[p]] = "PAID" /\ rowOf'[paidBy'[p]] = p
      BY <2>2, PaidSessionKept
      DEF CompleteCommit, TypeOK, Linked, TasksLinked, RowPoints, provider
    <2> QED BY <2>1, <2>2, PaidByFrame
  <1> QED BY <1>1, <1>2, LinkedAlways, PTL DEF Spec

\* However initiations overlap each other, the partial unique index leaves a due
\* one pending attempt (initiatePayment's closing of an earlier attempt and its
\* insert are one transaction).
THEOREM SingleAttempt == Spec => []OneActiveAttempt
  <1>1. Init => OneActiveAttempt
    BY DEF Init, OneActiveAttempt, Active
  <1>2. TypeOK /\ Linked /\ OneActiveAttempt /\ [Next]_vars => OneActiveAttempt'
    <2> SUFFICES ASSUME TypeOK, Linked, OneActiveAttempt, [Next]_vars,
                        NEW d \in Dues, NEW p \in Rows, NEW q \in Rows,
                        due'[p] = d, status'[p] = "PENDING",
                        due'[q] = d, status'[q] = "PENDING"
                 PROVE  p = q
      BY DEF OneActiveAttempt, Active
    <2>1. CASE \A r \in Rows : status'[r] = "PENDING" => status[r] = "PENDING"
      <3>1. due[p] # None /\ due[q] # None
        BY <2>1 DEF Linked, RowsLinked
      <3> QED
        BY <2>1, <3>1, UsedRowKept DEF OneActiveAttempt, Active
    <2>2. ASSUME NEW k \in Workers, InitiateCommit(k) PROVE p = q
      <3>1. PICK r \in Unused :
               /\ status' = [Closed(task[k]) EXCEPT ![r] = "PENDING"]
               /\ due' = [due EXCEPT ![r] = task[k].due]
        BY <2>2 DEF InitiateCommit
      <3>2. task[k] \in Tasks /\ r \in Rows /\ due[r] = None
        BY DEF TypeOK, Unused, Linked, RowsLinked
      <3>3. \A s \in Rows : due[s] = task[k].due => Closed(task[k])[s] # "PENDING"
        BY <2>2 DEF InitiateCommit, IndexAllows
      <3>4. \A s \in Rows \ {r} : status'[s] = "PENDING" =>
                /\ status[s] = "PENDING"
                /\ due'[s] = due[s]
                /\ due[s] # task[k].due
        BY <3>1, <3>2, <3>3, ClosedType DEF TypeOK
      <3>5. due'[r] = task[k].due
        BY <3>1, <3>2 DEF TypeOK
      <3> QED BY <3>4, <3>5 DEF OneActiveAttempt, Active
    <2> QED BY <2>1, <2>2, PendingFrame
  <1> QED BY <1>1, <1>2, LinkedAlways, PTL DEF Spec

\* A due shows as paid exactly when a payment for it is recorded, whatever
\* failures, expiries and cancellations did to the attempt in between
\* (completePayment's due_payments row and isPaid).
THEOREM DueFollows == Spec => []DueFollowsPayments
  <1>1. Init => DueFollowsPayments
    BY DEF Init, DueFollowsPayments
  <1>2. TypeOK /\ Linked /\ DueFollowsPayments /\ [Next]_vars => DueFollowsPayments'
    <2> SUFFICES ASSUME TypeOK, Linked, DueFollowsPayments, [Next]_vars
                 PROVE  DueFollowsPayments'
      OBVIOUS
    <2>1. CASE UNCHANGED <<paidBy, duePayment>>
      <3>1. \A p \in Rows : paidBy[p] # None => due'[p] = due[p]
        BY UsedRowKept DEF Linked, PaymentsLinked
      <3> QED BY <2>1, <3>1 DEF DueFollowsPayments, TypeOK
    <2>2. ASSUME NEW k \in Workers, CompleteCommit(k) PROVE DueFollowsPayments'
      <3>1. /\ task[k].row \in Rows /\ due[task[k].row] \in Dues
            /\ task[k].session # None
        BY <2>2, CheckoutAssumption
        DEF CompleteCommit, Linked, TasksLinked, RowPoints, TypeOK
      <3>2. due' = due
        BY <2>2 DEF CompleteCommit
      <3> QED
        BY <2>2, <3>1, <3>2, CheckoutAssumption
        DEF CompleteCommit, SettleDue, DueFollowsPayments, TypeOK
    <2> QED BY <2>1, <2>2, PaidByFrame
  <1> QED BY <1>1, <1>2, LinkedAlways, PTL DEF Spec

----------------------------------------------------------------------------
(* Handlers that are not interleaved between a read and its commit *)

\* One handler at a time is about to commit what it has worked out.
Exclusive ==
    \A k, o \in Workers :
        pc[k] \in CommitPoints /\ pc[o] \in CommitPoints => k = o

\* What it has read is still so.
Fresh(k) ==
    /\ pc[k] = "initiateCommit" => duePayment[task[k].due] = None
    /\ pc[k] = "completeCommit" =>
          /\ status[task[k].row] = "PENDING"
          /\ paidBy[task[k].row] = None
          /\ task[k].seen = balance

IsolatedInv == NoAttemptForPaidDue /\ Exclusive /\ \A k \in Workers : Fresh(k)

LEMMA InitIsolated == Init => IsolatedInv
  BY DEF Init, IsolatedInv, NoAttemptForPaidDue, Exclusive, Fresh, CommitPoints

\* A step of a worker leaves every other one where it is, away from a commit.
LEMMA OthersAway ==
  ASSUME Isolated, TypeOK, NEW k \in Workers, MayRun(k),
         \E point \in ProgramPoints, t \in Tasks : Continue(k, point, t)
  PROVE  \A o \in Workers \ {k} : pc'[o] \notin CommitPoints
  BY DEF TypeOK, MayRun, Continue

LEMMA WorkerMoves ==
  ASSUME TypeOK, Linked, NEW k \in Workers, Proceed(k) \/ Start(k) \/ Crash(k)
  PROVE  \E point \in ProgramPoints, t \in Tasks : Continue(k, point, t)
  <1>1. TypeOK'
    BY InitiateCommitLinked, OpenSessionLinked, StoreCheckoutLinked,
       CompleteCommitLinked, CompleteConflictLinked, IssueReceiptLinked,
       PollCommitLinked, CancelCommitLinked, FinishLinked, InitiateLinked,
       CompleteReadLinked, PollLinked, CancelReadLinked
    DEF Proceed, Start, Crash, SucceededWebhook, InitiateConflict, TypeOK, attempts,
        books, provider
  <1>2. PICK point, t : Continue(k, point, t)
    BY DEF Proceed, Start, Crash, Initiate, InitiateCommit, InitiateConflict,
           OpenSession, StoreCheckout, CompleteRead, CompleteCommit,
           CompleteConflict, IssueReceipt, SucceededWebhook, Poll, PollCommit,
           CancelRead, CancelCommit, Finish
  <1>3. pc'[k] = point /\ task'[k] = t
    BY <1>2 DEF Continue, TypeOK
  <1> QED BY <1>1, <1>2, <1>3 DEF TypeOK

LEMMA ExclusiveStep ==
  ASSUME Isolated, TypeOK, Linked, Exclusive, [Next]_vars
  PROVE  Exclusive'
  <1>1. ASSUME NEW k \in Workers, MayRun(k), Proceed(k) \/ Start(k) \/ Crash(k)
        PROVE  Exclusive'
    BY <1>1, WorkerMoves, OthersAway DEF Exclusive
  <1>2. CASE UNCHANGED pc
    BY <1>2 DEF Exclusive
  <1>3. Environment => UNCHANGED pc
    BY DEF Environment, FailedWebhook, ExpiredWebhook, Pay, AttemptFails, Lapse, Age,
           handlers
  <1> QED BY <1>1, <1>2, <1>3 DEF Next, vars, handlers

\* The worker that acts works from what it has just read.
LEMMA OwnFresh ==
  ASSUME Isolated, TypeOK, Linked, IsolatedInv, NEW k \in Workers, MayRun(k),
         Proceed(k) \/ Start(k) \/ Crash(k)
  PROVE  Fresh(k)'
  <1>1. CASE Proceed(k) \/ Crash(k)
    <2>1. pc'[k] \in {"open", "store", "receipt", "idle"}
      BY <1>1
      DEF Proceed, Crash, InitiateCommit, InitiateConflict, OpenSession,
          StoreCheckout, CompleteCommit, CompleteConflict, IssueReceipt, PollCommit,
          CancelCommit, Continue, Finish, TypeOK
    <2> QED BY <2>1 DEF Fresh
  <1>2. ASSUME NEW c \in Sessions, CompleteRead(k, c) PROVE Fresh(k)'
    <2>1. CASE pc'[k] # "completeCommit"
      BY <1>2, <2>1 DEF CompleteRead, Continue, TypeOK, Fresh
    <2>2. CASE pc'[k] = "completeCommit"
      <3> DEFINE t == [NoTask EXCEPT !.row = rowOf[c], !.session = c, !.seen = balance]
      <3>1. task'[k] = t /\ status[rowOf[c]] = "PENDING" /\ paidBy[rowOf[c]] = None
        BY <1>2, <2>2 DEF CompleteRead, Continue, TypeOK
      <3>2. t.row = rowOf[c] /\ t.seen = balance
        BY DEF NoTask
      <3>3. status' = status /\ paidBy' = paidBy /\ balance' = balance
        BY <1>2 DEF CompleteRead, attempts, books
      <3> HIDE DEF t
      <3> QED BY <2>2, <3>1, <3>2, <3>3 DEF Fresh
    <2> QED BY <2>1, <2>2
  <1>3. ASSUME NEW d \in Dues, Initiate(k, d) PROVE Fresh(k)'
    <2>1. pc'[k] # "completeCommit" /\ duePayment' = duePayment /\ duePayment[d] = None
      BY <1>3 DEF Initiate, Continue, TypeOK, books
    <2>2. ASSUME NEW t, t.due = d, Continue(k, "initiateCommit", t) PROVE Fresh(k)'
      BY <2>1, <2>2 DEF Continue, TypeOK, Fresh
    <2>3. CASE Continue(k, "initiateCommit", [NoTask EXCEPT !.due = d])
      <3>1. [NoTask EXCEPT !.due = d].due = d
        BY DEF NoTask
      <3> QED BY <2>2, <2>3, <3>1
    <2>4. ASSUME NEW e, Continue(k, "initiateCommit", [NoTask EXCEPT !.due = d, !.row = e])
          PROVE  Fresh(k)'
      <3>1. [NoTask EXCEPT !.due = d, !.row = e].due = d
        BY DEF NoTask
      <3> QED BY <2>2, <2>4, <3>1
    <2>5. ASSUME NEW e, NEW v,
                 Continue(k, "initiateCommit",
                          [NoTask EXCEPT !.due = d, !.row = e, !.verdict = v])
          PROVE  Fresh(k)'
      <3>1. [NoTask EXCEPT !.due = d, !.row = e, !.verdict = v].due = d
        BY DEF NoTask
      <3> QED BY <2>2, <2>5, <3>1
    <2>6. CASE pc'[k] = "open"
      BY <2>6 DEF Fresh
    <2>7. (\E t : Continue(k, "open", t)) => pc'[k] = "open"
      BY DEF Continue, TypeOK
    <2> QED BY <1>3, <2>3, <2>4, <2>5, <2>6, <2>7, Zenon DEF Initiate
  <1>4. ASSUME NEW p \in Rows, Poll(k, p) PROVE Fresh(k)'
    <2>1. CASE checkout[p] # None /\ CompleteRead(k, checkout[p])
      BY <2>1, <1>2 DEF TypeOK
    <2>2. CASE pc'[k] \in {"pollCommit", "receipt"}
      BY <2>2 DEF Fresh
    <2> QED BY <1>4, <2>1, <2>2 DEF Poll, Continue, TypeOK
  <1>5. ASSUME NEW p \in Rows, CancelRead(k, p) PROVE Fresh(k)'
    BY <1>5 DEF CancelRead, Continue, TypeOK, Fresh
  <1> QED BY <1>1, <1>2, <1>3, <1>4, <1>5 DEF Start, SucceededWebhook

LEMMA FreshStep ==
  ASSUME Isolated, TypeOK, Linked, IsolatedInv, [Next]_vars
  PROVE  \A k \in Workers : Fresh(k)'
  <1>1. ASSUME NEW k \in Workers, MayRun(k), Proceed(k) \/ Start(k) \/ Crash(k)
        PROVE  \A o \in Workers : Fresh(o)'
    <2>1. \A o \in Workers \ {k} : pc'[o] \notin CommitPoints
      BY <1>1, WorkerMoves, OthersAway
    <2> QED BY <1>1, <2>1, OwnFresh DEF Fresh, CommitPoints
  <1>2. CASE Environment
    <2>1. UNCHANGED <<books, handlers>>
      BY <1>2
      DEF Environment, FailedWebhook, ExpiredWebhook, Pay, AttemptFails, Lapse, Age
    <2>2. UNCHANGED status \/ Calm
      BY <1>2
      DEF Environment, FailedWebhook, ExpiredWebhook, Pay, AttemptFails, Lapse, Age,
          attempts
    <2> QED
      BY <2>1, <2>2 DEF IsolatedInv, Fresh, Calm, CommitPoints, books, handlers
  <1>3. CASE UNCHANGED vars
    BY <1>3 DEF IsolatedInv, Fresh, vars, attempts, books, handlers
  <1> QED BY <1>1, <1>2, <1>3 DEF Next

\* A completion takes the due's only pending attempt and finds it unpaid.
LEMMA CompletionCollects ==
  ASSUME TypeOK, Linked, OneActiveAttempt, IsolatedInv, NEW k \in Workers,
         CompleteCommit(k), NEW d, d = due[task[k].row]
  PROVE  /\ d \in Dues
         /\ duePayment[d] = None
         /\ duePayment' = [duePayment EXCEPT ![d] = task[k].row]
         /\ task[k].row \in Rows
         /\ \A p \in Rows : status'[p] = "PENDING" => status[p] = "PENDING" /\ due[p] # d
         /\ balance' = [a \in Accounts |-> balance[a] + Share(d)[a]]
  <1>1. /\ task[k].row \in Rows /\ d \in Dues
        /\ status[task[k].row] = "PENDING" /\ task[k].seen = balance
    BY CheckoutAssumption
    DEF CompleteCommit, Linked, TasksLinked, RowPoints, IsolatedInv, Fresh, TypeOK
  <1>2. duePayment[d] = None
    BY <1>1 DEF IsolatedInv, NoAttemptForPaidDue
  <1>3. ASSUME NEW p \in Rows, status'[p] = "PENDING"
        PROVE  status[p] = "PENDING" /\ due[p] # d
    BY <1>1, <1>3 DEF CompleteCommit, TypeOK, OneActiveAttempt, Active
  <1> QED BY <1>1, <1>2, <1>3 DEF CompleteCommit, SettleDue, Credited

LEMMA UnpaidStep ==
  ASSUME TypeOK, Linked, OneActiveAttempt, IsolatedInv, [Next]_vars
  PROVE  NoAttemptForPaidDue'
  <1>1. ASSUME NEW k \in Workers, CompleteCommit(k) PROVE NoAttemptForPaidDue'
    <2> SUFFICES ASSUME NEW p \in Rows, status'[p] = "PENDING"
                 PROVE  duePayment'[due'[p]] = None
      BY DEF NoAttemptForPaidDue
    <2>1. status[p] = "PENDING" /\ due[p] # due[task[k].row]
      BY <1>1, CompletionCollects
    <2>2. due' = due /\ due[p] \in Dues /\ duePayment[due[p]] = None
      BY <1>1, <2>1
      DEF CompleteCommit, TypeOK, Linked, RowsLinked, IsolatedInv, NoAttemptForPaidDue
    <2>3. duePayment' = [duePayment EXCEPT ![due[task[k].row]] = task[k].row]
      BY <1>1, CompletionCollects
    <2> QED BY <2>1, <2>2, <2>3 DEF TypeOK
  <1>2. ASSUME NEW k \in Workers, InitiateCommit(k) PROVE NoAttemptForPaidDue'
    <2>1. PICK r \in Unused :
             /\ status' = [Closed(task[k]) EXCEPT ![r] = "PENDING"]
             /\ due' = [due EXCEPT ![r] = task[k].due]
      BY <1>2 DEF InitiateCommit
    <2>2. /\ task[k] \in Tasks /\ r \in Rows
          /\ duePayment[task[k].due] = None /\ duePayment' = duePayment
      BY <1>2 DEF InitiateCommit, TypeOK, Unused, IsolatedInv, Fresh, books
    <2>3. \A p \in Rows \ {r} : status'[p] = "PENDING" =>
              status[p] = "PENDING" /\ due'[p] = due[p]
      BY <2>1, <2>2, ClosedType DEF TypeOK
    <2>4. due'[r] = task[k].due
      BY <2>1, <2>2 DEF TypeOK
    <2> QED BY <2>2, <2>3, <2>4 DEF IsolatedInv, NoAttemptForPaidDue
  <1>3. CASE /\ \A p \in Rows : status'[p] = "PENDING" => status[p] = "PENDING"
             /\ UNCHANGED duePayment
    <2>1. \A p \in Rows : status[p] = "PENDING" => due'[p] = due[p]
      BY UsedRowKept DEF Linked, RowsLinked
    <2> QED BY <1>3, <2>1 DEF IsolatedInv, NoAttemptForPaidDue
  <1> QED BY <1>1, <1>2, <1>3, PendingFrame, PaidByFrame

LEMMA IsolatedAlways ==
  ASSUME Isolated
  PROVE  Spec => [](TypeOK /\ Linked /\ OneActiveAttempt /\ IsolatedInv)
  <1>1. TypeOK /\ Linked /\ OneActiveAttempt /\ IsolatedInv /\ [Next]_vars => IsolatedInv'
    BY UnpaidStep, ExclusiveStep, FreshStep DEF IsolatedInv
  <1> QED BY <1>1, InitIsolated, LinkedAlways, SingleAttempt, PTL DEF Spec

\* With handlers that are not interleaved between a read and its commit, a due
\* that is paid has no attempt left that could be completed (initiatePayment
\* and completePayment together).
THEOREM PaidDueIsClosed ==
  ASSUME Isolated
  PROVE  Spec => []NoAttemptForPaidDue
  BY IsolatedAlways, PTL DEF IsolatedInv

\* Such handlers implement the abstract collection: a due is collected once,
\* and wallets and clearing account show what was collected.
THEOREM Implementation ==
  ASSUME Isolated
  PROVE  Spec => ImplementsCollection
  <1> DEFINE Inv == TypeOK /\ Linked /\ OneActiveAttempt /\ IsolatedInv
  <1>1. Init => Collection!Init
    BY DEF Init, Collection!Init, Accounts
  <1>2. Inv /\ [Next]_vars => [\E d \in Dues : Collection!Collect(d)]_(Collection!books)
    <2> SUFFICES ASSUME Inv, [Next]_vars
                 PROVE  \/ UNCHANGED Collection!books
                        \/ \E d \in Dues : Collection!Collect(d)
      OBVIOUS
    <2>1. CASE UNCHANGED <<paidBy, duePayment, balance>>
      BY <2>1 DEF Collection!books
    <2>2. ASSUME NEW k \in Workers, CompleteCommit(k)
          PROVE  \E d \in Dues : Collection!Collect(d)
      <3> DEFINE d == due[task[k].row]
      <3>1. /\ d \in Dues /\ duePayment[d] = None
            /\ duePayment' = [duePayment EXCEPT ![d] = task[k].row]
            /\ task[k].row # None
            /\ balance' = [a \in Accounts |-> balance[a] + Share(d)[a]]
        BY <2>2, CompletionCollects, CheckoutAssumption
      <3>2. {e \in Dues : duePayment'[e] # None} = {e \in Dues : duePayment[e] # None} \cup {d}
        BY <3>1 DEF TypeOK
      <3>3. balance' = [balance EXCEPT !["ORGANIZATION"] = @ + Price[d],
                                       !["PLATFORM"] = @ + PlatformFee,
                                       !["CLEARING"] = @ + Price[d] + PlatformFee]
        <4>1. /\ Share(d)["ORGANIZATION"] = Price[d]
              /\ Share(d)["PLATFORM"] = PlatformFee
              /\ Share(d)["CLEARING"] = Price[d] + PlatformFee
          BY DEF Share, Accounts
        <4>2. balance \in [Accounts -> Nat] /\ Price[d] \in Nat /\ PlatformFee \in Nat
          BY <3>1, CheckoutAssumption DEF TypeOK
        <4>3. /\ balance'["ORGANIZATION"] = balance["ORGANIZATION"] + Price[d]
              /\ balance'["PLATFORM"] = balance["PLATFORM"] + PlatformFee
              /\ balance'["CLEARING"] = balance["CLEARING"] + (Price[d] + PlatformFee)
          BY <3>1, <4>1 DEF Accounts
        <4>4. balance["CLEARING"] + (Price[d] + PlatformFee)
                = balance["CLEARING"] + Price[d] + PlatformFee
          BY <4>2 DEF Accounts
        <4>5. balance' = [a \in Accounts |-> balance'[a]]
          BY <3>1
        <4> QED BY <4>2, <4>3, <4>4, <4>5 DEF Accounts
      <3> QED BY <3>1, <3>2, <3>3 DEF Collection!Collect
    <2> QED BY <2>1, <2>2, PaidByFrame
  <1> QED BY <1>1, <1>2, IsolatedAlways, PTL
          DEF Spec, ImplementsCollection, Collection!Spec
=============================================================================
