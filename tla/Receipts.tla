------------------------------ MODULE Receipts ------------------------------
(***************************************************************************)
(* The numbers of the receipts of one year.                                *)
(*                                                                         *)
(* A receipt takes the number after the last one there is, read a few      *)
(* awaits before the row is inserted.  Numbers are unique, so of two that  *)
(* overlap one fails, is only logged, and is made if the payment's status   *)
(* is asked for again.  "Last" is in the order of the     *)
(* strings, in which the first number with a fifth digit is not the last.  *)
(***************************************************************************)
EXTENDS Integers, FiniteSets

CONSTANTS
    Payments, \* completed payments
    Widest,   \* the largest number of the padded width (9999)
    Makers,   \* handlers running at one time
    MaxFails, \* bound: handlers that stop
    None      \* no payment

VARIABLES
    number, \* the receipt number of each payment, 0 without a receipt
    maker,  \* what each handler is doing
    fails   \* handlers that have stopped

vars == <<number, maker, fails>>

Numbers == {number[p] : p \in Payments} \ {0}
Idle == [at |-> "idle", payment |-> None, number |-> 0]

\* What sorts last among the numbers: "10000" comes before "9999".
Last ==
    LET padded == {n \in Numbers : n <= Widest}
    IN  IF padded = {} THEN 0 ELSE CHOOSE n \in padded : \A k \in padded : k <= n

\* generateReceiptNumber.
NextNumber == Last + 1

\* The completion, a repeated webhook or the status request finds no receipt.
MakeRead(h, p) ==
    /\ maker[h].at = "idle"
    /\ number[p] = 0
    /\ maker' = [maker EXCEPT ![h] = [at |-> "number", payment |-> p, number |-> 0]]
    /\ UNCHANGED <<number, fails>>

MakeNumber(h) ==
    /\ maker[h].at = "number"
    /\ maker' = [maker EXCEPT ![h].at = "insert", ![h].number = NextNumber]
    /\ UNCHANGED <<number, fails>>

\* Mutant: only a payment that has its receipt is refused.
InsertRepeated(h) ==
    LET p == maker[h].payment
    IN  /\ maker[h].at = "insert"
        /\ number' = IF number[p] = 0
                       THEN [number EXCEPT ![p] = maker[h].number] ELSE number
        /\ maker' = [maker EXCEPT ![h] = Idle]
        /\ UNCHANGED fails

\* A number or a payment that has its receipt breaks a unique index.
MakeInsert(h) ==
    LET p == maker[h].payment
    IN  /\ maker[h].at = "insert"
        /\ number' = IF number[p] = 0 /\ maker[h].number \notin Numbers
                       THEN [number EXCEPT ![p] = maker[h].number] ELSE number
        /\ maker' = [maker EXCEPT ![h] = Idle]
        /\ UNCHANGED fails

\* A query fails, or the process stops.
MakerStops(h) ==
    /\ maker[h].at # "idle"
    /\ fails < MaxFails
    /\ fails' = fails + 1
    /\ maker' = [maker EXCEPT ![h] = Idle]
    /\ UNCHANGED number

Init ==
    /\ number = [p \in Payments |-> 0]
    /\ maker = [h \in Makers |-> Idle]
    /\ fails = 0

Proceed(h) == MakeNumber(h) \/ MakeInsert(h)
Asked(p) == \E h \in Makers : MakeRead(h, p)

Next ==
    \/ \E h \in Makers : Proceed(h) \/ MakerStops(h)
    \/ \E p \in Payments : Asked(p)

Spec == Init /\ [][Next]_vars

\* Handlers run on.  Nobody has to ask for a status: the client stops polling
\* once the payment is completed.
FairSpec == Spec /\ \A h \in Makers : WF_vars(Proceed(h))

----------------------------------------------------------------------------
TypeOK ==
    /\ number \in [Payments -> Nat]
    /\ maker \in [Makers -> [at : {"idle", "number", "insert"},
                             payment : Payments \cup {None}, number : Nat]]
    /\ fails \in 0..MaxFails

\* The receipts are numbered from one, each number once and none left out,
\* however handlers overlap or stop (generateReceiptNumber, unique index).
NumberedWithoutGaps ==
    /\ Numbers = 1..Cardinality(Numbers)
    /\ \A p, q \in Payments : number[p] = number[q] /\ number[p] # 0 => p = q

\* Counterexample: a receipt somebody works on is made in the end (a handler
\* whose number is taken only logs it, and nobody has to ask again).
AttemptedReceipt ==
    \A p \in Payments :
        (\E h \in Makers : maker[h].payment = p) ~> number[p] # 0
=============================================================================
