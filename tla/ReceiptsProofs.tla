--------------------------- MODULE ReceiptsProofs ---------------------------
(***************************************************************************)
(* Proofs about Receipts, for any payments, handlers and width of the      *)
(* numbers: receipts are numbered from one, each number once, none left    *)
(* out.                                                                    *)
(***************************************************************************)
EXTENDS Receipts, FiniteSetTheorems, TLAPS

Distinct == \A p, q \in Payments : number[p] = number[q] /\ number[p] # 0 => p = q

\* What is said of the numbers 1..n that have been given: a handler holds one
\* of them or the next.
Numbered(n) ==
    /\ Numbers = 1..n
    /\ \A h \in Makers : maker[h].at = "insert" => maker[h].number \in 1..(n + 1)

\* A handler under way holds a payment.
Holding == \A h \in Makers : maker[h].at # "idle" => maker[h].payment \in Payments

IInv == TypeOK /\ Holding /\ Distinct /\ \E n \in Nat : Numbered(n)

\* The last of the numbers 1..n in the order of the strings is n, or the widest
\* of the padded ones.
LEMMA LastIsGiven ==
    ASSUME Widest \in Nat, NEW n \in Nat, Numbers = 1..n
    PROVE  Last \in 0..n
<1> DEFINE padded == {k \in Numbers : k <= Widest}
           top == IF n <= Widest THEN n ELSE Widest
<1>1. CASE padded = {}
    BY <1>1 DEF Last
<1>2. CASE padded # {}
    <2>1. top \in padded /\ \A k \in padded : k <= top
        BY <1>2
    <2>2. Last = CHOOSE m \in padded : \A k \in padded : k <= m
        BY <1>2 DEF Last
    <2>3. Last \in padded
        BY <2>1, <2>2
    <2> QED BY <2>3
<1> QED BY <1>1, <1>2

LEMMA Read ==
    ASSUME IInv, NEW h \in Makers, NEW p \in Payments, MakeRead(h, p)
    PROVE  IInv'
BY DEF IInv, TypeOK, Holding, Distinct, Numbered, Numbers, MakeRead

LEMMA Stops ==
    ASSUME IInv, MaxFails \in Nat, NEW h \in Makers, MakerStops(h)
    PROVE  IInv'
BY DEF IInv, TypeOK, Holding, Distinct, Numbered, Numbers, MakerStops, Idle

\* The number a handler takes is given, or the next.
LEMMA Takes ==
    ASSUME IInv, Widest \in Nat, NEW h \in Makers, MakeNumber(h)
    PROVE  IInv'
<1>1. PICK n \in Nat : Numbered(n)
    BY DEF IInv
<1>2. NextNumber \in 1..(n + 1)
    BY <1>1, LastIsGiven DEF Numbered, NextNumber
<1>3. maker' = [maker EXCEPT ![h].at = "insert", ![h].number = NextNumber]
    BY DEF MakeNumber
<1>4. TypeOK' /\ Holding'
    <2> DEFINE k == NextNumber
    <2>1. k \in Nat
        BY <1>2
    <2>2. maker' = [maker EXCEPT ![h].at = "insert", ![h].number = k]
        BY <1>3
    <2> HIDE DEF k
    <2>3. TypeOK'
        BY ZenonT(40), <2>1, <2>2 DEF IInv, TypeOK, MakeNumber
    <2>4. Holding'
        BY <2>2 DEF IInv, TypeOK, Holding, MakeNumber
    <2> QED BY <2>3, <2>4
<1>5. Numbers' = Numbers /\ Distinct'
    BY DEF Numbers, MakeNumber, IInv, Distinct
<1>6. Numbered(n)'
    BY <1>1, <1>2, <1>3, <1>5 DEF Numbered, IInv, TypeOK
<1> QED BY <1>4, <1>5, <1>6 DEF IInv

\* What is inserted and not given yet is the next number.
LEMMA Inserts ==
    ASSUME IInv, NEW h \in Makers, MakeInsert(h)
    PROVE  IInv'
<1>1. PICK n \in Nat : Numbered(n)
    BY DEF IInv
<1> DEFINE p == maker[h].payment
           k == maker[h].number
<1>2. p \in Payments /\ k \in 1..(n + 1) /\ k \in Nat
    BY <1>1 DEF IInv, Holding, MakeInsert, Numbered
<1>3. TypeOK' /\ Holding'
    BY <1>2 DEF IInv, TypeOK, Holding, MakeInsert, Idle
<1>4. maker' = [maker EXCEPT ![h] = Idle]
    BY DEF MakeInsert
<1>5. CASE number[p] = 0 /\ k \notin Numbers
    <2>1. k = n + 1
        BY <1>1, <1>2, <1>5 DEF Numbered
    <2>2. number' = [number EXCEPT ![p] = k]
        BY <1>5 DEF MakeInsert
    <2>3. Numbers' = Numbers \cup {k}
        BY <1>2, <1>5, <2>1, <2>2 DEF IInv, TypeOK, Numbers
    <2>4. Numbers' = 1..(n + 1)
        BY <1>1, <2>1, <2>3 DEF Numbered
    <2>5. \A q \in Payments : number[q] # k
        BY <1>5, <2>1 DEF Numbers
    <2>6. Distinct'
        BY <2>2, <2>5, <1>2 DEF IInv, TypeOK, Distinct
    <2>7. Numbered(n + 1)'
        BY <1>1, <1>4, <2>4 DEF IInv, TypeOK, Numbered, Idle
    <2> QED BY <1>3, <2>6, <2>7 DEF IInv
<1>6. CASE ~(number[p] = 0 /\ k \notin Numbers)
    <2>1. number' = number
        BY <1>6 DEF MakeInsert
    <2>2. Numbers' = Numbers /\ Distinct'
        BY <2>1 DEF Numbers, IInv, Distinct
    <2>3. Numbered(n)'
        BY <1>1, <1>4, <2>2 DEF IInv, TypeOK, Numbered, Idle
    <2> QED BY <1>3, <2>2, <2>3 DEF IInv
<1> QED BY <1>5, <1>6

LEMMA Start == MaxFails \in Nat /\ Init => IInv
<1> SUFFICES ASSUME MaxFails \in Nat, Init PROVE IInv
    OBVIOUS
<1>1. Numbers = 1..0
    BY DEF Init, Numbers
<1>2. Numbered(0)
    BY <1>1 DEF Init, Numbered, Idle
<1> QED BY <1>2 DEF Init, IInv, TypeOK, Holding, Distinct, Idle

LEMMA Inductive ==
    ASSUME Widest \in Nat, MaxFails \in Nat
    PROVE  IInv /\ [Next]_vars => IInv'
<1> SUFFICES ASSUME IInv, [Next]_vars PROVE IInv'
    OBVIOUS
<1>1. CASE UNCHANGED vars
    BY <1>1 DEF IInv, TypeOK, Holding, Distinct, Numbered, Numbers, vars
<1> QED BY <1>1, Read, Takes, Inserts, Stops DEF Next, Proceed, Asked

\* Numbers are unique and follow one another.
LEMMA Gapless == IInv => NumberedWithoutGaps
<1> SUFFICES ASSUME IInv PROVE NumberedWithoutGaps
    OBVIOUS
<1>1. PICK n \in Nat : Numbers = 1..n
    BY DEF IInv, Numbered
<1>2. Cardinality(1..n) = n
    BY FS_Interval
<1> QED BY <1>1, <1>2 DEF IInv, Distinct, NumberedWithoutGaps

\* Every variable keeps its type: numbers are natural, handlers hold payments
\* (generateReceipt).
THEOREM TypeCorrect ==
    ASSUME Widest \in Nat, MaxFails \in Nat
    PROVE  Spec => []TypeOK
<1>1. IInv => TypeOK
    BY DEF IInv
<1> QED BY <1>1, Start, Inductive, PTL DEF Spec

\* However handlers overlap and stop, receipts are numbered from one, each
\* number once and none left out (generateReceiptNumber), also when the numbers
\* outgrow their width.
THEOREM WithoutGaps ==
    ASSUME Widest \in Nat, MaxFails \in Nat
    PROVE  Spec => []NumberedWithoutGaps
<1> QED BY Start, Inductive, Gapless, PTL DEF Spec
=============================================================================
