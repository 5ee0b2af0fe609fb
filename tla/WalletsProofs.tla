--------------------------- MODULE WalletsProofs ---------------------------
(***************************************************************************)
(* Theorems about Wallets, for every set of requests and operations, every *)
(* amount, fee and opening balance, and every bound.                       *)
(***************************************************************************)
EXTENDS Wallets, TLAPS

USE DEF Owners

----------------------------------------------------------------------------
(* Operators *)

\* An operation takes from the payer only, and moves whole kobo.
LEMMA ChangeFacts ==
  ASSUME NEW o, NEW w \in Owners
  PROVE  /\ Change(o)[w] \in Int
         /\ w # "USER" => Change(o)[w] >= 0
  BY WalletsAssumption DEF Change

LEMMA TouchedType ==
  ASSUME NEW o
  PROVE  Touched(o) \in SUBSET Owners
  BY DEF Touched

LEMMA NextOwnerType ==
  ASSUME NEW owners
  PROVE  NextOwner(owners) \in Owners
  BY DEF NextOwner

LEMMA ReleasedType ==
  ASSUME TypeOK, NEW r \in Requests
  PROVE  Released(r) \in [Owners -> Requests \cup {None}]
  BY DEF TypeOK, Released

LEMMA NewBalanceType ==
  ASSUME TypeOK, NEW r \in Requests
  PROVE  NewBalance(r) \in [Owners -> Int]
  <1>1. \A w \in Owners : seen[r][w] + Change(op[r])[w] \in Int
    BY ChangeFacts DEF TypeOK
  <1> QED BY <1>1 DEF NewBalance, TypeOK

----------------------------------------------------------------------------
(* Type correctness *)

LEMMA InitType == Init => TypeOK
  BY WalletsAssumption
  DEF Init, TypeOK, NothingCached, ProgramPoints, Operations

LEMMA StartType ==
  ASSUME TypeOK, NEW r \in Requests, Start(r)
  PROVE  TypeOK'
  <1> USE TouchedType, WalletsAssumption
      DEF TypeOK, Begin, Goto, ProgramPoints, Operations, Payments, rows
  <1>1. CASE StartRead(r)
    BY <1>1 DEF StartRead
  <1>2. CASE StartMove(r)
    BY <1>2 DEF StartMove
  <1>3. CASE StartPayment(r)
    BY <1>3 DEF StartPayment
  <1>4. CASE Withdraw(r)
    BY <1>4 DEF Withdraw
  <1> QED BY <1>1, <1>2, <1>3, <1>4 DEF Start

LEMMA ProceedType ==
  ASSUME TypeOK, NEW r \in Requests, Proceed(r)
  PROVE  TypeOK'
  <1> USE WalletsAssumption
      DEF TypeOK, Goto, ProgramPoints, NothingCached, rows, requests
  <1>1. CASE LoadRead(r)
    <2> DEFINE w == NextOwner(loading[r])
    <2>1. w \in Owners
      BY NextOwnerType
    <2>2. (IF cached[w] # None THEN cached[w] ELSE balance[w]) \in Int
      BY <2>1
    <2> HIDE DEF w
    <2> QED BY <1>1, <2>1, <2>2 DEF LoadRead, w
  <1>2. CASE LoadStore(r)
    <2> DEFINE w == NextOwner(loading[r])
    <2>1. w \in Owners
      BY NextOwnerType
    <2>2. seen[r][w] \in Int
      BY <2>1
    <2> HIDE DEF w
    <2> QED BY <1>2, <2>1, <2>2 DEF LoadStore, w
  <1>3. CASE CacheAnswer(r)
    BY <1>3 DEF CacheAnswer
  <1>4. CASE Write(r)
    BY <1>4 DEF Write
  <1>5. CASE RefuseWrite(r)
    BY <1>5 DEF RefuseWrite
  <1>6. CASE RefuseJournal(r)
    BY <1>6, ReleasedType DEF RefuseJournal
  <1>7. CASE PostJournal(r)
    <2>1. account' \in [Owners -> Int]
      BY <1>7, ChangeFacts DEF PostJournal
    <2> QED BY <1>7, <2>1 DEF PostJournal
  <1>8. CASE Invalidate(r)
    BY <1>8 DEF Invalidate
  <1>9. CASE Commit(r)
    <2>1. account' \in [Owners -> Int]
      BY <1>9, NewBalanceType DEF Commit
    <2> QED BY <1>9, <2>1, NewBalanceType, ReleasedType DEF Commit
  <1>10. CASE Respond(r)
    BY <1>10 DEF Respond
  <1> QED BY <1>1, <1>2, <1>3, <1>4, <1>5, <1>6, <1>7, <1>8, <1>9, <1>10
          DEF Proceed

LEMMA TypeStep == TypeOK /\ [Next]_vars => TypeOK'
  <1> SUFFICES ASSUME TypeOK, [Next]_vars PROVE TypeOK'
    OBVIOUS
  <1> USE WalletsAssumption
  <1>1. ASSUME NEW r \in Requests, Expire(r) PROVE TypeOK'
    BY <1>1, ReleasedType DEF Expire, TypeOK, Goto, ProgramPoints, rows, requests
  <1>2. ASSUME NEW r \in Requests, Crash(r) PROVE TypeOK'
    BY <1>2, ReleasedType DEF Crash, TypeOK, Goto, ProgramPoints, rows
  <1>3. ASSUME NEW w \in Owners, CacheLapses(w) PROVE TypeOK'
    BY <1>3 DEF CacheLapses, TypeOK, rows, requests
  <1>4. CASE UNCHANGED vars
    BY <1>4 DEF TypeOK, vars, rows, requests
  <1> QED BY <1>1, <1>2, <1>3, <1>4, StartType, ProceedType DEF Next

\* Types are kept: in particular a request never takes the absence of a cached
\* wallet for a balance.
THEOREM TypeCorrect == Spec => []TypeOK
  BY InitType, TypeStep, PTL DEF Spec

----------------------------------------------------------------------------
(* No overdraft *)

\* NoOverdraft needs that no balance anywhere is negative, and that what a
\* transaction past its check has read still covers what it takes.
Funded ==
    /\ NoOverdraft
    /\ \A w \in Owners : cached[w] # None => cached[w] >= 0
    /\ \A r \in Requests, w \in Owners : seen[r][w] >= 0
    /\ \A r \in Requests :
          pc[r] \in {"journal", "invalidate", "commit"} => Sufficient(r)

LEMMA InitFunded == Init => Funded
  BY WalletsAssumption DEF Init, Funded, NoOverdraft, NothingCached

LEMMA StartFunded ==
  ASSUME TypeOK, Funded, NEW r \in Requests, Start(r)
  PROVE  Funded'
  <1> USE WalletsAssumption DEF Funded, NoOverdraft, Sufficient, TypeOK, Goto, rows
  <1>1. CASE StartRead(r)
    BY <1>1 DEF StartRead, Begin
  <1>2. CASE StartMove(r)
    BY <1>2 DEF StartMove, Begin
  <1>3. CASE StartPayment(r)
    BY <1>3 DEF StartPayment, Begin
  <1>4. CASE Withdraw(r)
    BY <1>4 DEF Withdraw
  <1> QED BY <1>1, <1>2, <1>3, <1>4 DEF Start

\* What a commit writes is what was read, checked, and changed.
LEMMA NewBalanceFunded ==
  ASSUME TypeOK, Funded, NEW r \in Requests, pc[r] = "commit"
  PROVE  \A w \in Owners : NewBalance(r)[w] >= 0
  <1> SUFFICES ASSUME NEW w \in Owners PROVE NewBalance(r)[w] >= 0
    OBVIOUS
  <1>1. seen[r][w] \in Int /\ seen[r][w] >= 0 /\ balance[w] >= 0
    BY DEF TypeOK, Funded, NoOverdraft
  <1>2. seen[r][w] + Change(op[r])[w] >= 0
    BY <1>1, ChangeFacts DEF Funded, Sufficient
  <1> QED BY <1>1, <1>2 DEF NewBalance

LEMMA ProceedFunded ==
  ASSUME TypeOK, Funded, NEW r \in Requests, Proceed(r)
  PROVE  Funded'
  <1> USE WalletsAssumption
      DEF Funded, NoOverdraft, Sufficient, TypeOK, Goto, NothingCached, rows, requests
  <1>1. CASE LoadRead(r)
    <2> DEFINE w == NextOwner(loading[r])
    <2>1. w \in Owners
      BY NextOwnerType
    <2>2. (IF cached[w] # None THEN cached[w] ELSE balance[w]) >= 0
      BY <2>1
    <2> HIDE DEF w
    <2> QED BY <1>1, <2>1, <2>2 DEF LoadRead, w
  <1>2. CASE LoadStore(r)
    <2> DEFINE w == NextOwner(loading[r])
    <2>1. w \in Owners
      BY NextOwnerType
    <2>2. seen[r][w] >= 0
      BY <2>1
    <2> HIDE DEF w
    <2> QED BY <1>2, <2>1, <2>2 DEF LoadStore, w
  <1>3. CASE CacheAnswer(r)
    BY <1>3 DEF CacheAnswer
  <1>4. CASE Write(r)
    BY <1>4 DEF Write
  <1>5. CASE RefuseWrite(r)
    BY <1>5 DEF RefuseWrite
  <1>6. CASE RefuseJournal(r)
    BY <1>6 DEF RefuseJournal
  <1>7. CASE PostJournal(r)
    BY <1>7 DEF PostJournal
  <1>8. CASE Invalidate(r)
    BY <1>8 DEF Invalidate
  <1>9. CASE Commit(r)
    BY <1>9, NewBalanceFunded DEF Commit
  <1>10. CASE Respond(r)
    BY <1>10 DEF Respond
  <1> QED BY <1>1, <1>2, <1>3, <1>4, <1>5, <1>6, <1>7, <1>8, <1>9, <1>10
          DEF Proceed

LEMMA FundedStep == TypeOK /\ Funded /\ [Next]_vars => Funded'
  <1> SUFFICES ASSUME TypeOK, Funded, [Next]_vars PROVE Funded'
    OBVIOUS
  <1> USE DEF Funded, NoOverdraft, Sufficient, TypeOK, Goto, rows, requests
  <1>1. ASSUME NEW r \in Requests, Expire(r) PROVE Funded'
    BY <1>1 DEF Expire
  <1>2. ASSUME NEW r \in Requests, Crash(r) PROVE Funded'
    BY <1>2 DEF Crash
  <1>3. ASSUME NEW w \in Owners, CacheLapses(w) PROVE Funded'
    BY <1>3 DEF CacheLapses
  <1>4. CASE UNCHANGED vars
    BY <1>4 DEF vars
  <1> QED BY <1>1, <1>2, <1>3, <1>4, StartFunded, ProceedFunded DEF Next

\* However requests overlap, and however old the wallet they take from the
\* cache, no wallet becomes negative.
THEOREM NeverOverdrawn == Spec => []NoOverdraft
  <1>1. Funded => NoOverdraft
    BY DEF Funded
  <1> QED BY <1>1, InitFunded, FundedStep, TypeCorrect, PTL DEF Spec

----------------------------------------------------------------------------
(* Requests one after the other *)

Active(r) == pc[r] \notin {"new", "finished"}

Exclusive == \A q, r \in Requests : Active(q) /\ Active(r) => q = r

\* Unless a recorded transaction has not yet invalidated it, the cache agrees
\* with the rows.
Coherent ==
    (\A r \in Requests : pc[r] # "respond") =>
        \A w \in Owners : cached[w] \in {None, balance[w]}

\* A request works with the balances of the rows, and has not been recorded.
Current(r) ==
    /\ pc[r] \in {"load", "store"} =>
          /\ loading[r] # {}
          /\ loading[r] \subseteq Touched(op[r])
    /\ pc[r] \in {"write", "journal", "invalidate", "commit"} => loading[r] = {}
    /\ pc[r] \in {"load", "store", "write", "journal", "invalidate", "commit"} =>
          \A w \in Touched(op[r]) \ loading[r] : seen[r][w] = balance[w]
    /\ pc[r] = "store" =>
          seen[r][NextOwner(loading[r])] = balance[NextOwner(loading[r])]
    /\ pc[r] = "again" => seen[r]["USER"] = balance["USER"]
    /\ pc[r] \notin {"respond", "finished"} => r \notin committed

SerialInv == Exclusive /\ Coherent /\ \A r \in Requests : Current(r)

LEMMA NextOwnerIn ==
  ASSUME NEW owners \in SUBSET Owners, owners # {}
  PROVE  NextOwner(owners) \in owners
  BY DEF NextOwner

LEMMA InitSerial == Init => SerialInv
  BY DEF Init, SerialInv, Exclusive, Active, Coherent, Current, NothingCached

\* Of a step of one request the others, all new or finished, see nothing.
LEMMA OthersCurrent ==
  ASSUME Isolated, TypeOK, SerialInv, NEW r \in Requests, MayRun(r),
         \E point \in ProgramPoints : Goto(r, point),
         committed' \subseteq committed \cup {r}
  PROVE  /\ Exclusive'
         /\ \A q \in Requests \ {r} : Current(q)'
  <1> USE DEF TypeOK, SerialInv, MayRun, Goto
  <1>1. \A q \in Requests \ {r} : pc'[q] = pc[q] /\ pc[q] \in {"new", "finished"}
    OBVIOUS
  <1>2. Exclusive'
    BY <1>1 DEF Exclusive, Active
  <1>3. ASSUME NEW q \in Requests \ {r} PROVE Current(q)'
    BY <1>1 DEF Current
  <1> QED BY <1>2, <1>3

\* Whether the cache is coherent is up to the one request that is under way.
LEMMA OwnCoherence ==
  ASSUME Isolated, TypeOK, SerialInv, NEW r \in Requests, MayRun(r)
  PROVE  pc[r] # "respond" => \A w \in Owners : cached[w] \in {None, balance[w]}
  BY DEF SerialInv, Coherent, MayRun

\* A request that starts has all its wallets to load.
LEMMA StartedFacts ==
  ASSUME TypeOK, NEW r \in Requests, NEW o, Begin(r, o)
  PROVE  /\ loading'[r] # {}
         /\ loading'[r] = Touched(op'[r])
         /\ committed' = committed
         /\ balance' = balance
  <1>1. op'[r] = o /\ loading'[r] = Touched(o)
    BY DEF Begin, TypeOK
  <1>2. Touched(o) # {}
    BY DEF Touched
  <1> QED BY <1>1, <1>2 DEF Begin, rows

LEMMA StartSerial ==
  ASSUME Isolated, TypeOK, SerialInv, NEW r \in Requests, MayRun(r), Start(r)
  PROVE  SerialInv'
  <1> USE OwnCoherence, OthersCurrent DEF TypeOK, Begin, Goto, ProgramPoints, rows
  <1>0. pc[r] = "new" => r \notin committed
    BY DEF SerialInv, Current
  <1>1. CASE StartRead(r)
    <2>1. Exclusive' /\ (\A q \in Requests \ {r} : Current(q)')
      BY <1>1 DEF StartRead
    <2>2. Current(r)'
      BY <1>1, <1>0, StartedFacts DEF StartRead, Current
    <2>3. Coherent'
      BY <1>1 DEF StartRead, Coherent
    <2> QED BY <2>1, <2>2, <2>3 DEF SerialInv
  <1>2. CASE StartMove(r) \/ StartPayment(r)
    <2>1. Exclusive' /\ (\A q \in Requests \ {r} : Current(q)')
      BY <1>2 DEF StartMove, StartPayment
    <2>2. Current(r)'
      BY <1>2, <1>0, StartedFacts DEF StartMove, StartPayment, Current
    <2>3. Coherent'
      BY <1>2 DEF StartMove, StartPayment, Coherent
    <2> QED BY <2>1, <2>2, <2>3 DEF SerialInv
  <1>3. CASE Withdraw(r)
    <2>1. Exclusive' /\ (\A q \in Requests \ {r} : Current(q)')
      BY <1>3 DEF Withdraw
    <2>2. Current(r)'
      BY <1>3 DEF Withdraw, Current
    <2>3. Coherent'
      BY <1>3 DEF Withdraw, Coherent
    <2> QED BY <2>1, <2>2, <2>3 DEF SerialInv
  <1> QED BY <1>1, <1>2, <1>3 DEF Start

LEMMA ProceedSerial ==
  ASSUME Isolated, TypeOK, SerialInv, NEW r \in Requests, MayRun(r), Proceed(r)
  PROVE  SerialInv'
  <1> USE OwnCoherence DEF TypeOK, Goto, NothingCached, rows, requests
  <1>0. Current(r)
    BY DEF SerialInv
  <1>1. Exclusive' /\ (\A q \in Requests \ {r} : Current(q)')
    <2>1. committed' \subseteq committed \cup {r}
      BY DEF Proceed, LoadRead, LoadStore, CacheAnswer, Write, RefuseWrite,
             RefuseJournal, PostJournal, Invalidate, Commit, Respond
    <2>2. \E point \in ProgramPoints : Goto(r, point)
      BY DEF Proceed, LoadRead, LoadStore, CacheAnswer, Write, RefuseWrite,
             RefuseJournal, PostJournal, Invalidate, Commit, Respond,
             ProgramPoints
    <2> QED BY <2>1, <2>2, OthersCurrent
  <1>2. Coherent' /\ Current(r)'
    <2>1. CASE LoadRead(r)
      <3> DEFINE w == NextOwner(loading[r])
      <3>1. w \in loading[r]
        BY <1>0, <2>1, NextOwnerIn DEF Current, LoadRead
      <3>2. (IF cached[w] # None THEN cached[w] ELSE balance[w]) = balance[w]
        BY <2>1, <3>1 DEF LoadRead
      <3> HIDE DEF w
      <3> QED BY <1>0, <2>1, <3>1, <3>2 DEF LoadRead, Coherent, Current, w
    <2>2. CASE LoadStore(r)
      <3> DEFINE w == NextOwner(loading[r])
      <3>1. w \in loading[r] /\ seen[r][w] = balance[w]
        BY <1>0, <2>2, NextOwnerIn DEF Current, LoadStore
      <3>2. op[r] = "read" => loading[r] = {"USER"}
        BY <1>0, <2>2 DEF Current, LoadStore, Touched
      <3> HIDE DEF w
      <3>3. Coherent'
        BY <2>2, <3>1 DEF LoadStore, Coherent, w
      <3>4. Current(r)'
        BY <1>0, <2>2, <3>1, <3>2 DEF LoadStore, Current, w
      <3> QED BY <3>3, <3>4
    <2>3. CASE CacheAnswer(r)
      BY <1>0, <2>3 DEF CacheAnswer, Coherent, Current
    <2>4. CASE Write(r)
      BY <1>0, <2>4 DEF Write, Coherent, Current
    <2>5. CASE RefuseWrite(r)
      BY <1>0, <2>5 DEF RefuseWrite, Coherent, Current
    <2>6. CASE RefuseJournal(r)
      BY <1>0, <2>6 DEF RefuseJournal, Coherent, Current
    <2>7. CASE PostJournal(r)
      BY <1>0, <2>7 DEF PostJournal, Coherent, Current
    <2>8. CASE Invalidate(r)
      BY <1>0, <2>8 DEF Invalidate, Coherent, Current
    <2>9. CASE Commit(r)
      BY <1>0, <2>9 DEF Commit, Coherent, Current
    <2>10. CASE Respond(r)
      BY <1>0, <2>10 DEF Respond, Coherent, Current
    <2> QED BY <2>1, <2>2, <2>3, <2>4, <2>5, <2>6, <2>7, <2>8, <2>9, <2>10
            DEF Proceed
  <1> QED BY <1>1, <1>2 DEF SerialInv

LEMMA SerialStep ==
  ASSUME Isolated, MaxCrashes = 0
  PROVE  TypeOK /\ SerialInv /\ [Next]_vars => SerialInv'
  <1> SUFFICES ASSUME TypeOK, SerialInv, [Next]_vars PROVE SerialInv'
    OBVIOUS
  <1>1. ASSUME NEW r \in Requests, MayRun(r), Expire(r) PROVE SerialInv'
    <2>1. Exclusive' /\ (\A q \in Requests \ {r} : Current(q)')
      BY <1>1, OthersCurrent DEF Expire, ProgramPoints, rows
    <2>2. Coherent' /\ Current(r)'
      BY <1>1, OwnCoherence
      DEF Expire, Coherent, Current, SerialInv, TypeOK, Goto, rows, requests
    <2> QED BY <2>1, <2>2 DEF SerialInv
  <1>2. ASSUME NEW r \in Requests, Crash(r) PROVE FALSE
    BY <1>2 DEF Crash, TypeOK
  <1>3. ASSUME NEW w \in Owners, CacheLapses(w) PROVE SerialInv'
    BY <1>3 DEF CacheLapses, SerialInv, Exclusive, Active, Coherent, Current,
                TypeOK, rows, requests
  <1>4. CASE UNCHANGED vars
    BY <1>4 DEF SerialInv, Exclusive, Active, Coherent, Current, vars, rows,
                requests
  <1> QED BY <1>1, <1>2, <1>3, <1>4, StartSerial, ProceedSerial DEF Next

LEMMA Serial ==
  ASSUME Isolated, MaxCrashes = 0
  PROVE  Spec => []SerialInv
  <1>1. TypeOK /\ SerialInv /\ [Next]_vars => SerialInv'
    BY SerialStep
  <1> QED BY <1>1, InitSerial, TypeCorrect, PTL DEF Spec

\* Requests that do not overlap leave no stale wallet behind: every success
\* invalidates after its commit.
THEOREM CacheAgrees ==
  ASSUME Isolated, MaxCrashes = 0
  PROVE  Spec => []CacheIsCurrent
  <1>1. SerialInv => CacheIsCurrent
    BY DEF SerialInv, Coherent, CacheIsCurrent
  <1> QED BY <1>1, Serial, PTL

\* Requests that do not overlap lose no update, although each overwrites the
\* rows with balances worked out from the cache.
THEOREM UpdatesKept ==
  ASSUME Isolated, MaxCrashes = 0
  PROVE  Spec => NoLostUpdate
  <1> DEFINE Kept ==
        /\ committed' = committed => balance' = balance
        /\ \A r \in committed' \ committed, w \in Owners :
              balance'[w] = balance[w] + Change(op'[r])[w]
  <1>1. ASSUME TypeOK, SerialInv, [Next]_vars PROVE [Kept]_vars
    <2>1. ASSUME NEW r \in Requests, Commit(r) PROVE Kept
      <3>1. r \notin committed /\ op' = op
        BY <1>1, <2>1 DEF SerialInv, Current, Commit, requests
      <3>2. \A w \in Owners : NewBalance(r)[w] = balance[w] + Change(op[r])[w]
        <4>1. \A w \in Owners \ Touched(op[r]) : Change(op[r])[w] = 0
          BY DEF Change, Touched
        <4>2. \A w \in Touched(op[r]) : seen[r][w] = balance[w]
          BY <1>1, <2>1 DEF SerialInv, Current, Commit
        <4>3. op[r] \in Operations /\ balance \in [Owners -> Int]
          BY <1>1 DEF TypeOK
        <4> QED BY <4>1, <4>2, <4>3 DEF NewBalance
      <3> QED BY <2>1, <3>1, <3>2 DEF Commit
    <2>2. ASSUME NEW r \in Requests, Withdraw(r) PROVE Kept
      <3>1. r \notin committed
        BY <1>1, <2>2 DEF SerialInv, Current, Withdraw
      <3>2. op'[r] = "withdraw"
        BY <1>1, <2>2 DEF Withdraw, TypeOK
      <3> QED BY <1>1, <2>2, <3>1, <3>2, WalletsAssumption DEF Withdraw, Change, TypeOK
    <2>3. ASSUME NEW r \in Requests,
                 Expire(r) \/ Crash(r) \/ StartRead(r) \/ StartMove(r) \/ StartPayment(r)
          PROVE  Kept
      BY <2>3 DEF Expire, Crash, StartRead, StartMove, StartPayment, Begin, rows
    <2>4. ASSUME NEW r \in Requests, Proceed(r) PROVE Kept
      BY <2>1, <2>4 DEF Proceed, LoadRead, LoadStore, CacheAnswer, Write,
         RefuseWrite, RefuseJournal, PostJournal, Invalidate, Respond, rows
    <2>5. ASSUME NEW w \in Owners, CacheLapses(w) PROVE Kept
      BY <2>5 DEF CacheLapses, rows
    <2> QED BY <1>1, <2>2, <2>3, <2>4, <2>5 DEF Next, Start
  <1> QED BY <1>1, Serial, TypeCorrect, PTL DEF Spec, NoLostUpdate
=============================================================================
