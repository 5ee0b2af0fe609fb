------------------------------ MODULE Wallets ------------------------------
(***************************************************************************)
(* Wallet operations of the finance module: credits and debits by an       *)
(* administrator, deposits to a savings goal, payments out of a wallet and *)
(* reads, over the wallet rows, their ledger accounts and the copies of    *)
(* the rows kept in Redis.                                                 *)
(*                                                                         *)
(* A request is one execution of a handler; it runs once.  The steps are   *)
(* the awaits of the handler: an operation takes the wallet from the       *)
(* cache, if it is there, and overwrites the row with a balance computed   *)
(* from that copy inside a transaction, whose row locks are held until its *)
(* commit.  With Isolated = TRUE the requests run one after the other.     *)
(***************************************************************************)
EXTENDS Integers

CONSTANTS
    Requests,  \* handler executions
    Ops,       \* the operations they may be, a subset of Operations
    None,      \* no request, or no cached wallet
    Amount,    \* amount of every operation
    Fee,       \* platform fee and VAT of an internal payment
    GatewayFee,\* its gateway fee, 1.5% rounded: zero for a few kobo
    Opening,   \* opening balance of each wallet
    Isolated,  \* TRUE: requests do not overlap
    MaxCrashes \* bound: requests cut short

Operations == {"read", "credit", "debit", "deposit", "withdraw", "pay", "payManually"}
Payments == {"pay", "payManually"}

\* The wallets of one payer, of the organisation paid and of the platform,
\* each with its ledger account.
Owners == {"USER", "ORGANIZATION", "PLATFORM"}

ASSUME WalletsAssumption ==
    /\ Ops \subseteq Operations
    /\ None \notin Requests \cup Int
    /\ Amount \in Nat
    /\ Fee \in Nat
    /\ GatewayFee \in Nat
    /\ Opening \in [Owners -> Nat]
    /\ Isolated \in BOOLEAN
    /\ MaxCrashes \in Nat

VARIABLES
    \* the wallet rows, the ledger accounts, the savings goal, the requests
    \* with a transaction row and those with a journal entry
    balance, account, goal, committed, entries,
    \* row locks of open transactions, the cached wallets
    rowLock, cached,
    \* the requests: where they are, their operation, the wallets still to
    \* load and what they have read
    pc, op, loading, seen, seenGoal, crashes

rows == <<balance, account, goal, committed, entries>>
requests == <<op, loading, seen, seenGoal, crashes>>
vars == <<rows, rowLock, cached, pc, requests>>

ProgramPoints ==
    {"new", "load", "store", "again", "write", "journal", "orphan",
     "invalidate", "commit", "respond", "finished"}

Goto(r, point) == pc' = [pc EXCEPT ![r] = point]
MayRun(r) == Isolated => \A q \in Requests \ {r} : pc[q] \in {"new", "finished"}

\* What the transaction of an operation adds to each wallet.
Change(o) ==
    CASE o = "credit" -> [w \in Owners |-> IF w = "USER" THEN Amount ELSE 0]
      [] o \in {"debit", "deposit", "withdraw"} ->
            [w \in Owners |-> IF w = "USER" THEN -Amount ELSE 0]
      [] o = "payManually" ->
            [w \in Owners |-> CASE w = "USER" -> -Amount
                                [] w = "ORGANIZATION" -> Amount
                                [] w = "PLATFORM" -> 0]
      [] o = "pay" ->
            [w \in Owners |-> CASE w = "USER" -> -(Amount + Fee + GatewayFee)
                                [] w = "ORGANIZATION" -> Amount
                                [] w = "PLATFORM" -> Fee]
      [] OTHER -> [w \in Owners |-> 0]

\* The wallets an operation loads, which are those it writes.
Touched(o) ==
    CASE o = "pay" -> Owners
      [] o = "payManually" -> {"USER", "ORGANIZATION"}
      [] OTHER -> {"USER"}

\* They are loaded in this order.
NextOwner(owners) ==
    CASE "USER" \in owners -> "USER"
      [] "USER" \notin owners /\ "ORGANIZATION" \in owners -> "ORGANIZATION"
      [] OTHER -> "PLATFORM"

NothingCached == [w \in Owners |-> None]
Unlocked(owners) == \A w \in owners : rowLock[w] = None
Released(r) == [w \in Owners |-> IF rowLock[w] = r THEN None ELSE rowLock[w]]

----------------------------------------------------------------------------
(* The start of a request *)

Begin(r, o) ==
    /\ op' = [op EXCEPT ![r] = o]
    /\ loading' = [loading EXCEPT ![r] = Touched(o)]
    /\ UNCHANGED <<rows, rowLock, cached, seen, seenGoal, crashes>>

\* The interceptor of the read answers from the cache; only a miss reaches
\* the handler.
StartRead(r) ==
    /\ pc[r] = "new"
    /\ "read" \in Ops
    /\ Goto(r, IF cached["USER"] # None THEN "finished" ELSE "load")
    /\ Begin(r, "read")

StartMove(r) ==
    /\ pc[r] = "new"
    /\ \E o \in Ops \cap {"credit", "debit", "deposit"} : Begin(r, o)
    /\ Goto(r, "load")

StartPayment(r) ==
    /\ pc[r] = "new"
    /\ \E o \in Ops \cap Payments : Begin(r, o)
    /\ Goto(r, "load")

----------------------------------------------------------------------------
(* getOrCreateWallet *)

\* Mutant: a miss is not looked up.
LoadCachedOnly(r) ==
    LET w == NextOwner(loading[r])
    IN  /\ pc[r] = "load"
        /\ seen' = [seen EXCEPT ![r][w] = cached[w]]
        /\ Goto(r, "store")
        /\ UNCHANGED <<rows, rowLock, cached, op, loading, seenGoal, crashes>>

\* The cached wallet, or else the row as last committed.
LoadRead(r) ==
    LET w == NextOwner(loading[r])
    IN  /\ pc[r] = "load"
        /\ seen' = [seen EXCEPT ![r][w] =
               IF cached[w] # None THEN cached[w] ELSE balance[w]]
        /\ Goto(r, "store")
        /\ UNCHANGED <<rows, rowLock, cached, op, loading, seenGoal, crashes>>

\* It is cached (again), whatever has happened to the row or the cache since.
\* A deposit then reads its goal.
LoadStore(r) ==
    LET w == NextOwner(loading[r])
        left == loading[r] \ {w}
    IN  /\ pc[r] = "store"
        /\ cached' = [cached EXCEPT ![w] = seen[r][w]]
        /\ loading' = [loading EXCEPT ![r] = left]
        /\ seenGoal' = IF op[r] = "deposit"
                         THEN [seenGoal EXCEPT ![r] = goal] ELSE seenGoal
        /\ Goto(r, IF left # {} THEN "load"
                   ELSE IF op[r] = "read" THEN "again" ELSE "write")
        /\ UNCHANGED <<rows, rowLock, op, seen, crashes>>

\* The interceptor of a read caches the answer under the same key.
CacheAnswer(r) ==
    /\ pc[r] = "again"
    /\ cached' = [cached EXCEPT !["USER"] = seen[r]["USER"]]
    /\ Goto(r, "finished")
    /\ UNCHANGED <<rows, rowLock, requests>>

----------------------------------------------------------------------------
(* The transaction of an operation *)

Sufficient(r) == seen[r]["USER"] + Change(op[r])["USER"] >= 0

\* Its writes take the row locks; what they write is seen at the commit.
Write(r) ==
    /\ pc[r] = "write"
    /\ Sufficient(r)
    /\ Unlocked(Touched(op[r]))
    /\ rowLock' = [w \in Owners |-> IF w \in Touched(op[r]) THEN r ELSE rowLock[w]]
    /\ Goto(r, IF op[r] \in Payments THEN "journal" ELSE "invalidate")
    /\ UNCHANGED <<rows, cached, requests>>

RefuseWrite(r) ==
    /\ pc[r] = "write"
    /\ ~Sufficient(r)
    /\ Goto(r, "finished")
    /\ UNCHANGED <<rows, rowLock, cached, requests>>

\* The lines of an internal payment debit the gateway fee twice and credit it
\* once, and createJournalEntry refuses lines that do not balance.
LinesBalance(o) == o = "pay" => GatewayFee = 0

RefuseJournal(r) ==
    /\ pc[r] = "journal"
    /\ ~LinesBalance(op[r])
    /\ rowLock' = Released(r)
    /\ Goto(r, "finished")
    /\ UNCHANGED <<rows, cached, requests>>

\* createJournalEntry without the caller's client: a transaction of its own
\* that updates the accounts whose rows the caller has locked.  A debit line
\* raises an account, a credit line lowers it.
PostJournal(r) ==
    /\ pc[r] \in {"journal", "orphan"}
    /\ LinesBalance(op[r])
    /\ Unlocked(Touched(op[r]))
    /\ account' = [w \in Owners |-> account[w] - Change(op[r])[w]]
    /\ entries' = entries \cup {r}
    /\ Goto(r, IF pc[r] = "journal" THEN "invalidate" ELSE "finished")
    /\ UNCHANGED <<balance, goal, committed, rowLock, cached, requests>>

\* invalidateWalletCache inside the transaction: the tags clear every wallet.
Invalidate(r) ==
    /\ pc[r] = "invalidate"
    /\ cached' = NothingCached
    /\ Goto(r, "commit")
    /\ UNCHANGED <<rows, rowLock, requests>>

\* Mutant: the row is decremented instead of overwritten.
DecrementedBalance(r) == [w \in Owners |-> balance[w] + Change(op[r])[w]]

\* Rows and accounts are overwritten with the balance read plus the change.
NewBalance(r) ==
    [w \in Owners |-> IF w \in Touched(op[r])
                        THEN seen[r][w] + Change(op[r])[w] ELSE balance[w]]

Commit(r) ==
    /\ pc[r] = "commit"
    /\ balance' = NewBalance(r)
    /\ account' = [w \in Owners |-> IF w \in Touched(op[r]) /\ op[r] \notin Payments
                                      THEN NewBalance(r)[w] ELSE account[w]]
    /\ goal' = IF op[r] = "deposit" THEN seenGoal[r] + Amount ELSE goal
    /\ committed' = committed \cup {r}
    /\ rowLock' = Released(r)
    /\ Goto(r, "respond")
    /\ UNCHANGED <<entries, cached, requests>>

\* Mutant: a transaction that waits for its journal entry never expires.
ExpireUnlessWaiting(r) ==
    /\ pc[r] \in {"write", "orphan", "commit"}
    /\ rowLock' = Released(r)
    /\ Goto(r, "finished")
    /\ UNCHANGED <<rows, cached, requests>>

\* An interactive transaction that is open for five seconds, waiting for a
\* lock, its journal entry or Redis, is rolled back; the handler notices at
\* its next query.  A journal entry it has asked for may go on without it,
\* until its own five seconds are over.
Expire(r) ==
    /\ \/ pc[r] \in {"write", "orphan", "commit"} /\ Goto(r, "finished")
       \/ pc[r] = "journal" /\ LinesBalance(op[r]) /\ Goto(r, "orphan")
    /\ rowLock' = Released(r)
    /\ UNCHANGED <<rows, cached, requests>>

\* Mutant: nothing is invalidated after the commit.
RespondOnly(r) ==
    /\ pc[r] = "respond"
    /\ Goto(r, "finished")
    /\ UNCHANGED <<rows, rowLock, cached, requests>>

\* After a success the interceptor (and the withdrawal itself) invalidates.
Respond(r) ==
    /\ pc[r] = "respond"
    /\ cached' = NothingCached
    /\ Goto(r, "finished")
    /\ UNCHANGED <<rows, rowLock, requests>>

----------------------------------------------------------------------------
(* Other movements, time, crashes *)

\* The settlement of a withdrawal (module Withdrawals) reads and writes the
\* row itself and invalidates after its commit.
Withdraw(r) ==
    /\ pc[r] = "new"
    /\ "withdraw" \in Ops
    /\ Unlocked({"USER"})
    /\ balance["USER"] >= Amount
    /\ op' = [op EXCEPT ![r] = "withdraw"]
    /\ balance' = [balance EXCEPT !["USER"] = @ - Amount]
    /\ account' = [account EXCEPT !["USER"] = balance["USER"] - Amount]
    /\ committed' = committed \cup {r}
    /\ Goto(r, "respond")
    /\ UNCHANGED <<goal, entries, rowLock, cached, loading, seen,
                   seenGoal, crashes>>

\* A cached wallet lives for at most 300 seconds.
CacheLapses(w) ==
    /\ cached[w] # None
    /\ cached' = [cached EXCEPT ![w] = None]
    /\ UNCHANGED <<rows, rowLock, pc, requests>>

\* The process stops: its transactions are rolled back, Redis stays as it is.
Crash(r) ==
    /\ pc[r] \notin {"new", "finished"}
    /\ crashes < MaxCrashes
    /\ crashes' = crashes + 1
    /\ rowLock' = Released(r)
    /\ Goto(r, "finished")
    /\ UNCHANGED <<rows, cached, op, loading, seen, seenGoal>>

----------------------------------------------------------------------------
Init ==
    /\ balance = Opening
    /\ account = Opening
    /\ goal = 0
    /\ committed = {}
    /\ entries = {}
    /\ rowLock = [w \in Owners |-> None]
    /\ cached = NothingCached
    /\ pc = [r \in Requests |-> "new"]
    /\ op = [r \in Requests |-> "read"]
    /\ loading = [r \in Requests |-> {}]
    /\ seen = [r \in Requests |-> [w \in Owners |-> 0]]
    /\ seenGoal = [r \in Requests |-> 0]
    /\ crashes = 0

Start(r) == StartRead(r) \/ StartMove(r) \/ StartPayment(r) \/ Withdraw(r)

\* The steps of a request that is under way.
Proceed(r) ==
    \/ LoadRead(r) \/ LoadStore(r) \/ CacheAnswer(r)
    \/ Write(r) \/ RefuseWrite(r)
    \/ RefuseJournal(r) \/ PostJournal(r) \/ Invalidate(r) \/ Commit(r)
    \/ Respond(r)

Next ==
    \/ \E r \in Requests :
          MayRun(r) /\ (Start(r) \/ Proceed(r) \/ Expire(r) \/ Crash(r))
    \/ \E w \in Owners : CacheLapses(w)

Spec == Init /\ [][Next]_vars

\* The event loop runs every handler on to its next await, and Prisma's timer
\* ends a transaction that stays open.
FairSpec == Spec /\ \A r \in Requests : WF_vars(MayRun(r) /\ (Proceed(r) \/ Expire(r)))

----------------------------------------------------------------------------
(* Properties *)

TypeOK ==
    /\ balance \in [Owners -> Int]
    /\ account \in [Owners -> Int]
    /\ goal \in Nat
    /\ committed \subseteq Requests
    /\ entries \subseteq Requests
    /\ rowLock \in [Owners -> Requests \cup {None}]
    /\ cached \in [Owners -> Int \cup {None}]
    /\ pc \in [Requests -> ProgramPoints]
    /\ op \in [Requests -> Operations]
    /\ loading \in [Requests -> SUBSET Owners]
    /\ seen \in [Requests -> [Owners -> Int]]
    /\ seenGoal \in [Requests -> Nat]
    /\ crashes \in 0..MaxCrashes

\* No interleaving of debits, deposits, payments and withdrawals makes a
\* wallet negative: the balance that is checked is the one that is written
\* back, however old (debitWallet, depositToSavings, executeManualPayment).
NoOverdraft == \A w \in Owners : balance[w] >= 0

\* A request that was accepted ends, even a payment that waits for rows it
\* has locked itself.
EveryRequestFinishes ==
    \A r \in Requests : pc[r] # "new" ~> pc[r] = "finished"

\* Requests one after the other: a wallet changes by what the transaction that
\* is recorded moves, and by nothing else, although its new balance was worked
\* out from a cached copy (getOrCreateWallet and the overwriting updates).
NoLostUpdate ==
    [][ /\ committed' = committed => balance' = balance
        /\ \A r \in committed' \ committed, w \in Owners :
              balance'[w] = balance[w] + Change(op'[r])[w] ]_vars

\* Requests one after the other: between two of them, what is cached is what
\* the row says (the interceptors and invalidateWalletCache).
CacheIsCurrent ==
    (\A r \in Requests : pc[r] \in {"new", "finished"}) =>
        \A w \in Owners : cached[w] \in {None, balance[w]}

\* Counterexample: a finished payment that has a journal entry was recorded
\* (ledger.service.ts: journal rows and the surrounding operation commit or
\* roll back as one).
JournalHasPayment ==
    \A r \in entries : pc[r] = "finished" => r \in committed
=============================================================================
