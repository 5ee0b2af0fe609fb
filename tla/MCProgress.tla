----------------------------- MODULE MCProgress -----------------------------
(***************************************************************************)
(* What must eventually happen, for Checkouts, Sessions, RateLimits and    *)
(* Receipts side by side: the initial state chooses the part that runs,    *)
(* each with the fairness of its own module, and the others never move.    *)
(***************************************************************************)
EXTENDS Checkouts, TLC

CONSTANTS
    Parts,    \* the modules an instance runs
    Handlers, \* the handlers of Sessions, RateLimits and Receipts
    MaxTime   \* of Sessions

AllParts == {"checkouts", "sessions", "limits", "receipts"}

VARIABLES
    part,
    row, jar, password, call, reset, clock, disturbed, unlisted, mishaps, events,
    count, timed, attempt, stops,
    number, maker, fails

sessionVars == <<row, jar, password, call, reset, clock, disturbed, unlisted, mishaps, events>>
limitVars == <<count, timed, attempt, stops>>
receiptVars == <<number, maker, fails>>
allvars == <<vars, sessionVars, limitVars, receiptVars, part>>

EqualPrices == [d \in Dues |-> 3]

\* One user with two browsers.
Browsers == {"phone", "laptop"}
S == INSTANCE Sessions WITH
        session <- row, Clients <- Browsers, Account <- [c \in Browsers |-> "ada"],
        Application <- [c \in Browsers |-> "USER"],
        MaxRows <- 2, SignInWorkers <- Handlers, MaxEvents <- 1

L == INSTANCE RateLimits WITH Attempts <- Handlers, Limit <- 2, MaxStops <- 2

\* Only the number 1 has the padded width.
Payments == 1..3
N == INSTANCE Receipts WITH Widest <- 1, Makers <- Handlers, MaxFails <- 1

OnlyCheckouts == part = "checkouts" /\ UNCHANGED <<sessionVars, limitVars, receiptVars, part>>
OnlySessions == part = "sessions" /\ UNCHANGED <<vars, limitVars, receiptVars, part>>
OnlyLimits == part = "limits" /\ UNCHANGED <<vars, sessionVars, receiptVars, part>>
OnlyReceipts == part = "receipts" /\ UNCHANGED <<vars, sessionVars, limitVars, part>>

ProgressInit == part \in Parts /\ Init /\ S!Init /\ L!Init /\ N!Init
ProgressNext ==
    \/ Next /\ OnlyCheckouts
    \/ S!Next /\ OnlySessions
    \/ L!Next /\ OnlyLimits
    \/ N!Next /\ OnlyReceipts

\* The FairSpec of each module, for its own part.
ProgressSpec ==
    /\ ProgressInit /\ [][ProgressNext]_allvars
    /\ \A k \in Workers : WF_allvars(MayRun(k) /\ Proceed(k) /\ OnlyCheckouts)
    /\ \A p \in Rows :
          SF_allvars(PollPending(p) /\ OnlyCheckouts)
    /\ \A w \in Handlers : WF_allvars(S!Proceed(w) /\ OnlySessions)
    /\ \A a \in S!Accounts : WF_allvars(S!ResetEnds(a) /\ OnlySessions)
    /\ WF_allvars(L!Lapse /\ OnlyLimits)
    /\ \A h \in Handlers :
          /\ WF_allvars(L!Expire(h) /\ OnlyLimits)
          /\ WF_allvars((L!Incr(h) \/ L!Succeed(h)) /\ OnlyLimits)
          /\ WF_allvars(N!Proceed(h) /\ OnlyReceipts)

----------------------------------------------------------------------------
\* The properties of Sessions, RateLimits and Receipts; those of Checkouts have their own
\* names here.
PlaceholderClears == S!PlaceholderClears
PlaceholderAlwaysClears == S!PlaceholderAlwaysClears
OvershootBounded == L!OvershootBounded
LockoutEnds == L!LockoutEnds
LockoutAlwaysEnds == L!LockoutAlwaysEnds
NumberedWithoutGaps == N!NumberedWithoutGaps
AttemptedReceipt == part = "receipts" => N!AttemptedReceipt
=============================================================================
