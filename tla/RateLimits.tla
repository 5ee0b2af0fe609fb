----------------------------- MODULE RateLimits -----------------------------
(***************************************************************************)
(* One counter of the rate limit service: the failed logins from an        *)
(* address, or the requests for a password reset, kept in Redis with a     *)
(* time to live.                                                           *)
(*                                                                         *)
(* The counter is read, compared with the limit, and incremented later in  *)
(* two commands, INCR and EXPIRE: a key that INCR has made has no time to  *)
(* live until EXPIRE gives it one.                                         *)
(***************************************************************************)
EXTENDS Integers, FiniteSets

CONSTANTS
    Attempts,   \* handlers running at one time
    Limit,      \* attempts allowed in a window
    MaxStops    \* bound: handlers cut short

VARIABLES
    count,   \* the counter; 0 without a key
    timed,   \* whether the key has a time to live
    attempt, \* what each handler is doing
    stops    \* handlers cut short

vars == <<count, timed, attempt, stops>>

\* Handlers that have been allowed and have not counted yet.
Allowed == {h \in Attempts : attempt[h] = "allowed"}

\* Mutant: the attempt that is at the limit is allowed.
BelowOrAt == count <= Limit

Below == count < Limit

\* checkLoginAttempts or checkRateLimit; a refusal changes nothing.
Check(h) ==
    /\ attempt[h] = "idle"
    /\ Below
    /\ attempt' = [attempt EXCEPT ![h] = "allowed"]
    /\ UNCHANGED <<count, timed, stops>>

\* incrementLoginAttempt after a failed login, incrementRateLimit at once.
Incr(h) ==
    /\ attempt[h] = "allowed"
    /\ count' = count + 1
    /\ timed' = (timed /\ count > 0)
    /\ attempt' = [attempt EXCEPT ![h] = "expire"]
    /\ UNCHANGED stops

\* Mutant: only a new key is given a time to live.
TimedWhenNew == timed \/ count = 1

\* A key that has lapsed or was deleted meanwhile stays away.
Timed == count > 0

Expire(h) ==
    /\ attempt[h] = "expire"
    /\ timed' = Timed
    /\ attempt' = [attempt EXCEPT ![h] = "idle"]
    /\ UNCHANGED <<count, stops>>

\* A login that succeeds deletes the key.
Succeed(h) ==
    /\ attempt[h] = "allowed"
    /\ count' = 0
    /\ timed' = FALSE
    /\ attempt' = [attempt EXCEPT ![h] = "idle"]
    /\ UNCHANGED stops

\* The window ends.
Lapse ==
    /\ timed
    /\ count' = 0
    /\ timed' = FALSE
    /\ UNCHANGED <<attempt, stops>>

\* The process stops, or Redis does not answer.
Stop(h) ==
    /\ attempt[h] # "idle"
    /\ stops < MaxStops
    /\ stops' = stops + 1
    /\ attempt' = [attempt EXCEPT ![h] = "idle"]
    /\ UNCHANGED <<count, timed>>

Init ==
    /\ count = 0
    /\ timed = FALSE
    /\ attempt = [h \in Attempts |-> "idle"]
    /\ stops = 0

Next ==
    \/ \E h \in Attempts : Check(h) \/ Incr(h) \/ Expire(h) \/ Succeed(h) \/ Stop(h)
    \/ Lapse

Spec == Init /\ [][Next]_vars

\* The event loop runs every handler on; the time to live runs out.
FairSpec ==
    /\ Spec
    /\ WF_vars(Lapse)
    /\ \A h \in Attempts : WF_vars(Expire(h)) /\ WF_vars(Incr(h) \/ Succeed(h))

----------------------------------------------------------------------------
TypeOK ==
    /\ count \in Nat
    /\ timed \in BOOLEAN
    /\ attempt \in [Attempts -> {"idle", "allowed", "expire"}]
    /\ stops \in 0..MaxStops

\* The limit is exceeded by the requests that were past the check at most: the
\* counter and those requests together stay below it plus their number.
OvershootBounded ==
    count + Cardinality(Allowed) < Limit + Cardinality(Attempts)

\* An address that is locked out is let in again, unless handlers have been cut
\* short as often as the limit allows: one that stops between INCR and EXPIRE
\* leaves a key that never lapses, but the next attempt gives it its time.
LockoutEnds == count >= Limit ~> (count < Limit \/ stops >= Limit)

\* Counterexample: it is let in again in any case.
LockoutAlwaysEnds == count >= Limit ~> count < Limit
=============================================================================
