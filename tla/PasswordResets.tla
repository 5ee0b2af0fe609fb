--------------------------- MODULE PasswordResets ---------------------------
(***************************************************************************)
(* The password reset links of one account: asked for by mail, used once   *)
(* within the hour, and replaced by the next one.                          *)
(***************************************************************************)
EXTENDS Integers, FiniteSets

CONSTANTS
    MaxLinks,  \* bound: links, 1..MaxLinks in the order of creation
    Requests,  \* handlers running at one time
    None       \* no link

VARIABLES
    link,     \* each reset link: "none", "open", "used" or "expired"
    uses,     \* how often each link has changed the password
    handler,  \* what each handler is doing
    abreast   \* links made by requests that overlapped another

vars == <<link, uses, handler, abreast>>

Links == 1..MaxLinks
Open == {l \in Links : link[l] = "open"}
Idle == [at |-> "idle", link |-> None, seen |-> {}, late |-> FALSE]
IsNext(l) == link[l] = "none" /\ \A k \in 1..(l - 1) : link[k] # "none"

\* forgotPassword: the transaction marks the open links it sees as used.
ForgotMark(h) ==
    /\ handler[h].at = "idle"
    /\ handler' = [handler EXCEPT ![h] = [Idle EXCEPT !.at = "forgot", !.seen = Open]]
    /\ UNCHANGED <<link, uses, abreast>>

\* Mutant: the links there are stay open.
MarkedNone(h) == link

Marked(h) == [l \in Links |-> IF l \in handler[h].seen /\ link[l] = "open"
                                THEN "used" ELSE link[l]]

\* The transaction inserts a new one and commits; the link is then mailed.
ForgotCommit(h) ==
    /\ handler[h].at = "forgot"
    /\ \E l \in Links :
          /\ IsNext(l)
          /\ link' = [Marked(h) EXCEPT ![l] = "open"]
          /\ abreast' = IF handler[h].late THEN abreast \cup {l} ELSE abreast
    /\ handler' = [g \in Requests |->
           IF g = h THEN Idle
           ELSE IF handler[g].at = "forgot" THEN [handler[g] EXCEPT !.late = TRUE]
           ELSE handler[g]]
    /\ UNCHANGED uses

\* resetPassword: the link is open; the new password is hashed.
ResetRead(h, l) ==
    /\ handler[h].at = "idle"
    /\ link[l] = "open"
    /\ handler' = [handler EXCEPT ![h] = [Idle EXCEPT !.at = "reset", !.link = l]]
    /\ UNCHANGED <<link, uses, abreast>>

\* Mutant: the link is not looked at again.
ConsumesAny(l) == TRUE

\* The transaction must find the link open.
Consumes(l) == link[l] = "open"

\* The password changes and every open link is used up.
ResetCommit(h) ==
    LET l == handler[h].link
    IN  /\ handler[h].at = "reset"
        /\ Consumes(l)
        /\ uses' = [uses EXCEPT ![l] = @ + 1]
        /\ link' = [k \in Links |-> IF link[k] = "open" THEN "used" ELSE link[k]]
        /\ handler' = [handler EXCEPT ![h] = Idle]
        /\ UNCHANGED abreast

ResetRefused(h) ==
    /\ handler[h].at = "reset"
    /\ ~Consumes(handler[h].link)
    /\ handler' = [handler EXCEPT ![h] = Idle]
    /\ UNCHANGED <<link, uses, abreast>>

\* An hour after it was made.
LinkExpires(l) ==
    /\ link[l] = "open"
    /\ link' = [link EXCEPT ![l] = "expired"]
    /\ UNCHANGED <<uses, handler, abreast>>

HandlerStops(h) ==
    /\ handler[h].at # "idle"
    /\ handler' = [handler EXCEPT ![h] = Idle]
    /\ UNCHANGED <<link, uses, abreast>>

Init ==
    /\ link = [l \in Links |-> "none"]
    /\ uses = [l \in Links |-> 0]
    /\ handler = [h \in Requests |-> Idle]
    /\ abreast = {}

Next ==
    \/ \E h \in Requests :
          \/ ForgotMark(h) \/ ForgotCommit(h) \/ ResetCommit(h) \/ ResetRefused(h)
          \/ HandlerStops(h)
          \/ \E l \in Links : ResetRead(h, l)
    \/ \E l \in Links : LinkExpires(l)

Spec == Init /\ [][Next]_vars

----------------------------------------------------------------------------
TypeOK ==
    /\ link \in [Links -> {"none", "open", "used", "expired"}]
    /\ uses \in [Links -> Nat]
    /\ handler \in [Requests -> [at : {"idle", "forgot", "reset"}, link : Links \cup {None},
                                 seen : SUBSET Links, late : BOOLEAN]]
    /\ abreast \subseteq Links

\* A link changes the password once, however many requests hold it, and is
\* closed from then on (resetPassword counts the rows its update has consumed).
LinkUsedOnce ==
    \A l \in Links : uses[l] <= 1 /\ (uses[l] = 1 => link[l] = "used")

\* Only the newest link is open, unless requests for links overlapped
\* (forgotPassword marks the open ones before it makes its own).
OneOpenLink ==
    \A k, l \in Open : k = l \/ k \in abreast \/ l \in abreast

\* Counterexample: only the newest link is open.
NewestLinkOnly == \A k, l \in Open : k = l
=============================================================================
