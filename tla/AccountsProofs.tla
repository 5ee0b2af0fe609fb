--------------------------- MODULE AccountsProofs --------------------------
(***************************************************************************)
(* Proofs about PasswordResets and Sessions, for any number of links,      *)
(* browsers, session rows and handlers, and of the runs of Services: a reset*)
(* link changes the password once, a reset ends the sessions that came     *)
(* before it, a revoked session stays revoked, and the cookie of a browser *)
(* that was answered in order is the one its row accepts.                  *)
(***************************************************************************)
EXTENDS Services, TLAPS

----------------------------------------------------------------------------
(* Reset links *)

\* A handler that resets holds a link.
HoldsLink == \A h \in Workers : handler[h].at = "reset" => handler[h].link \in R!Links

LinkInv == R!TypeOK /\ HoldsLink /\ R!LinkUsedOnce

LinkStates == [at : {"idle", "forgot", "reset"}, link : R!Links \cup {None},
           seen : SUBSET R!Links, late : BOOLEAN]

\* A step that touches neither a link nor its uses.
LEMMA LinkHandlerOnly ==
    ASSUME LinkInv, NEW h \in Workers, NEW next \in LinkStates,
           next.at = "reset" => next.link \in R!Links,
           handler' = [handler EXCEPT ![h] = next],
           UNCHANGED <<link, uses, abreast>>
    PROVE  LinkInv'
BY DEF LinkInv, R!TypeOK, HoldsLink, R!LinkUsedOnce, LinkStates

LEMMA LinkHandlersOnly ==
    ASSUME LinkInv, NEW h \in Workers,
           \/ R!ForgotMark(h) \/ R!ResetRefused(h) \/ R!HandlerStops(h)
           \/ \E l \in R!Links : R!ResetRead(h, l)
    PROVE  LinkInv'
<1>1. R!Idle \in LinkStates /\ R!Idle.at # "reset"
    BY DEF R!Idle, LinkStates
<1>2. CASE R!ForgotMark(h)
    <2> DEFINE next == [R!Idle EXCEPT !.at = "forgot", !.seen = R!Open]
    <2>1. next \in LinkStates /\ next.at # "reset"
        BY DEF R!Idle, LinkStates, R!Open
    <2>2. handler' = [handler EXCEPT ![h] = next] /\ UNCHANGED <<link, uses, abreast>>
        BY <1>2 DEF R!ForgotMark
    <2> HIDE DEF next
    <2> QED BY <2>1, <2>2, LinkHandlerOnly
<1>3. CASE R!ResetRefused(h) \/ R!HandlerStops(h)
    <2>1. handler' = [handler EXCEPT ![h] = R!Idle] /\ UNCHANGED <<link, uses, abreast>>
        BY <1>3 DEF R!ResetRefused, R!HandlerStops
    <2> QED BY <1>1, <2>1, LinkHandlerOnly
<1>4. ASSUME NEW l \in R!Links, R!ResetRead(h, l) PROVE LinkInv'
    <2> DEFINE next == [R!Idle EXCEPT !.at = "reset", !.link = l]
    <2>1. next \in LinkStates /\ next.link \in R!Links
        BY DEF R!Idle, LinkStates
    <2>2. handler' = [handler EXCEPT ![h] = next] /\ UNCHANGED <<link, uses, abreast>>
        BY <1>4 DEF R!ResetRead
    <2> HIDE DEF next
    <2> QED BY <2>1, <2>2, LinkHandlerOnly
<1> QED BY <1>2, <1>3, <1>4

\* A new link has never been used, and the older ones that are marked stay used.
LEMMA LinkForgot ==
    ASSUME LinkInv, NEW h \in Workers, R!ForgotCommit(h)
    PROVE  LinkInv'
<1>1. PICK l \in R!Links : /\ link[l] = "none"
                         /\ link' = [R!Marked(h) EXCEPT ![l] = "open"]
                         /\ abreast' = IF handler[h].late THEN abreast \cup {l} ELSE abreast
    BY DEF R!ForgotCommit, R!IsNext
<1>2. R!Marked(h) \in [R!Links -> {"none", "open", "used", "expired"}]
    BY DEF LinkInv, R!TypeOK, R!Marked
<1>3. \A k \in R!Links \ {l} : link'[k] = link[k] \/ (link[k] = "open" /\ link'[k] = "used")
    BY <1>1, <1>2 DEF R!Marked
<1>4. uses[l] = 0
    <2>1. link[l] # "used"
        BY <1>1
    <2>2. uses[l] \in Nat /\ uses[l] <= 1 /\ (uses[l] = 1 => link[l] = "used")
        BY DEF LinkInv, R!TypeOK, R!LinkUsedOnce
    <2> QED BY <2>1, <2>2
<1>5. R!TypeOK' /\ HoldsLink'
    <2>1. handler' \in [Workers -> [at : {"idle", "forgot", "reset"},
                                    link : R!Links \cup {None}, seen : SUBSET R!Links,
                                    late : BOOLEAN]]
        BY DEF LinkInv, R!TypeOK, R!ForgotCommit, R!Idle
    <2>2. link' \in [R!Links -> {"none", "open", "used", "expired"}]
        BY <1>1, <1>2
    <2>3. abreast' \subseteq R!Links
        BY <1>1 DEF LinkInv, R!TypeOK
    <2>4. HoldsLink'
        BY DEF LinkInv, R!TypeOK, HoldsLink, R!ForgotCommit, R!Idle
    <2> QED BY <2>1, <2>2, <2>3, <2>4 DEF LinkInv, R!TypeOK, R!ForgotCommit
<1>6. R!LinkUsedOnce'
    BY <1>3, <1>4 DEF LinkInv, R!TypeOK, R!LinkUsedOnce, R!ForgotCommit
<1> QED BY <1>5, <1>6 DEF LinkInv

\* The link is still open in the transaction that uses it, so it has not been
\* used, and is closed by it.
LEMMA LinkReset ==
    ASSUME LinkInv, NEW h \in Workers, R!ResetCommit(h)
    PROVE  LinkInv'
<1> DEFINE l == handler[h].link
<1>1. l \in R!Links /\ link[l] = "open"
    BY DEF LinkInv, HoldsLink, R!ResetCommit, R!Consumes
<1>2. uses[l] = 0
    BY <1>1 DEF LinkInv, R!TypeOK, R!LinkUsedOnce
<1>3. R!TypeOK' /\ HoldsLink'
    BY <1>1 DEF LinkInv, R!TypeOK, HoldsLink, R!ResetCommit, R!Idle
<1>4. R!LinkUsedOnce'
    BY <1>1, <1>2 DEF LinkInv, R!TypeOK, R!LinkUsedOnce, R!ResetCommit
<1> QED BY <1>3, <1>4 DEF LinkInv

\* A link that expires was open.
LEMMA LinkExpiry ==
    ASSUME LinkInv, NEW l \in R!Links, R!LinkExpires(l)
    PROVE  LinkInv'
BY DEF LinkInv, R!TypeOK, HoldsLink, R!LinkUsedOnce, R!LinkExpires

LEMMA LinkInductive == LinkInv /\ [R!Next]_(R!vars) => LinkInv'
<1> SUFFICES ASSUME LinkInv, [R!Next]_(R!vars) PROVE LinkInv'
    OBVIOUS
<1>1. ASSUME NEW h \in Workers,
             \/ R!ForgotMark(h) \/ R!ForgotCommit(h) \/ R!ResetCommit(h) \/ R!ResetRefused(h)
             \/ R!HandlerStops(h)
             \/ \E l \in R!Links : R!ResetRead(h, l)
      PROVE  LinkInv'
    BY <1>1, LinkHandlersOnly, LinkForgot, LinkReset
<1>2. CASE UNCHANGED R!vars
    BY <1>2 DEF LinkInv, R!TypeOK, HoldsLink, R!LinkUsedOnce, R!vars
<1> QED BY <1>1, <1>2, LinkExpiry DEF R!Next

\* Every variable keeps its type (the handlers of forgotPassword and
\* resetPassword never hold what is no link).
THEOREM LinkTypeCorrect == R!Spec => []R!TypeOK
<1>1. R!Init => LinkInv
    BY DEF R!Init, LinkInv, R!TypeOK, HoldsLink, R!LinkUsedOnce, R!Idle
<1>2. LinkInv => R!TypeOK
    BY DEF LinkInv
<1> QED BY <1>1, <1>2, LinkInductive, PTL DEF R!Spec

\* However many requests hold a link that they have found open, the transaction
\* of resetPassword lets one of them change the password.
THEOREM UsedOnce == R!Spec => []R!LinkUsedOnce
<1>1. R!Init => LinkInv
    BY DEF R!Init, LinkInv, R!TypeOK, HoldsLink, R!LinkUsedOnce, R!Idle
<1>2. LinkInv => R!LinkUsedOnce
    BY DEF LinkInv
<1> QED BY <1>1, <1>2, LinkInductive, PTL DEF R!Spec

LEMMA ResetsSide == ServicesSpec => R!Spec
<1>1. ServicesInit => R!Init
    BY DEF ServicesInit
<1>2. [ServicesNext]_allvars => [R!Next]_(R!vars)
    BY DEF ServicesNext, allvars, electionVars, sessionVars, resetVars, activityVars,
           promotionVars, membershipVars, approvalVars, R!vars
<1> QED BY <1>1, <1>2, PTL DEF ServicesSpec, R!Spec

\* A link changes a password at most once, in the services side by side
\* (resetPassword).
THEOREM LinksUsedOnce == ServicesSpec => []LinkUsedOnce
BY ResetsSide, UsedOnce, PTL DEF LinkUsedOnce

----------------------------------------------------------------------------
(* Session rows *)

SessionRowStates == [account : S!Accounts \cup {None},
              application : {"USER", "ORGANIZATION_ADMIN", "PLATFORM_ADMIN"},
              iat : 0..MaxTime \cup {None}, live : BOOLEAN, expired : BOOLEAN,
              checked : Nat, made : Nat]
CallStates == [at : {"idle", "create", "store", "stamp", "rotate", "reply", "end", "clear"},
               client : Clients \cup {None}, row : S!SessionRows,
               iat : 0..MaxTime, checked : Nat, ends : SUBSET S!SessionRows]

\* A handler under way is some browser's.
CallKnown ==
    \A w \in Workers : IF call[w].at = "idle" THEN call[w].client = None
                                                    ELSE call[w].client \in Clients

\* The rows are used one after the other.
RowsInOrder == \E n \in 0..MaxSessions : \A s \in S!SessionRows : S!Used(s) <=> s <= n

LiveIsUsed == \A s \in S!SessionRows : session[s].live => S!Used(s)

\* An open reset has listed the active rows of its account, but for those
\* inserted since.
ResetsList ==
    \A s \in S!SessionRows :
        session[s].live /\ s \notin unlisted /\ S!Used(s) /\ reset[session[s].account].open
          => s \in reset[session[s].account].rows

RowsInv ==
    /\ S!TypeOK /\ CallKnown /\ RowsInOrder /\ LiveIsUsed
    /\ ResetsList /\ S!ResetEndsSessions

----------------------------------------------------------------------------
\* No row is made, and no row that was revoked is active.
RowsStay ==
    \A s \in S!SessionRows :
        /\ session'[s].account = session[s].account
        /\ session'[s].made = session[s].made
        /\ session'[s].live => session[s].live

LEMMA RowsKept ==
    ASSUME RowsInv, S!TypeOK', CallKnown', RowsStay, UNCHANGED <<password, reset, unlisted>>
    PROVE  RowsInv'
<1>1. \A s \in S!SessionRows : S!Used(s)' = S!Used(s)
    BY DEF RowsStay, S!Used
<1>2. RowsInOrder'
    BY <1>1 DEF RowsInv, RowsInOrder
<1>3. LiveIsUsed'
    BY <1>1 DEF RowsInv, RowsStay, LiveIsUsed
<1>4. S!ResetEndsSessions'
    BY DEF RowsInv, RowsStay, S!ResetEndsSessions
<1>5. ResetsList'
    BY <1>1 DEF RowsInv, RowsStay, ResetsList
<1> QED BY <1>2, <1>3, <1>4, <1>5 DEF RowsInv

LEMMA RowsRevoked ==
    ASSUME RowsInv, NEW T, session' = S!Revoked(T)
    PROVE  /\ session' \in [S!SessionRows -> SessionRowStates] /\ RowsStay
           /\ \A s \in S!SessionRows : /\ session'[s].iat = session[s].iat
                                       /\ s \in T => ~session'[s].live
                                       /\ s \notin T => session'[s] = session[s]
<1>1. \A s \in S!SessionRows : session[s] \in SessionRowStates
    BY DEF RowsInv, S!TypeOK, SessionRowStates
<1>2. \A s \in S!SessionRows :
          session'[s] = IF s \in T THEN [session[s] EXCEPT !.live = FALSE] ELSE session[s]
    BY DEF S!Revoked
<1>3. session' = [s \in S!SessionRows |-> session'[s]]
    BY DEF S!Revoked
<1>4. ASSUME NEW s \in S!SessionRows
      PROVE  /\ session'[s] \in SessionRowStates
             /\ session'[s].account = session[s].account
             /\ session'[s].made = session[s].made
             /\ session'[s].iat = session[s].iat
             /\ session'[s].live => session[s].live
             /\ s \in T => ~session'[s].live
    BY <1>1, <1>2 DEF SessionRowStates
<1> QED BY <1>2, <1>3, <1>4 DEF RowsStay

\* The hash of a row is stored.
LEMMA HashStored ==
    ASSUME RowsInv, NEW w \in Workers, session' = S!StoreHash(w)
    PROVE  /\ session' \in [S!SessionRows -> SessionRowStates] /\ RowsStay
           /\ \A s \in S!SessionRows :
                 session'[s].iat = IF s = call[w].row THEN call[w].iat ELSE session[s].iat
           /\ \A s \in S!SessionRows : session'[s].live = session[s].live
<1>1. session \in [S!SessionRows -> SessionRowStates]
    BY DEF RowsInv, S!TypeOK, SessionRowStates
<1>2. call[w].row \in S!SessionRows /\ call[w].iat \in 0..MaxTime
    BY DEF RowsInv, S!TypeOK
<1>3. session' = [session EXCEPT ![call[w].row].iat = call[w].iat]
    BY DEF S!StoreHash
<1>4. ASSUME NEW s \in S!SessionRows
      PROVE  /\ session'[s] \in SessionRowStates
             /\ session'[s].account = session[s].account
             /\ session'[s].made = session[s].made
             /\ session'[s].live = session[s].live
             /\ session'[s].iat = IF s = call[w].row THEN call[w].iat ELSE session[s].iat
    BY <1>1, <1>2, <1>3 DEF SessionRowStates
<1>5. session' \in [S!SessionRows -> SessionRowStates]
    BY <1>1, <1>3, <1>4
<1> QED BY <1>4, <1>5 DEF RowsStay

\* A new row is the next after those in use.
LEMMA NextIsFree ==
    ASSUME RowsInv, ~S!Used(MaxSessions)
    PROVE  /\ S!NextRow \in S!SessionRows /\ ~S!Used(S!NextRow)
           /\ \A s \in S!SessionRows : s < S!NextRow <=> S!Used(s)
<1>1. PICK n \in 0..MaxSessions : \A s \in S!SessionRows : S!Used(s) <=> s <= n
    BY DEF RowsInv, RowsInOrder
<1>2. n # MaxSessions
    BY <1>1, SignInAssumption DEF S!SessionRows
<1>3. n + 1 \in S!SessionRows
    BY <1>2, SignInAssumption DEF S!SessionRows
<1>4. ~S!Used(n + 1) /\ \A r \in 1..n : S!Used(r)
    BY <1>1, <1>3, SignInAssumption DEF S!SessionRows
<1>5. \A s \in S!SessionRows : ~S!Used(s) /\ (\A r \in 1..(s - 1) : S!Used(r)) => s = n + 1
    BY <1>1, <1>3, SignInAssumption DEF S!SessionRows
<1>6. S!NextRow = n + 1
    <2>1. (n + 1) - 1 = n
        OBVIOUS
    <2>2. \E s \in S!SessionRows : ~S!Used(s) /\ \A r \in 1..(s - 1) : S!Used(r)
        BY <1>3, <1>4, <2>1
    <2> QED BY <1>5, <2>2 DEF S!NextRow
<1> QED BY <1>1, <1>3, <1>4, <1>6 DEF S!SessionRows

\* What a handler turns to.
ProperCall(next) == IF next.at = "idle" THEN next.client = None ELSE next.client \in Clients

LEMMA CallTurns ==
    ASSUME RowsInv, NEW w \in Workers, NEW next \in CallStates, ProperCall(next),
           call' = [call EXCEPT ![w] = next]
    PROVE  /\ call' \in [Workers -> CallStates] /\ CallKnown'
           /\ \A v \in Workers : call'[v] = IF v = w THEN next ELSE call[v]
<1>1. call \in [Workers -> CallStates]
    BY DEF RowsInv, S!TypeOK, CallStates
<1>2. \A v \in Workers : call'[v] = IF v = w THEN next ELSE call[v]
    BY <1>1
<1>3. CallKnown'
    BY <1>2 DEF RowsInv, CallKnown, ProperCall
<1> QED BY <1>1, <1>2, <1>3

LEMMA IdleIsProper == S!Idle \in CallStates /\ S!Idle.at = "idle" /\ ProperCall(S!Idle)
BY SignInAssumption DEF S!Idle, CallStates, ProperCall, S!SessionRows

\* A browser's request is taken up.
TakenUp(w, c) ==
    \E next \in CallStates :
        /\ next.client = c /\ next.at \in {"create", "rotate", "end", "clear"}
        /\ next.at = "rotate" => jar[c] # None /\ next.row = jar[c].row
        /\ call' = [call EXCEPT ![w] = next]

LEMMA TakesUp ==
    ASSUME RowsInv, NEW w \in Workers, NEW c \in Clients,
           \/ S!LoginRead(w, c) \/ S!RefreshRead(w, c) \/ S!RefreshRefused(w, c)
           \/ S!Logout(w, c) \/ S!LogoutAll(w, c)
    PROVE  /\ TakenUp(w, c) /\ call[w].at = "idle" /\ RowsStay
           /\ UNCHANGED <<session, jar, password, reset, clock, unlisted, mishaps, events>>
           /\ disturbed' = IF S!Busy(c) THEN [disturbed EXCEPT ![c] = TRUE] ELSE disturbed
<1>1. /\ UNCHANGED <<session, jar, password, reset, clock, unlisted, mishaps, events>>
      /\ call[w].at = "idle"
      /\ disturbed' = IF S!Busy(c) THEN [disturbed EXCEPT ![c] = TRUE] ELSE disturbed
    BY DEF S!LoginRead, S!RefreshRead, S!RefreshRefused, S!Logout, S!LogoutAll, S!TakeUp
<1>6. 1 \in S!SessionRows /\ 0 \in 0..MaxTime
    BY SignInAssumption DEF S!SessionRows
<1>7. TakenUp(w, c)
    <2>1. CASE S!LoginRead(w, c)
        <3> DEFINE next == [S!Idle EXCEPT !.at = "create", !.client = c,
                                          !.checked = password[Account[c]]]
        <3>1. password[Account[c]] \in Nat
            BY DEF RowsInv, S!TypeOK, S!Accounts
        <3>2. next \in CallStates /\ next.client = c /\ next.at = "create"
            BY <1>6, <3>1 DEF S!Idle, CallStates
        <3>3. call' = [call EXCEPT ![w] = next]
            BY <2>1 DEF S!LoginRead
        <3> HIDE DEF next
        <3> QED BY <3>2, <3>3 DEF TakenUp
    <2>2. CASE S!RefreshRead(w, c)
        <3> DEFINE next == [S!Idle EXCEPT !.at = "rotate", !.client = c,
                                          !.row = jar[c].row, !.iat = clock]
        <3>1. jar[c] # None /\ jar[c] \in S!Token /\ clock \in 0..MaxTime
            BY <2>2 DEF S!RefreshRead, RowsInv, S!TypeOK
        <3>2. next \in CallStates /\ next.client = c /\ next.at = "rotate"
              /\ next.row = jar[c].row
            BY <1>6, <3>1 DEF S!Idle, CallStates, S!Token
        <3>3. call' = [call EXCEPT ![w] = next]
            BY <2>2 DEF S!RefreshRead
        <3> HIDE DEF next
        <3> QED BY <3>1, <3>2, <3>3 DEF TakenUp
    <2>3. CASE call' = [call EXCEPT ![w] = [S!Idle EXCEPT !.at = "clear", !.client = c]]
        <3> DEFINE next == [S!Idle EXCEPT !.at = "clear", !.client = c]
        <3>1. next \in CallStates /\ next.client = c /\ next.at = "clear"
            BY <1>6 DEF S!Idle, CallStates
        <3>2. call' = [call EXCEPT ![w] = next]
            BY <2>3
        <3> HIDE DEF next
        <3> QED BY <3>1, <3>2 DEF TakenUp
    <2>4. ASSUME NEW T \in SUBSET S!SessionRows,
                 call' = [call EXCEPT ![w] = [S!Idle EXCEPT !.at = "end", !.client = c, !.ends = T]]
          PROVE  TakenUp(w, c)
        <3> DEFINE next == [S!Idle EXCEPT !.at = "end", !.client = c, !.ends = T]
        <3>1. next \in CallStates /\ next.client = c /\ next.at = "end"
            BY <1>6 DEF S!Idle, CallStates
        <3>2. call' = [call EXCEPT ![w] = next]
            BY <2>4
        <3> HIDE DEF next
        <3> QED BY <3>1, <3>2 DEF TakenUp
    <2>5. CASE S!Logout(w, c)
        <3>1. S!LogoutTargets(c) \subseteq S!SessionRows
            BY DEF S!LogoutTargets, S!Found
        <3> QED BY <2>4, <2>5, <3>1 DEF S!Logout
    <2>6. CASE S!LogoutAll(w, c)
        <3>1. S!Found(c) \subseteq S!SessionRows
            BY DEF S!Found
        <3> QED BY <2>4, <2>6, <3>1 DEF S!LogoutAll
    <2> QED BY <2>1, <2>2, <2>3, <2>5, <2>6 DEF S!RefreshRefused
<1> QED BY <1>1, <1>7 DEF RowsStay

LEMMA TakesUpRows ==
    ASSUME RowsInv, NEW w \in Workers, NEW c \in Clients,
           \/ S!LoginRead(w, c) \/ S!RefreshRead(w, c) \/ S!RefreshRefused(w, c)
           \/ S!Logout(w, c) \/ S!LogoutAll(w, c)
    PROVE  RowsInv'
<1>1. /\ TakenUp(w, c) /\ RowsStay
      /\ UNCHANGED <<session, jar, password, reset, clock, unlisted, mishaps, events>>
      /\ disturbed' = IF S!Busy(c) THEN [disturbed EXCEPT ![c] = TRUE] ELSE disturbed
    BY TakesUp
<1>2. call' \in [Workers -> CallStates] /\ CallKnown'
    BY <1>1, CallTurns DEF TakenUp, ProperCall
<1>3. S!TypeOK'
    BY <1>1, <1>2 DEF RowsInv, S!TypeOK, SessionRowStates, CallStates
<1> QED BY <1>1, <1>2, <1>3, RowsKept

\* The steps of a handler other than the creation of a row.
Stored(w) == /\ session' = S!StoreHash(w) /\ call[w].at \in {"store", "rotate"}
             /\ \E next \in CallStates :
                    /\ next.at \in {"stamp", "reply"} /\ next.client = call[w].client
                    /\ next.row = call[w].row /\ next.iat = call[w].iat
                    /\ call' = [call EXCEPT ![w] = next]
             /\ UNCHANGED <<jar, password, reset, clock, S!history>>

LEMMA Stores ==
    ASSUME RowsInv, NEW w \in Workers, S!LoginStore(w) \/ S!RefreshStore(w)
    PROVE  Stored(w)
<1>1. PICK point \in {"stamp", "reply"} :
          /\ session' = S!StoreHash(w) /\ call[w].at \in {"store", "rotate"}
          /\ UNCHANGED <<jar, password, reset, clock, S!history>>
          /\ call' = [call EXCEPT ![w].at = point]
    BY DEF S!LoginStore, S!RefreshStore, S!Goto
<1>2. call \in [Workers -> CallStates]
    BY DEF RowsInv, S!TypeOK, CallStates
<1> DEFINE next == [call[w] EXCEPT !.at = point]
<1>3. call[w] \in CallStates
    BY <1>2
<1>4. /\ next \in CallStates /\ next.at = point /\ next.client = call[w].client
      /\ next.row = call[w].row /\ next.iat = call[w].iat
    BY <1>3 DEF CallStates
<1>5. call' = [call EXCEPT ![w] = next]
    BY <1>1
<1> HIDE DEF next
<1> QED BY <1>1, <1>4, <1>5 DEF Stored

LEMMA StoresRows ==
    ASSUME RowsInv, NEW w \in Workers, Stored(w)
    PROVE  RowsInv'
<1>1. session' \in [S!SessionRows -> SessionRowStates] /\ RowsStay
    BY HashStored DEF Stored
<1>2. call[w].client \in Clients
    BY DEF RowsInv, CallKnown, Stored
<1>3. call' \in [Workers -> CallStates] /\ CallKnown'
    BY <1>2, CallTurns DEF Stored, ProperCall
<1>4. S!TypeOK'
    BY <1>1, <1>3 DEF RowsInv, S!TypeOK, SessionRowStates, CallStates, Stored, S!history
<1> QED BY <1>1, <1>3, <1>4, RowsKept DEF Stored, S!history

\* The new row has its account's password of the moment.
LEMMA CreatesRow ==
    ASSUME RowsInv, NEW w \in Workers, S!LoginCreate(w)
    PROVE  /\ RowsInv'
           /\ \E n \in S!SessionRows :
                 /\ ~S!Used(n) /\ S!Used(n)'
                 /\ \A s \in S!SessionRows \ {n} : session'[s] = session[s]
                 /\ call'[w].client = call[w].client /\ call'[w].at = "store"
                 /\ call'[w].row = n
                 /\ \A v \in Workers \ {w} : call'[v] = call[v]
<1> DEFINE c == call[w].client
<1>1. c \in Clients /\ call[w] \in CallStates
    BY DEF S!LoginCreate, RowsInv, CallKnown, S!TypeOK, CallStates
<1>2. PICK n \in S!SessionRows :
         n = S!NextRow /\ ~S!Used(n) /\ \A s \in S!SessionRows : s < n <=> S!Used(s)
    BY NextIsFree DEF S!LoginCreate
<1>3. /\ UNCHANGED <<jar, password, reset, clock, disturbed, mishaps, events>>
      /\ unlisted' = IF reset[Account[c]].open THEN unlisted \cup {n} ELSE unlisted
    BY <1>2 DEF S!LoginCreate
<1> DEFINE new == [account |-> Account[c], application |-> Application[c],
                   iat |-> None, live |-> TRUE, expired |-> FALSE,
                   checked |-> call[w].checked, made |-> password[Account[c]]]
<1>4. session' = [session EXCEPT ![n] = new]
    BY <1>2 DEF S!LoginCreate
<1>5. /\ Account[c] \in S!Accounts /\ Account[c] # None
      /\ password[Account[c]] \in Nat /\ call[w].checked \in Nat
      /\ Application[c] \in {"USER", "ORGANIZATION_ADMIN", "PLATFORM_ADMIN"}
    BY <1>1, SignInAssumption DEF S!Accounts, RowsInv, S!TypeOK, CallStates
<1>6. new \in SessionRowStates /\ new.account = Account[c] /\ new.made = password[Account[c]]
    BY <1>5 DEF SessionRowStates
<1>7. session \in [S!SessionRows -> SessionRowStates]
    BY DEF RowsInv, S!TypeOK, SessionRowStates
<1> HIDE DEF new
<1>8. /\ session' \in [S!SessionRows -> SessionRowStates]
      /\ session'[n] = new
      /\ \A s \in S!SessionRows \ {n} : session'[s] = session[s]
    BY <1>2, <1>4, <1>6, <1>7
<1>9. PICK next \in CallStates :
          /\ next.at = "store" /\ next.client = c /\ next.row = n
          /\ call' = [call EXCEPT ![w] = next]
    <2> DEFINE a == [call[w] EXCEPT !.at = "store"]
    <2> DEFINE b == [a EXCEPT !.row = n]
    <2> DEFINE next == [b EXCEPT !.iat = clock]
    <2>1. a \in CallStates /\ a.at = "store" /\ a.client = c
        BY <1>1 DEF CallStates
    <2>2. call' = [call EXCEPT ![w] = next]
        BY <1>2 DEF S!LoginCreate, RowsInv, S!TypeOK
    <2> HIDE DEF a
    <2>3. b \in CallStates /\ b.at = "store" /\ b.client = c /\ b.row = n
        BY <1>2, <2>1 DEF CallStates
    <2> HIDE DEF b
    <2>4. clock \in 0..MaxTime
        BY DEF RowsInv, S!TypeOK
    <2>5. next \in CallStates /\ next.at = "store" /\ next.client = c /\ next.row = n
        BY <2>3, <2>4 DEF CallStates
    <2> HIDE DEF next
    <2> QED BY <2>2, <2>5
<1>10. /\ call' \in [Workers -> CallStates] /\ CallKnown'
       /\ \A v \in Workers : call'[v] = IF v = w THEN next ELSE call[v]
    BY <1>1, <1>9, CallTurns DEF ProperCall
<1>11. S!TypeOK'
    BY <1>2, <1>3, <1>8, <1>10 DEF RowsInv, S!TypeOK, SessionRowStates, CallStates
<1>12. S!Used(n)' /\ \A s \in S!SessionRows \ {n} : S!Used(s)' = S!Used(s)
    BY <1>5, <1>6, <1>8 DEF S!Used
<1>13. RowsInOrder'
    <2>1. n \in 0..MaxSessions
        BY <1>2, SignInAssumption DEF S!SessionRows
    <2>2. \A s \in S!SessionRows : S!Used(s)' <=> s <= n
        BY <1>2, <1>12, SignInAssumption DEF S!SessionRows
    <2> QED BY <2>1, <2>2 DEF RowsInOrder
<1>14. LiveIsUsed'
    BY <1>8, <1>12 DEF RowsInv, LiveIsUsed
<1>15. S!ResetEndsSessions'
    BY <1>3, <1>6, <1>8 DEF RowsInv, S!ResetEndsSessions
<1>16. ResetsList'
    <2> SUFFICES ASSUME NEW s \in S!SessionRows, session'[s].live, s \notin unlisted', S!Used(s)',
                        reset[session'[s].account].open
                 PROVE  s \in reset[session'[s].account].rows
        BY <1>3 DEF ResetsList
    <2>1. s # n
        BY <1>3, <1>6, <1>8
    <2>2. session'[s] = session[s] /\ S!Used(s) /\ s \notin unlisted
        BY <1>3, <1>8, <1>12, <2>1
    <2> QED BY <2>2 DEF RowsInv, ResetsList
<1> QED BY <1>2, <1>8, <1>9, <1>10, <1>11, <1>12, <1>13, <1>14, <1>15, <1>16 DEF RowsInv

\* What a step of a reset leaves alone.
ResetAlone == UNCHANGED <<jar, call, clock, disturbed, unlisted, mishaps>>

\* A reset lists the active rows of its account.
LEMMA ResetOpens ==
    ASSUME RowsInv, NEW a \in S!Accounts, S!ResetPassword(a)
    PROVE  RowsInv' /\ ResetAlone /\ UNCHANGED session
<1>1. /\ reset' = [reset EXCEPT ![a] = [open |-> TRUE, rows |-> S!ResetRows(a)]]
      /\ UNCHANGED <<session, password>> /\ ResetAlone
      /\ events < MaxEvents /\ events' = events + 1
    BY DEF S!ResetPassword, S!Happens, ResetAlone
<1> DEFINE open == [open |-> TRUE, rows |-> S!ResetRows(a)]
<1>2. open \in [open : BOOLEAN, rows : SUBSET S!SessionRows] /\ open.open /\ open.rows = S!ResetRows(a)
    BY DEF S!ResetRows
<1>3. reset' = [reset EXCEPT ![a] = open]
    BY <1>1
<1> HIDE DEF open
<1>4. /\ reset' \in [S!Accounts -> [open : BOOLEAN, rows : SUBSET S!SessionRows]]
      /\ reset'[a] = open /\ \A b \in S!Accounts \ {a} : reset'[b] = reset[b]
    BY <1>2, <1>3 DEF RowsInv, S!TypeOK
<1>5. S!TypeOK'
    <2>1. mishaps' \in 0..events' /\ events' \in 0..MaxEvents
        BY <1>1, SignInAssumption DEF RowsInv, S!TypeOK, ResetAlone
    <2> QED BY <1>1, <1>4, <2>1 DEF RowsInv, S!TypeOK, ResetAlone
<1>6. CallKnown' /\ RowsInOrder' /\ LiveIsUsed' /\ S!ResetEndsSessions'
    BY <1>1 DEF RowsInv, CallKnown, RowsInOrder, LiveIsUsed, S!ResetEndsSessions, S!Used, ResetAlone
<1>7. ResetsList'
    <2> SUFFICES ASSUME NEW s \in S!SessionRows, session[s].live, s \notin unlisted, S!Used(s),
                        reset'[session[s].account].open
                 PROVE  s \in reset'[session[s].account].rows
        BY <1>1 DEF ResetsList, S!Used, ResetAlone
    <2>1. session[s].account \in S!Accounts
        BY DEF RowsInv, S!TypeOK, S!Used
    <2>2. CASE session[s].account = a
        BY <1>2, <1>4, <2>2 DEF S!ResetRows
    <2>3. CASE session[s].account # a
        BY <1>4, <2>1, <2>3 DEF RowsInv, ResetsList
    <2> QED BY <2>2, <2>3
<1> QED BY <1>1, <1>5, <1>6, <1>7 DEF RowsInv

\* An open reset has gone: what the others have listed they still have.
LEMMA ResetCloses ==
    ASSUME RowsInv, NEW a \in S!Accounts, reset' = [reset EXCEPT ![a] = S!NoReset]
    PROVE  /\ reset' \in [S!Accounts -> [open : BOOLEAN, rows : SUBSET S!SessionRows]]
           /\ ~reset'[a].open /\ \A b \in S!Accounts \ {a} : reset'[b] = reset[b]
BY DEF RowsInv, S!TypeOK, S!NoReset

\* A reset ends every session it has listed, hence every one that has the
\* password before it but for those inserted since.
LEMMA ResetCommits ==
    ASSUME RowsInv, NEW a \in S!Accounts, S!ResetCommit(a)
    PROVE  /\ RowsInv' /\ ResetAlone /\ RowsStay
           /\ \A s \in S!SessionRows : session'[s].iat = session[s].iat
<1>1. /\ password' = [password EXCEPT ![a] = @ + 1] /\ session' = S!Revoked(reset[a].rows)
      /\ reset' = [reset EXCEPT ![a] = S!NoReset] /\ reset[a].open
      /\ ResetAlone /\ UNCHANGED events
    BY DEF S!ResetCommit, ResetAlone, S!history
<1>2. /\ session' \in [S!SessionRows -> SessionRowStates] /\ RowsStay
      /\ \A s \in S!SessionRows : /\ session'[s].iat = session[s].iat
                                  /\ s \in reset[a].rows => ~session'[s].live
    BY <1>1, RowsRevoked
<1>3. /\ reset' \in [S!Accounts -> [open : BOOLEAN, rows : SUBSET S!SessionRows]]
      /\ ~reset'[a].open /\ \A b \in S!Accounts \ {a} : reset'[b] = reset[b]
    BY <1>1, ResetCloses
<1>4. S!TypeOK'
    <2>1. password' \in [S!Accounts -> Nat]
        BY <1>1 DEF RowsInv, S!TypeOK
    <2> QED BY <1>1, <1>2, <1>3, <2>1 DEF RowsInv, S!TypeOK, SessionRowStates, ResetAlone
<1>5. \A s \in S!SessionRows : S!Used(s)' = S!Used(s)
    BY <1>2 DEF RowsStay, S!Used
<1>6. CallKnown' /\ RowsInOrder' /\ LiveIsUsed'
    <2>1. CallKnown'
        BY <1>1 DEF RowsInv, CallKnown, ResetAlone
    <2>2. RowsInOrder'
        BY <1>5 DEF RowsInv, RowsInOrder
    <2>3. LiveIsUsed'
        BY <1>2, <1>5 DEF RowsInv, LiveIsUsed, RowsStay
    <2> QED BY <2>1, <2>2, <2>3
<1>7. ASSUME NEW s \in S!SessionRows, session'[s].live, s \notin unlisted
      PROVE  /\ session'[s].account = session[s].account /\ session'[s].made = session[s].made
             /\ session[s].live /\ S!Used(s)
             /\ session[s].account \in S!Accounts \ {a}
    <2>1. session'[s].account = session[s].account /\ session'[s].made = session[s].made
          /\ session[s].live
        BY <1>2, <1>7 DEF RowsStay
    <2>2. S!Used(s) /\ session[s].account \in S!Accounts
        BY <2>1 DEF RowsInv, LiveIsUsed, S!TypeOK, S!Used
    <2>3. session[s].account # a
        BY <1>1, <1>2, <1>7, <2>1, <2>2 DEF RowsInv, ResetsList
    <2> QED BY <2>1, <2>2, <2>3
<1>8. S!ResetEndsSessions'
    <2>1. ASSUME NEW s \in S!SessionRows, session'[s].live, s \notin unlisted'
          PROVE  session'[s].made = password'[session'[s].account]
        <3>1. s \notin unlisted
            BY <1>1, <2>1 DEF ResetAlone
        <3>2. session[s].made = password[session[s].account]
            BY <1>7, <2>1, <3>1 DEF RowsInv, S!ResetEndsSessions
        <3>3. password'[session[s].account] = password[session[s].account]
            BY <1>1, <1>7, <2>1, <3>1 DEF RowsInv, S!TypeOK
        <3> QED BY <1>7, <2>1, <3>1, <3>2, <3>3
    <2> QED BY <2>1 DEF S!ResetEndsSessions
<1>9. ResetsList'
    <2> SUFFICES ASSUME NEW s \in S!SessionRows, session'[s].live, s \notin unlisted',
                        reset'[session'[s].account].open
                 PROVE  s \in reset'[session'[s].account].rows
        BY DEF ResetsList
    <2>1. s \notin unlisted
        BY <1>1 DEF ResetAlone
    <2> QED BY <1>3, <1>7, <2>1 DEF RowsInv, ResetsList
<1> QED BY <1>1, <1>2, <1>4, <1>6, <1>8, <1>9 DEF RowsInv

LEMMA ResetFails ==
    ASSUME RowsInv, NEW a \in S!Accounts, S!ResetRollsBack(a)
    PROVE  RowsInv' /\ ResetAlone /\ UNCHANGED session
<1>1. /\ reset' = [reset EXCEPT ![a] = S!NoReset]
      /\ ResetAlone /\ UNCHANGED <<session, password, events>>
    BY DEF S!ResetRollsBack, ResetAlone, S!history
<1>2. /\ reset' \in [S!Accounts -> [open : BOOLEAN, rows : SUBSET S!SessionRows]]
      /\ ~reset'[a].open /\ \A b \in S!Accounts \ {a} : reset'[b] = reset[b]
    BY <1>1, ResetCloses
<1>3. S!TypeOK'
    BY <1>1, <1>2 DEF RowsInv, S!TypeOK, ResetAlone
<1>4. CallKnown' /\ RowsInOrder' /\ LiveIsUsed' /\ S!ResetEndsSessions'
    BY <1>1 DEF RowsInv, CallKnown, RowsInOrder, LiveIsUsed, S!ResetEndsSessions, S!Used, ResetAlone
<1>5. ResetsList'
    <2> SUFFICES ASSUME NEW s \in S!SessionRows, session[s].live, s \notin unlisted, S!Used(s),
                        reset'[session[s].account].open
                 PROVE  s \in reset'[session[s].account].rows
        BY <1>1 DEF ResetsList, S!Used, ResetAlone
    <2>1. session[s].account \in S!Accounts
        BY DEF RowsInv, S!TypeOK, S!Used
    <2> QED BY <1>2, <2>1 DEF RowsInv, ResetsList
<1> QED BY <1>1, <1>3, <1>4, <1>5 DEF RowsInv

\* What a reset does to the rows.
LEMMA ResetsRows ==
    ASSUME RowsInv, NEW a \in S!Accounts, S!ResetPassword(a) \/ S!ResetEnds(a)
    PROVE  /\ RowsInv' /\ RowsStay /\ UNCHANGED <<jar, call, disturbed>>
           /\ \A s \in S!SessionRows : session'[s].iat = session[s].iat
BY ResetOpens, ResetCommits, ResetFails DEF S!ResetEnds, ResetAlone, RowsStay

\* The sessions a logout has found end.
LEMMA SessionsEnd ==
    ASSUME RowsInv, NEW w \in Workers, S!EndSessions(w)
    PROVE  /\ RowsInv' /\ RowsStay /\ UNCHANGED <<jar, disturbed>> /\ call[w].client \in Clients
           /\ \A s \in S!SessionRows : session'[s].iat = session[s].iat
           /\ \E next \in CallStates :
                 /\ next.at = "clear" /\ next.client = call[w].client
                 /\ \A v \in Workers : call'[v] = IF v = w THEN next ELSE call[v]
<1>1. /\ session' = S!Revoked(call[w].ends) /\ call[w].at = "end"
      /\ call' = [call EXCEPT ![w].at = "clear", ![w].ends = {}]
      /\ UNCHANGED <<jar, password, reset, clock, disturbed, unlisted, mishaps, events>>
    BY DEF S!EndSessions, S!history
<1>2. call \in [Workers -> CallStates] /\ call[w].client \in Clients
    BY <1>1 DEF RowsInv, S!TypeOK, CallStates, CallKnown
<1> DEFINE a == [call[w] EXCEPT !.at = "clear"]
<1> DEFINE next == [a EXCEPT !.ends = {}]
<1>3. a \in CallStates /\ a.at = "clear" /\ a.client = call[w].client
    BY <1>2 DEF CallStates
<1>4. call' = [call EXCEPT ![w] = next]
    BY <1>1, <1>2
<1> HIDE DEF a
<1>5. next \in CallStates /\ next.at = "clear" /\ next.client = call[w].client
    BY <1>3 DEF CallStates
<1> HIDE DEF next
<1>6. /\ call' \in [Workers -> CallStates] /\ CallKnown'
      /\ \A v \in Workers : call'[v] = IF v = w THEN next ELSE call[v]
    BY <1>2, <1>4, <1>5, CallTurns DEF ProperCall
<1>7. /\ session' \in [S!SessionRows -> SessionRowStates] /\ RowsStay
      /\ \A s \in S!SessionRows : session'[s].iat = session[s].iat
    BY <1>1, RowsRevoked
<1>8. S!TypeOK'
    BY <1>1, <1>6, <1>7 DEF RowsInv, S!TypeOK, SessionRowStates, CallStates
<1>9. RowsInv'
    BY <1>1, <1>6, <1>7, <1>8, RowsKept
<1> QED BY <1>1, <1>2, <1>5, <1>6, <1>7, <1>9

\* A handler comes to its end; the rows stay as they are.
EndsCall(w) == S!Reply(w) \/ S!Clear(w) \/ S!LoginRefused(w) \/ S!CutShort(w)

LEMMA EndsRows ==
    ASSUME RowsInv, NEW w \in Workers, EndsCall(w) \/ S!RefreshFails(w)
    PROVE  RowsInv'
<1>1. UNCHANGED <<session, password, reset, clock, unlisted>> /\ call[w].at # "idle"
    BY DEF EndsCall, S!Reply, S!Clear, S!LoginRefused, S!CutShort, S!RefreshFails, S!history
<1>2. call[w] \in CallStates /\ call[w].client \in Clients
    BY <1>1 DEF RowsInv, S!TypeOK, CallStates, CallKnown
<1>3. PICK next \in CallStates : ProperCall(next) /\ call' = [call EXCEPT ![w] = next]
    <2>1. CASE EndsCall(w)
        BY <2>1, IdleIsProper DEF EndsCall, S!Reply, S!Clear, S!LoginRefused, S!CutShort
    <2>2. CASE S!RefreshFails(w)
        <3> DEFINE next == [call[w] EXCEPT !.at = "clear"]
        <3>1. next \in CallStates /\ next.at = "clear" /\ next.client = call[w].client
            BY <1>2 DEF CallStates
        <3>2. call' = [call EXCEPT ![w] = next]
            BY <2>2 DEF S!RefreshFails, S!Goto
        <3> HIDE DEF next
        <3> QED BY <1>2, <3>1, <3>2 DEF ProperCall
    <2> QED BY <2>1, <2>2
<1>4. call' \in [Workers -> CallStates] /\ CallKnown'
    BY <1>3, CallTurns
<1>5. jar' \in [Clients -> S!Token \cup {None}]
    <2>1. CASE S!Reply(w)
        <3>1. [row |-> call[w].row, iat |-> call[w].iat, check |-> "valid"] \in S!Token
            BY <1>2 DEF CallStates, S!Token
        <3> QED BY <1>2, <2>1, <3>1 DEF S!Reply, RowsInv, S!TypeOK
    <2>2. CASE S!Clear(w)
        BY <1>2, <2>2 DEF S!Clear, RowsInv, S!TypeOK
    <2>3. CASE UNCHANGED jar
        BY <2>3 DEF RowsInv, S!TypeOK
    <2> QED BY <2>1, <2>2, <2>3 DEF EndsCall, S!LoginRefused, S!CutShort, S!RefreshFails
<1>6. /\ disturbed' \in [Clients -> BOOLEAN]
      /\ mishaps' \in 0..events' /\ events' \in 0..MaxEvents
    <2>1. CASE UNCHANGED S!history
        BY <2>1 DEF S!history, RowsInv, S!TypeOK
    <2>2. CASE S!CutShort(w) \/ S!RefreshFails(w)
        <3>1. /\ mishaps' = mishaps + 1 /\ events' = events + 1 /\ events < MaxEvents
              /\ disturbed' = [disturbed EXCEPT ![call[w].client] = TRUE]
            BY <2>2 DEF S!CutShort, S!RefreshFails, S!Happens
        <3>2. mishaps' \in 0..events' /\ events' \in 0..MaxEvents
            BY <3>1, SignInAssumption DEF RowsInv, S!TypeOK
        <3> QED BY <3>1, <3>2 DEF RowsInv, S!TypeOK
    <2> QED BY <2>1, <2>2 DEF EndsCall, S!Reply, S!Clear, S!LoginRefused
<1>7. S!TypeOK'
    BY <1>1, <1>4, <1>5, <1>6 DEF RowsInv, S!TypeOK, CallStates
<1> QED BY <1>1, <1>4, <1>7, RowsKept DEF RowsStay

\* What the other devices and the time do: sessions end, tokens expire and
\* cookies lapse.
Environment ==
    \/ \E s \in S!SessionRows : S!RevokeSession(s) \/ S!SessionExpires(s)
    \/ \E a \in S!Accounts : S!RevokeAllSessions(a)
    \/ \E c \in Clients : S!TokenExpires(c) \/ S!CookieLapses(c)
    \/ S!Tick \/ S!SecretChanges

\* No cookie names another row or second.
JarStays ==
    \A c \in Clients :
        jar'[c] # None => /\ jar[c] # None
                          /\ jar'[c].row = jar[c].row /\ jar'[c].iat = jar[c].iat

LEMMA EnvironmentRows ==
    ASSUME RowsInv, Environment
    PROVE  /\ RowsInv' /\ RowsStay /\ UNCHANGED <<call, disturbed>>
           /\ \A s \in S!SessionRows : session'[s].iat = session[s].iat
           /\ JarStays
<1>1. UNCHANGED <<password, call, reset, disturbed, unlisted, mishaps>>
    BY DEF Environment, S!RevokeSession, S!SessionExpires, S!RevokeAllSessions, S!CookieLapses, S!TokenExpires,
           S!SecretChanges, S!Tick, S!history
<1>2. session \in [S!SessionRows -> SessionRowStates]
    BY DEF RowsInv, S!TypeOK, SessionRowStates
<1>3. /\ session' \in [S!SessionRows -> SessionRowStates] /\ RowsStay
      /\ \A s \in S!SessionRows : session'[s].iat = session[s].iat
    <2>1. ASSUME NEW T, session' = S!Revoked(T)
          PROVE  /\ session' \in [S!SessionRows -> SessionRowStates] /\ RowsStay
                 /\ \A s \in S!SessionRows : session'[s].iat = session[s].iat
        BY <2>1, RowsRevoked
    <2>2. ASSUME NEW s \in S!SessionRows, session' = [session EXCEPT ![s].expired = TRUE]
          PROVE  /\ session' \in [S!SessionRows -> SessionRowStates] /\ RowsStay
                 /\ \A r \in S!SessionRows : session'[r].iat = session[r].iat
        BY <1>2, <2>2 DEF SessionRowStates, RowsStay
    <2>3. ASSUME UNCHANGED session
          PROVE  /\ session' \in [S!SessionRows -> SessionRowStates] /\ RowsStay
                 /\ \A r \in S!SessionRows : session'[r].iat = session[r].iat
        BY <1>2, <2>3 DEF RowsStay
    <2>4. \/ \E T : session' = S!Revoked(T)
          \/ \E s \in S!SessionRows : session' = [session EXCEPT ![s].expired = TRUE]
          \/ UNCHANGED session
        BY DEF Environment, S!RevokeSession, S!SessionExpires, S!RevokeAllSessions, S!CookieLapses,
               S!TokenExpires, S!SecretChanges, S!Tick
    <2> QED BY <2>1, <2>2, <2>3, <2>4
<1>4. JarStays /\ jar' \in [Clients -> S!Token \cup {None}]
    <2>1. jar \in [Clients -> S!Token \cup {None}]
        BY DEF RowsInv, S!TypeOK
    <2>2. \A t \in S!Token, check \in {"valid", "expired", "invalid"} :
              /\ [t EXCEPT !.check = check] \in S!Token
              /\ [t EXCEPT !.check = check].row = t.row /\ [t EXCEPT !.check = check].iat = t.iat
        BY DEF S!Token
    <2>3. ASSUME NEW c \in Clients, S!TokenExpires(c)
          PROVE  JarStays /\ jar' \in [Clients -> S!Token \cup {None}]
        <3>1. jar[c] # None /\ jar[c] \in S!Token
              /\ jar' = [jar EXCEPT ![c] = [jar[c] EXCEPT !.check = "expired"]]
            BY <2>1, <2>3 DEF S!TokenExpires
        <3> DEFINE t == [jar[c] EXCEPT !.check = "expired"]
        <3>2. t \in S!Token /\ t.row = jar[c].row /\ t.iat = jar[c].iat
            BY <2>2, <3>1
        <3>3. jar' = [jar EXCEPT ![c] = t]
            BY <3>1
        <3> HIDE DEF t
        <3> QED BY <2>1, <3>1, <3>2, <3>3 DEF JarStays
    <2>4. ASSUME NEW c \in Clients, S!CookieLapses(c)
          PROVE  JarStays /\ jar' \in [Clients -> S!Token \cup {None}]
        BY <2>1, <2>4 DEF S!CookieLapses, JarStays
    <2>5. CASE S!SecretChanges
        <3>1. jar' = [c \in Clients |-> IF jar[c] = None THEN None
                                        ELSE [jar[c] EXCEPT !.check = "invalid"]]
            BY <2>5 DEF S!SecretChanges
        <3>2. ASSUME NEW c \in Clients
              PROVE  /\ jar'[c] \in S!Token \cup {None}
                     /\ jar'[c] # None => /\ jar[c] # None
                                          /\ jar'[c].row = jar[c].row /\ jar'[c].iat = jar[c].iat
            <4>1. CASE jar[c] = None
                BY <3>1, <4>1
            <4>2. CASE jar[c] # None
                <5>1. jar[c] \in S!Token /\ jar'[c] = [jar[c] EXCEPT !.check = "invalid"]
                    BY <2>1, <3>1, <4>2
                <5> QED BY <2>2, <4>2, <5>1
            <4> QED BY <4>1, <4>2
        <3>3. jar' = [c \in Clients |-> jar'[c]]
            BY <3>1
        <3> QED BY <3>2, <3>3 DEF JarStays
    <2>6. CASE UNCHANGED jar
        BY <2>1, <2>6 DEF JarStays
    <2> QED BY <2>3, <2>4, <2>5, <2>6
            DEF Environment, S!RevokeSession, S!SessionExpires, S!RevokeAllSessions, S!Tick
<1>5. S!TypeOK'
    <2>1. jar' \in [Clients -> S!Token \cup {None}]
        BY <1>4
    <2>2. clock' \in 0..MaxTime
        <3>1. clock' = clock \/ (clock < MaxTime /\ clock' = clock + 1)
            BY DEF Environment, S!RevokeSession, S!SessionExpires, S!RevokeAllSessions, S!CookieLapses,
                   S!TokenExpires, S!SecretChanges, S!Tick
        <3> QED BY <3>1, SignInAssumption DEF RowsInv, S!TypeOK
    <2>3. mishaps' \in 0..events' /\ events' \in 0..MaxEvents
        <3>1. events' = events \/ (events < MaxEvents /\ events' = events + 1)
            BY DEF Environment, S!RevokeSession, S!SessionExpires, S!RevokeAllSessions, S!CookieLapses,
                   S!TokenExpires, S!SecretChanges, S!Tick, S!history, S!Happens
        <3> QED BY <1>1, <3>1, SignInAssumption DEF RowsInv, S!TypeOK
    <2> QED BY <1>1, <1>3, <2>1, <2>2, <2>3 DEF RowsInv, S!TypeOK, SessionRowStates
<1>6. CallKnown'
    BY <1>1 DEF RowsInv, CallKnown
<1> QED BY <1>1, <1>3, <1>4, <1>5, <1>6, RowsKept

LEMMA RowsStart == S!Init => RowsInv
<1> SUFFICES ASSUME S!Init PROVE RowsInv
    OBVIOUS
<1>1. S!UnusedRow \in SessionRowStates /\ S!UnusedRow.account = None /\ S!UnusedRow.live = FALSE
    BY DEF S!UnusedRow, SessionRowStates
<1>2. \A s \in S!SessionRows : session[s] = S!UnusedRow
    BY DEF S!Init
<1>3. S!TypeOK
    <2>1. session \in [S!SessionRows -> SessionRowStates]
        BY <1>1 DEF S!Init
    <2>2. call \in [Workers -> CallStates]
        BY IdleIsProper DEF S!Init
    <2>3. reset \in [S!Accounts -> [open : BOOLEAN, rows : SUBSET S!SessionRows]]
        BY DEF S!Init, S!NoReset
    <2> QED BY <2>1, <2>2, <2>3, SignInAssumption DEF S!Init, S!TypeOK, SessionRowStates, CallStates
<1>4. CallKnown
    BY IdleIsProper DEF S!Init, CallKnown, ProperCall
<1>5. RowsInOrder
    <2>1. 0 \in 0..MaxSessions /\ \A s \in S!SessionRows : ~(s <= 0)
        BY SignInAssumption DEF S!SessionRows
    <2> QED BY <1>1, <1>2, <2>1 DEF RowsInOrder, S!Used
<1>6. LiveIsUsed /\ ResetsList /\ S!ResetEndsSessions
    BY <1>1, <1>2 DEF LiveIsUsed, ResetsList, S!ResetEndsSessions
<1> QED BY <1>3, <1>4, <1>5, <1>6 DEF RowsInv

LEMMA RowsInductive == RowsInv /\ [S!Next]_(S!vars) => RowsInv'
<1> SUFFICES ASSUME RowsInv, [S!Next]_(S!vars) PROVE RowsInv'
    OBVIOUS
<1>1. ASSUME NEW w \in Workers, S!Start(w)
      PROVE  RowsInv'
    BY <1>1, TakesUpRows DEF S!Start
<1>2. ASSUME NEW w \in Workers, S!Proceed(w) \/ S!RefreshFails(w) \/ S!CutShort(w)
      PROVE  RowsInv'
    BY <1>2, CreatesRow, Stores, StoresRows, SessionsEnd, EndsRows DEF S!Proceed, EndsCall
<1>3. ASSUME NEW a \in S!Accounts, S!ResetPassword(a) \/ S!ResetEnds(a)
      PROVE  RowsInv'
    BY <1>3, ResetsRows
<1>4. CASE Environment
    BY <1>4, EnvironmentRows
<1>5. CASE UNCHANGED S!vars
    <2>1. S!TypeOK' /\ CallKnown'
        BY <1>5 DEF S!vars, S!history, RowsInv, S!TypeOK, CallKnown
    <2>2. RowsStay /\ UNCHANGED <<password, reset, unlisted>>
        BY <1>5 DEF S!vars, S!history, RowsStay
    <2> QED BY <2>1, <2>2, RowsKept
<1> QED BY <1>1, <1>2, <1>3, <1>4, <1>5 DEF S!Next, Environment

\* A session that is active was made while the account had the password it has
\* now, unless it was inserted between a reset's update of the sessions and its
\* COMMIT (resetPassword).
THEOREM ResetEnds == S!Spec => []S!ResetEndsSessions
<1>1. RowsInv => S!ResetEndsSessions
    BY DEF RowsInv
<1> QED BY <1>1, RowsStart, RowsInductive, PTL DEF S!Spec

LEMMA NeverRevived ==
    ASSUME RowsInv, [S!Next]_(S!vars), NEW s \in S!SessionRows, S!Used(s), ~session[s].live
    PROVE  ~session'[s].live
<1>1. ASSUME RowsStay PROVE ~session'[s].live
    BY <1>1 DEF RowsStay
<1>2. ASSUME NEW w \in Workers, S!Start(w)
      PROVE  ~session'[s].live
    BY <1>1, <1>2, TakesUp DEF S!Start
<1>3. ASSUME NEW w \in Workers, S!LoginStore(w) \/ S!RefreshStore(w)
      PROVE  ~session'[s].live
    BY <1>1, <1>3, Stores, HashStored DEF Stored
<1>4. ASSUME NEW w \in Workers, S!LoginCreate(w)
      PROVE  ~session'[s].live
    BY <1>4, CreatesRow
<1>5. ASSUME NEW w \in Workers, EndsCall(w) \/ S!RefreshFails(w)
      PROVE  ~session'[s].live
    BY <1>5 DEF EndsCall, S!Reply, S!Clear, S!LoginRefused, S!CutShort, S!RefreshFails
<1>6. ASSUME NEW a \in S!Accounts, S!ResetPassword(a) \/ S!ResetEnds(a)
      PROVE  ~session'[s].live
    BY <1>1, <1>6, ResetsRows
<1>7. CASE Environment
    BY <1>1, <1>7, EnvironmentRows
<1>8. CASE UNCHANGED S!vars
    BY <1>8 DEF S!vars
<1>9. ASSUME NEW w \in Workers, S!EndSessions(w)
      PROVE  ~session'[s].live
    BY <1>1, <1>9, SessionsEnd
<1> QED BY <1>2, <1>3, <1>4, <1>5, <1>6, <1>7, <1>8, <1>9 DEF S!Next, S!Proceed, EndsCall, Environment

\* A session that was revoked is never active again (revoke, rotate).
THEOREM NoneRevived == S!Spec => S!RevokedForGood
<1>1. RowsInv /\ [S!Next]_(S!vars) =>
         [\A s \in S!SessionRows : S!Used(s) /\ ~session[s].live => ~session'[s].live]_(S!vars)
    BY NeverRevived
<1> QED BY <1>1, RowsStart, RowsInductive, PTL DEF S!Spec, S!RevokedForGood

----------------------------------------------------------------------------
(* A browser keeps its session *)

\* A browser's cookie names the row, or a handler of its own has it in hand.
Refers(c, s) ==
    \/ jar[c] # None /\ jar[c].row = s
    \/ \E w \in Workers :
          call[w].client = c /\ call[w].at \in {"store", "stamp", "rotate", "reply"} /\ call[w].row = s

\* No two browsers refer to one row.
OneBrowser ==
    \A c, d \in Clients, s \in S!SessionRows : Refers(c, s) /\ Refers(d, s) => c = d

ReferredUsed == \A c \in Clients, s \in S!SessionRows : Refers(c, s) => S!Used(s)

\* A browser that has not been disturbed has one request under way at most.
OneRequest ==
    \A c \in Clients : ~disturbed[c] =>
        \A v, w \in Workers : call[v].client = c /\ call[w].client = c => v = w

HoldsToken(c) ==
    jar[c] # None /\ session[jar[c].row].live => session[jar[c].row].iat = jar[c].iat

\* Until its handler has stored a hash the browser's token is the one that is
\* accepted; from then on the token that will be the answer is.
Accepted ==
    \A c \in Clients : ~disturbed[c] =>
        /\ (\A w \in Workers : call[w].client = c => call[w].at = "create") => HoldsToken(c)
        /\ \A w \in Workers :
              call[w].client = c /\ call[w].at \in {"stamp", "reply"} =>
                session[call[w].row].iat = call[w].iat

BrowserInv == OneBrowser /\ ReferredUsed /\ OneRequest /\ Accepted

\* Nothing new is referred to.
RefersFewer == \A c \in Clients, s \in S!SessionRows : Refers(c, s)' => Refers(c, s)

LEMMA FewerReferred ==
    ASSUME RowsInv, BrowserInv, RefersFewer, RowsStay
    PROVE  OneBrowser' /\ ReferredUsed'
<1>1. OneBrowser'
    BY DEF BrowserInv, OneBrowser, RefersFewer
<1>2. \A s \in S!SessionRows : S!Used(s)' = S!Used(s)
    BY DEF RowsStay, S!Used
<1>3. ReferredUsed'
    BY <1>2 DEF BrowserInv, ReferredUsed, RefersFewer
<1> QED BY <1>1, <1>3

\* A request is taken up.
LEMMA TakesUpBrowser ==
    ASSUME RowsInv, BrowserInv, NEW w \in Workers, NEW c \in Clients,
           \/ S!LoginRead(w, c) \/ S!RefreshRead(w, c) \/ S!RefreshRefused(w, c)
           \/ S!Logout(w, c) \/ S!LogoutAll(w, c)
    PROVE  BrowserInv'
<1>1. /\ call[w].at = "idle" /\ RowsStay /\ UNCHANGED <<jar, session>>
      /\ disturbed' = IF S!Busy(c) THEN [disturbed EXCEPT ![c] = TRUE] ELSE disturbed
    BY TakesUp
<1>2. PICK next \in CallStates :
        /\ next.client = c /\ next.at \in {"create", "rotate", "end", "clear"}
        /\ next.at = "rotate" => jar[c] # None /\ next.row = jar[c].row
        /\ call' = [call EXCEPT ![w] = next]
    BY TakesUp DEF TakenUp
<1>3. \A v \in Workers : call'[v] = IF v = w THEN next ELSE call[v]
    BY <1>2, CallTurns DEF ProperCall
<1>4. \A v \in Workers : call[v].row \in S!SessionRows
    BY DEF RowsInv, S!TypeOK
<1>5. \A d \in Clients : jar[d] # None => jar[d].row \in S!SessionRows
    BY DEF RowsInv, S!TypeOK, S!Token
<1>6. call[w].client = None /\ \A d \in Clients : d # None
    BY <1>1, SignInAssumption DEF RowsInv, CallKnown
<1>7. RefersFewer
    <2> SUFFICES ASSUME NEW d \in Clients, NEW s \in S!SessionRows, Refers(d, s)'
                 PROVE  Refers(d, s)
        BY DEF RefersFewer
    <2>1. CASE jar'[d] # None /\ jar'[d].row = s
        BY <1>1, <2>1 DEF Refers
    <2>2. ASSUME NEW v \in Workers, call'[v].client = d,
                 call'[v].at \in {"store", "stamp", "rotate", "reply"}, call'[v].row = s
          PROVE  Refers(d, s)
        BY <1>2, <1>3, <2>2 DEF Refers
    <2> QED BY <2>1, <2>2 DEF Refers
<1>8. OneBrowser' /\ ReferredUsed'
    BY <1>1, <1>7, FewerReferred
<1>9. \A d \in Clients : ~disturbed'[d] =>
          ~disturbed[d] /\ (d = c => ~S!Busy(c))
    BY <1>1 DEF RowsInv, S!TypeOK
<1>10. OneRequest'
    BY <1>2, <1>3, <1>9 DEF BrowserInv, OneRequest, S!Busy
<1>11. \A d \in Clients : HoldsToken(d) => HoldsToken(d)'
    BY <1>1, <1>5 DEF HoldsToken, RowsStay
<1>12. Accepted'
    <2> SUFFICES ASSUME NEW d \in Clients, ~disturbed'[d]
                 PROVE  /\ (\A v \in Workers : call'[v].client = d => call'[v].at = "create")
                              => HoldsToken(d)'
                        /\ \A v \in Workers :
                              call'[v].client = d /\ call'[v].at \in {"stamp", "reply"} =>
                                session'[call'[v].row].iat = call'[v].iat
        BY DEF Accepted
    <2>1. ~disturbed[d] /\ (d = c => \A v \in Workers : call[v].client # d)
        BY <1>9 DEF S!Busy
    <2>2. ASSUME \A v \in Workers : call'[v].client = d => call'[v].at = "create"
          PROVE  HoldsToken(d)'
        <3>1. \A v \in Workers : call[v].client = d => call[v].at = "create"
            BY <1>2, <1>3, <1>6, <2>1, <2>2
        <3>2. HoldsToken(d)
            BY <2>1, <3>1 DEF BrowserInv, Accepted
        <3> QED BY <1>11, <3>2
    <2>3. ASSUME NEW v \in Workers, call'[v].client = d, call'[v].at \in {"stamp", "reply"}
          PROVE  session'[call'[v].row].iat = call'[v].iat
        <3>1. v # w /\ call'[v] = call[v]
            BY <1>2, <1>3, <2>3
        <3>2. session[call[v].row].iat = call[v].iat
            BY <2>1, <2>3, <3>1 DEF BrowserInv, Accepted
        <3> QED BY <1>1, <1>4, <3>1, <3>2
    <2> QED BY <2>2, <2>3
<1> QED BY <1>8, <1>10, <1>12 DEF BrowserInv

\* A login's row is new: nobody refers to it yet.
LEMMA CreatesBrowser ==
    ASSUME RowsInv, BrowserInv, NEW w \in Workers, S!LoginCreate(w)
    PROVE  BrowserInv'
<1>1. PICK n \in S!SessionRows :
         /\ ~S!Used(n) /\ S!Used(n)'
         /\ \A s \in S!SessionRows \ {n} : session'[s] = session[s]
         /\ call'[w].client = call[w].client /\ call'[w].at = "store"
         /\ call'[w].row = n
         /\ \A v \in Workers \ {w} : call'[v] = call[v]
    BY CreatesRow
<1>2. UNCHANGED <<jar, disturbed>> /\ call[w].at = "create"
    BY DEF S!LoginCreate, S!history
<1>3. \A d \in Clients : jar[d] # None => jar[d].row \in S!SessionRows
    BY DEF RowsInv, S!TypeOK, S!Token
<1>4. \A v \in Workers : call[v].row \in S!SessionRows
    BY DEF RowsInv, S!TypeOK
<1>5. \A d \in Clients : ~Refers(d, n)
    BY <1>1 DEF BrowserInv, ReferredUsed
<1>6. \A d \in Clients, s \in S!SessionRows :
          Refers(d, s)' => Refers(d, s) \/ (d = call[w].client /\ s = n)
    BY <1>1, <1>2 DEF Refers
<1>7. OneBrowser'
    BY <1>5, <1>6 DEF BrowserInv, OneBrowser
<1>8. ReferredUsed'
    <2>1. \A s \in S!SessionRows : S!Used(s) => S!Used(s)'
        BY <1>1 DEF S!Used
    <2> QED BY <1>1, <1>6, <2>1 DEF BrowserInv, ReferredUsed
<1>9. \A v \in Workers : call'[v].client = call[v].client
    BY <1>1
<1>10. OneRequest'
    BY <1>2, <1>9 DEF BrowserInv, OneRequest
<1>11. Accepted'
    <2> SUFFICES ASSUME NEW d \in Clients, ~disturbed'[d]
                 PROVE  /\ (\A v \in Workers : call'[v].client = d => call'[v].at = "create")
                              => HoldsToken(d)'
                        /\ \A v \in Workers :
                              call'[v].client = d /\ call'[v].at \in {"stamp", "reply"} =>
                                session'[call'[v].row].iat = call'[v].iat
        BY DEF Accepted
    <2>1. ~disturbed[d]
        BY <1>2
    <2>2. ASSUME \A v \in Workers : call'[v].client = d => call'[v].at = "create"
          PROVE  HoldsToken(d)'
        <3>1. \A v \in Workers : call[v].client = d => call[v].at = "create"
            BY <1>1, <1>2, <2>2
        <3>2. HoldsToken(d)
            BY <2>1, <3>1 DEF BrowserInv, Accepted
        <3>3. jar[d] # None => jar[d].row \in S!SessionRows \ {n}
            BY <1>3, <1>5 DEF Refers
        <3> QED BY <1>1, <1>2, <3>2, <3>3 DEF HoldsToken
    <2>3. ASSUME NEW v \in Workers, call'[v].client = d, call'[v].at \in {"stamp", "reply"}
          PROVE  session'[call'[v].row].iat = call'[v].iat
        <3>1. v # w /\ call'[v] = call[v]
            BY <1>1, <2>3
        <3>2. session[call[v].row].iat = call[v].iat
            BY <2>1, <2>3, <3>1 DEF BrowserInv, Accepted
        <3>3. call[v].row \in S!SessionRows \ {n}
            BY <1>4, <1>5, <2>3, <3>1 DEF Refers
        <3> QED BY <1>1, <3>1, <3>2, <3>3
    <2> QED BY <2>2, <2>3
<1> QED BY <1>7, <1>8, <1>10, <1>11 DEF BrowserInv

\* The row that is updated is referred to by the browser of the handler only.
LEMMA StoresBrowser ==
    ASSUME RowsInv, BrowserInv, NEW w \in Workers, Stored(w)
    PROVE  BrowserInv'
<1>1. PICK next \in CallStates :
          /\ next.at \in {"stamp", "reply"} /\ next.client = call[w].client
          /\ next.row = call[w].row /\ next.iat = call[w].iat
          /\ call' = [call EXCEPT ![w] = next]
    BY DEF Stored
<1>2. /\ UNCHANGED <<jar, disturbed>> /\ call[w].at \in {"store", "rotate"}
      /\ session' = S!StoreHash(w)
    BY DEF Stored, S!history
<1>3. call[w].client \in Clients
    BY <1>2 DEF RowsInv, CallKnown
<1>4. \A v \in Workers : call'[v] = IF v = w THEN next ELSE call[v]
    BY <1>1, <1>3, CallTurns DEF ProperCall
<1>5. /\ RowsStay
      /\ \A s \in S!SessionRows :
            session'[s].iat = IF s = call[w].row THEN call[w].iat ELSE session[s].iat
    BY <1>2, HashStored
<1>6. \A d \in Clients : jar[d] # None => jar[d].row \in S!SessionRows
    BY DEF RowsInv, S!TypeOK, S!Token
<1>7. \A v \in Workers : call[v].row \in S!SessionRows
    BY DEF RowsInv, S!TypeOK
<1>8. Refers(call[w].client, call[w].row)
    BY <1>2 DEF Refers
<1>9. RefersFewer
    <2> SUFFICES ASSUME NEW d \in Clients, NEW s \in S!SessionRows, Refers(d, s)'
                 PROVE  Refers(d, s)
        BY DEF RefersFewer
    <2>1. CASE jar'[d] # None /\ jar'[d].row = s
        BY <1>2, <2>1 DEF Refers
    <2>2. ASSUME NEW v \in Workers, call'[v].client = d,
                 call'[v].at \in {"store", "stamp", "rotate", "reply"}, call'[v].row = s
          PROVE  Refers(d, s)
        BY <1>1, <1>4, <1>8, <2>2 DEF Refers
    <2> QED BY <2>1, <2>2 DEF Refers
<1>10. OneBrowser' /\ ReferredUsed'
    BY <1>5, <1>9, FewerReferred
<1>11. \A v \in Workers : call'[v].client = call[v].client
    BY <1>1, <1>4
<1>12. OneRequest'
    BY <1>2, <1>11 DEF BrowserInv, OneRequest
<1>13. Accepted'
    <2> SUFFICES ASSUME NEW d \in Clients, ~disturbed'[d]
                 PROVE  /\ (\A v \in Workers : call'[v].client = d => call'[v].at = "create")
                              => HoldsToken(d)'
                        /\ \A v \in Workers :
                              call'[v].client = d /\ call'[v].at \in {"stamp", "reply"} =>
                                session'[call'[v].row].iat = call'[v].iat
        BY DEF Accepted
    <2>1. ~disturbed[d]
        BY <1>2
    <2>2. ASSUME \A v \in Workers : call'[v].client = d => call'[v].at = "create"
          PROVE  HoldsToken(d)'
        <3>1. call[w].client # d
            BY <1>1, <1>4, <2>2
        <3>2. \A v \in Workers : call[v].client = d => call[v].at = "create"
            BY <1>4, <2>2, <3>1
        <3>3. HoldsToken(d)
            BY <2>1, <3>2 DEF BrowserInv, Accepted
        <3>4. jar[d] # None => jar[d].row \in S!SessionRows /\ jar[d].row # call[w].row
            BY <1>3, <1>6, <1>8, <3>1 DEF Refers, BrowserInv, OneBrowser
        <3> QED BY <1>2, <1>5, <3>3, <3>4 DEF HoldsToken, RowsStay
    <2>3. ASSUME NEW v \in Workers, call'[v].client = d, call'[v].at \in {"stamp", "reply"}
          PROVE  session'[call'[v].row].iat = call'[v].iat
        <3>1. CASE v = w
            BY <1>1, <1>4, <1>5, <1>7, <3>1
        <3>2. CASE v # w
            <4>1. call'[v] = call[v]
                BY <1>4, <3>2
            <4>2. session[call[v].row].iat = call[v].iat
                BY <2>1, <2>3, <4>1 DEF BrowserInv, Accepted
            <4>3. call[w].client # d
                BY <2>1, <2>3, <3>2, <4>1 DEF BrowserInv, OneRequest
            <4>4. call[v].row # call[w].row
                BY <1>3, <1>7, <1>8, <2>3, <4>1, <4>3 DEF Refers, BrowserInv, OneBrowser
            <4> QED BY <1>5, <1>7, <4>1, <4>2, <4>4
        <3> QED BY <3>1, <3>2
    <2> QED BY <2>2, <2>3
<1> QED BY <1>10, <1>12, <1>13 DEF BrowserInv

\* The answer arrives, or never does.
LEMMA EndsBrowser ==
    ASSUME RowsInv, BrowserInv, NEW w \in Workers, EndsCall(w) \/ S!RefreshFails(w)
    PROVE  BrowserInv'
<1> DEFINE c == call[w].client
<1>1. UNCHANGED session /\ call[w].at # "idle"
    BY DEF EndsCall, S!Reply, S!Clear, S!LoginRefused, S!CutShort, S!RefreshFails
<1>2. call[w] \in CallStates /\ c \in Clients
    BY <1>1 DEF RowsInv, S!TypeOK, CallStates, CallKnown
<1>3. PICK next \in CallStates :
         /\ next = S!Idle \/ (S!RefreshFails(w) /\ next.at = "clear" /\ next.client = c)
         /\ ProperCall(next) /\ call' = [call EXCEPT ![w] = next]
    <2>1. CASE EndsCall(w)
        BY <2>1, IdleIsProper DEF EndsCall, S!Reply, S!Clear, S!LoginRefused, S!CutShort
    <2>2. CASE S!RefreshFails(w)
        <3> DEFINE next == [call[w] EXCEPT !.at = "clear"]
        <3>1. next \in CallStates /\ next.at = "clear" /\ next.client = c
            BY <1>2 DEF CallStates
        <3>2. call' = [call EXCEPT ![w] = next]
            BY <2>2 DEF S!RefreshFails, S!Goto
        <3> HIDE DEF next
        <3> QED BY <1>2, <2>2, <3>1, <3>2 DEF ProperCall
    <2> QED BY <2>1, <2>2
<1>4. \A v \in Workers : call'[v] = IF v = w THEN next ELSE call[v]
    BY <1>3, CallTurns
<1>5. next.at \in {"idle", "clear"}
    BY <1>3, IdleIsProper
<1>6. RowsStay
    BY <1>1 DEF RowsStay
<1>7. \A d \in Clients : jar'[d] = jar[d] \/ jar'[d] = None
                         \/ (S!Reply(w) /\ d = c /\ jar'[d] = [row |-> call[w].row, iat |-> call[w].iat, check |-> "valid"])
    BY <1>2 DEF RowsInv, S!TypeOK, EndsCall, S!Reply, S!Clear, S!LoginRefused, S!CutShort, S!RefreshFails
<1>8. \A d \in Clients \ {c} : jar'[d] = jar[d]
    BY <1>2 DEF RowsInv, S!TypeOK, EndsCall, S!Reply, S!Clear, S!LoginRefused, S!CutShort, S!RefreshFails
<1>9. RefersFewer
    <2> SUFFICES ASSUME NEW d \in Clients, NEW s \in S!SessionRows, Refers(d, s)'
                 PROVE  Refers(d, s)
        BY DEF RefersFewer
    <2>1. CASE jar'[d] # None /\ jar'[d].row = s
        <3>1. CASE jar'[d] = jar[d]
            BY <2>1, <3>1 DEF Refers
        <3>2. CASE S!Reply(w) /\ d = c /\ jar'[d] = [row |-> call[w].row, iat |-> call[w].iat, check |-> "valid"]
            BY <2>1, <3>2 DEF Refers, S!Reply
        <3> QED BY <1>7, <2>1, <3>1, <3>2
    <2>2. ASSUME NEW v \in Workers, call'[v].client = d,
                 call'[v].at \in {"store", "stamp", "rotate", "reply"}, call'[v].row = s
          PROVE  Refers(d, s)
        BY <1>4, <1>5, <2>2 DEF Refers
    <2> QED BY <2>1, <2>2 DEF Refers
<1>10. OneBrowser' /\ ReferredUsed'
    BY <1>6, <1>9, FewerReferred
<1>11. \A d \in Clients : ~disturbed'[d] => ~disturbed[d]
    BY <1>2 DEF RowsInv, S!TypeOK, EndsCall, S!Reply, S!Clear, S!LoginRefused, S!CutShort, S!RefreshFails, S!history
<1>12. S!RefreshFails(w) \/ S!CutShort(w) => disturbed'[c]
    BY <1>2 DEF RowsInv, S!TypeOK, S!CutShort, S!RefreshFails
<1>13. \A v \in Workers : \A d \in Clients :
           call'[v].client = d => call[v].client = d
    BY <1>3, <1>4, SignInAssumption DEF S!Idle
<1>14. OneRequest'
    BY <1>11, <1>13 DEF BrowserInv, OneRequest
<1>15. Accepted'
    <2> SUFFICES ASSUME NEW d \in Clients, ~disturbed'[d]
                 PROVE  /\ (\A v \in Workers : call'[v].client = d => call'[v].at = "create")
                              => HoldsToken(d)'
                        /\ \A v \in Workers :
                              call'[v].client = d /\ call'[v].at \in {"stamp", "reply"} =>
                                session'[call'[v].row].iat = call'[v].iat
        BY DEF Accepted
    <2>1. ~disturbed[d]
        BY <1>11
    <2>2. ASSUME \A v \in Workers : call'[v].client = d => call'[v].at = "create"
          PROVE  HoldsToken(d)'
        <3>1. CASE d # c
            <4>1. \A v \in Workers : call[v].client = d => call[v].at = "create"
                BY <1>4, <2>2, <3>1
            <4>2. HoldsToken(d)
                BY <2>1, <4>1 DEF BrowserInv, Accepted
            <4> QED BY <1>1, <1>8, <3>1, <4>2 DEF HoldsToken
        <3>2. CASE d = c
            <4>1. S!Reply(w) \/ S!Clear(w) \/ S!LoginRefused(w)
                BY <1>12, <3>2 DEF EndsCall
            <4>2. CASE S!Reply(w)
                <5>1. session[call[w].row].iat = call[w].iat
                    BY <2>1, <3>2, <4>2 DEF BrowserInv, Accepted, S!Reply
                <5>2. jar'[d] = [row |-> call[w].row, iat |-> call[w].iat, check |-> "valid"]
                    BY <1>2, <3>2, <4>2 DEF S!Reply, RowsInv, S!TypeOK
                <5> QED BY <1>1, <5>1, <5>2 DEF HoldsToken
            <4>3. CASE S!Clear(w)
                <5>1. jar'[d] = None
                    BY <1>2, <3>2, <4>3 DEF S!Clear, RowsInv, S!TypeOK
                <5> QED BY <5>1 DEF HoldsToken
            <4>4. CASE S!LoginRefused(w)
                <5>1. \A v \in Workers : call[v].client = d => call[v].at = "create"
                    BY <2>1, <3>2, <4>4 DEF BrowserInv, OneRequest, S!LoginRefused
                <5>2. HoldsToken(d)
                    BY <2>1, <5>1 DEF BrowserInv, Accepted
                <5> QED BY <1>1, <4>4, <5>2 DEF HoldsToken, S!LoginRefused
            <4> QED BY <4>1, <4>2, <4>3, <4>4
        <3> QED BY <3>1, <3>2
    <2>3. ASSUME NEW v \in Workers, call'[v].client = d, call'[v].at \in {"stamp", "reply"}
          PROVE  session'[call'[v].row].iat = call'[v].iat
        <3>1. call'[v] = call[v]
            BY <1>4, <1>5, <2>3
        <3> QED BY <1>1, <2>1, <2>3, <3>1 DEF BrowserInv, Accepted
    <2> QED BY <2>2, <2>3
<1> QED BY <1>10, <1>14, <1>15 DEF BrowserInv

\* A logout ends sessions; its browser awaits the answer.
LEMMA RevokesBrowser ==
    ASSUME RowsInv, BrowserInv, NEW w \in Workers, S!EndSessions(w)
    PROVE  BrowserInv'
<1>1. PICK next \in CallStates :
         /\ next.at = "clear" /\ next.client = call[w].client
         /\ \A v \in Workers : call'[v] = IF v = w THEN next ELSE call[v]
    BY SessionsEnd
<1>2. /\ RowsStay /\ UNCHANGED <<jar, disturbed>> /\ call[w].client \in Clients
      /\ \A s \in S!SessionRows : session'[s].iat = session[s].iat
    BY SessionsEnd
<1>3. /\ \A d \in Clients : jar[d] # None => jar[d].row \in S!SessionRows
      /\ \A v \in Workers : call[v].row \in S!SessionRows
    BY DEF RowsInv, S!TypeOK, S!Token
<1>4. RefersFewer
    BY <1>1, <1>2 DEF RefersFewer, Refers
<1>5. OneBrowser' /\ ReferredUsed'
    BY <1>2, <1>4, FewerReferred
<1>6. \A v \in Workers : call'[v].client = call[v].client
    BY <1>1
<1>7. OneRequest'
    BY <1>2, <1>6 DEF BrowserInv, OneRequest
<1>8. \A d \in Clients : HoldsToken(d) => HoldsToken(d)'
    BY <1>2, <1>3 DEF HoldsToken, RowsStay
<1>9. Accepted'
    <2> SUFFICES ASSUME NEW d \in Clients, ~disturbed'[d]
                 PROVE  /\ (\A v \in Workers : call'[v].client = d => call'[v].at = "create")
                              => HoldsToken(d)'
                        /\ \A v \in Workers :
                              call'[v].client = d /\ call'[v].at \in {"stamp", "reply"} =>
                                session'[call'[v].row].iat = call'[v].iat
        BY DEF Accepted
    <2>1. ASSUME \A v \in Workers : call'[v].client = d => call'[v].at = "create"
          PROVE  HoldsToken(d)'
        <3>1. \A v \in Workers : call[v].client = d => call[v].at = "create"
            BY <1>1, <2>1
        <3> QED BY <1>2, <1>8, <3>1 DEF BrowserInv, Accepted
    <2>2. ASSUME NEW v \in Workers, call'[v].client = d, call'[v].at \in {"stamp", "reply"}
          PROVE  session'[call'[v].row].iat = call'[v].iat
        <3>1. call'[v] = call[v]
            BY <1>1, <2>2
        <3> QED BY <1>2, <1>3, <2>2, <3>1 DEF BrowserInv, Accepted
    <2> QED BY <2>1, <2>2
<1> QED BY <1>5, <1>7, <1>9 DEF BrowserInv

\* Sessions end and cookies lapse, and no token changes.
LEMMA QuietBrowser ==
    ASSUME RowsInv, BrowserInv, RowsStay, UNCHANGED <<call, disturbed>>,
           \A s \in S!SessionRows : session'[s].iat = session[s].iat,
           JarStays
    PROVE  BrowserInv'
<1>1. RefersFewer
    BY DEF RefersFewer, Refers, JarStays
<1>2. OneBrowser' /\ ReferredUsed'
    BY <1>1, FewerReferred
<1>3. OneRequest'
    BY DEF BrowserInv, OneRequest
<1>4. /\ \A c \in Clients : jar[c] # None => jar[c].row \in S!SessionRows
      /\ \A w \in Workers : call[w].row \in S!SessionRows
    BY DEF RowsInv, S!TypeOK, S!Token
<1>5. \A c \in Clients : HoldsToken(c) => HoldsToken(c)'
    BY <1>4 DEF HoldsToken, RowsStay, JarStays
<1>6. Accepted'
    <2> SUFFICES ASSUME NEW d \in Clients, ~disturbed'[d]
                 PROVE  /\ (\A v \in Workers : call'[v].client = d => call'[v].at = "create")
                              => HoldsToken(d)'
                        /\ \A v \in Workers :
                              call'[v].client = d /\ call'[v].at \in {"stamp", "reply"} =>
                                session'[call'[v].row].iat = call'[v].iat
        BY DEF Accepted
    <2>1. ASSUME \A v \in Workers : call'[v].client = d => call'[v].at = "create"
          PROVE  HoldsToken(d)'
        BY <1>5, <2>1 DEF BrowserInv, Accepted
    <2>2. ASSUME NEW v \in Workers, call'[v].client = d, call'[v].at \in {"stamp", "reply"}
          PROVE  session'[call'[v].row].iat = call'[v].iat
        BY <1>4, <2>2 DEF BrowserInv, Accepted
    <2> QED BY <2>1, <2>2
<1> QED BY <1>2, <1>3, <1>6 DEF BrowserInv

LEMMA BrowserStarts == S!Init => BrowserInv
<1> SUFFICES ASSUME S!Init PROVE BrowserInv
    OBVIOUS
<1>1. /\ \A c \in Clients : jar[c] = None
      /\ \A w \in Workers : call[w].at = "idle" /\ call[w].client = None
    BY IdleIsProper DEF S!Init, ProperCall
<1>2. \A c \in Clients, s \in S!SessionRows : ~Refers(c, s)
    BY <1>1 DEF Refers
<1>3. OneBrowser /\ ReferredUsed
    BY <1>2 DEF OneBrowser, ReferredUsed
<1>4. OneRequest
    BY <1>1, SignInAssumption DEF OneRequest
<1>5. Accepted
    BY <1>1 DEF Accepted, HoldsToken
<1> QED BY <1>3, <1>4, <1>5 DEF BrowserInv

LEMMA BrowserInductive == RowsInv /\ BrowserInv /\ [S!Next]_(S!vars) => BrowserInv'
<1> SUFFICES ASSUME RowsInv, BrowserInv, [S!Next]_(S!vars) PROVE BrowserInv'
    OBVIOUS
<1>1. ASSUME NEW w \in Workers, S!Start(w)
      PROVE  BrowserInv'
    BY <1>1, TakesUpBrowser DEF S!Start
<1>2. ASSUME NEW w \in Workers, S!Proceed(w) \/ S!RefreshFails(w) \/ S!CutShort(w)
      PROVE  BrowserInv'
    BY <1>2, CreatesBrowser, Stores, StoresBrowser, RevokesBrowser, EndsBrowser
       DEF S!Proceed, EndsCall
<1>3. ASSUME NEW a \in S!Accounts, S!ResetPassword(a) \/ S!ResetEnds(a)
      PROVE  BrowserInv'
    BY <1>3, ResetsRows, QuietBrowser DEF JarStays
<1>4. CASE Environment
    BY <1>4, EnvironmentRows, QuietBrowser
<1>5. CASE UNCHANGED S!vars
    BY <1>5, QuietBrowser DEF S!vars, S!history, RowsStay, JarStays
<1> QED BY <1>1, <1>2, <1>3, <1>4, <1>5 DEF S!Next, Environment

\* The refresh cookie of a browser whose requests were answered one at a time is
\* the token its session row accepts (login, refresh, storeRefreshHash).
THEOREM KeepsSession == S!Spec => []S!BrowserKeepsSession
<1>1. BrowserInv => S!BrowserKeepsSession
    <2> SUFFICES ASSUME BrowserInv, NEW c \in Clients, ~disturbed[c], ~S!Busy(c)
                 PROVE  HoldsToken(c)
        BY DEF S!BrowserKeepsSession, HoldsToken
    <2> QED BY DEF BrowserInv, Accepted, S!Busy
<1>2. S!Init => RowsInv /\ BrowserInv
    BY RowsStart, BrowserStarts
<1>3. (RowsInv /\ BrowserInv) /\ [S!Next]_(S!vars) => (RowsInv /\ BrowserInv)'
    BY RowsInductive, BrowserInductive
<1> QED BY <1>1, <1>2, <1>3, PTL DEF S!Spec

\* Every variable keeps its type (login, refresh, logout and their handlers).
THEOREM SessionsTypeCorrect == S!Spec => []S!TypeOK
<1>1. RowsInv => S!TypeOK
    BY DEF RowsInv
<1> QED BY <1>1, RowsStart, RowsInductive, PTL DEF S!Spec

LEMMA SessionsSide == ServicesSpec => S!Spec
<1>1. ServicesInit => S!Init
    BY DEF ServicesInit
<1>2. [ServicesNext]_allvars => [S!Next]_(S!vars)
    BY DEF ServicesNext, allvars, electionVars, sessionVars, resetVars, activityVars,
           promotionVars, membershipVars, approvalVars, S!vars, S!history
<1> QED BY <1>1, <1>2, PTL DEF ServicesSpec, S!Spec

\* A password reset ends every session made before it, but for those a login
\* inserts between the reset's update of the sessions and its COMMIT, in the
\* services side by side (resetPassword).
THEOREM ResetsEndSessions == ServicesSpec => []ResetEndsSessions
BY SessionsSide, ResetEnds, PTL DEF ResetEndsSessions

\* A revoked session stays revoked, in the services side by side (revoke).
THEOREM RevokedStays == ServicesSpec => RevokedForGood
BY SessionsSide, NoneRevived, PTL DEF RevokedForGood

\* A browser that was answered in order keeps a session its cookie opens, in the
\* services side by side (refresh, storeRefreshHash).
THEOREM BrowsersKeepSession == ServicesSpec => []BrowserKeepsSession
BY SessionsSide, KeepsSession, PTL DEF BrowserKeepsSession
============================================================================
