------------------------------ MODULE Sessions ------------------------------
(***************************************************************************)
(* Sign-in sessions: login, refresh with a rotated token, logout and the   *)
(* ways to revoke a session, over the session rows and the refresh cookie  *)
(* of each browser.                                                        *)
(*                                                                         *)
(* A refresh token names its row and the second it was signed in; the row  *)
(* keeps a hash that only the last token stored matches.  A worker runs    *)
(* one handler; its steps are the handler's awaits on the database, and    *)
(* the browser has the answer only at the last one.                        *)
(***************************************************************************)
EXTENDS Integers

CONSTANTS
    Clients,     \* the browsers (a browser per application of the user)
    Account,     \* whose browser it is
    Application, \* the application it runs: "USER" or one of the dashboards
    MaxRows,     \* bound: session rows, 1..MaxRows in the order of creation
    SignInWorkers, \* handlers running at the same time
    None,        \* no token, no client, a hash that is the placeholder 'pending'
    MaxTime,     \* bound: seconds
    MaxEvents    \* bound: password resets, sessions and tokens that expire,
                 \* changes of the secret and handlers cut short, all together

VARIABLES
    session,   \* the row of each session
    jar,       \* the refresh cookie of each browser
    password,  \* the version of each account's password
    call,      \* what each worker is doing
    reset,     \* the open transaction of each account's password reset
    clock,     \* seconds
    disturbed, \* browsers that had two requests at once, or one cut short
    unlisted,  \* rows inserted after an open reset had listed its account's rows
    mishaps,   \* handlers cut short
    events     \* everything MaxEvents bounds

history == <<disturbed, unlisted, mishaps, events>>
vars == <<session, jar, password, call, reset, clock, history>>

SessionRows == 1..MaxRows
Accounts == {Account[c] : c \in Clients}

\* A cookie's token: its row, the second it was signed, and what verifying it
\* says.
Token == [row : SessionRows, iat : 0..MaxTime,
          check : {"valid", "expired", "invalid"}]

\* A row: whose it is, the application, the second of the token whose hash it
\* holds, whether it is active, past its expiresAt, the password versions at
\* the check of the password and at its creation.
UnusedRow == [account |-> None, application |-> "USER", iat |-> None,
              live |-> FALSE, expired |-> FALSE, checked |-> 0, made |-> 0]
Idle == [at |-> "idle", client |-> None, row |-> 1, iat |-> 0, checked |-> 0,
         ends |-> {}]
NoReset == [open |-> FALSE, rows |-> {}]

Busy(c) == \E w \in SignInWorkers : call[w].client = c
Used(s) == session[s].account # None
NextRow == CHOOSE s \in SessionRows : ~Used(s) /\ \A r \in 1..(s - 1) : Used(r)

\* A reset's update has the row locked until it commits: a write to it waits.
Locked(s) == \E a \in Accounts : s \in reset[a].rows

\* A browser's request is taken up; one that overlaps another of the browser
\* disturbs it.
TakeUp(w, c) ==
    /\ call[w].at = "idle"
    /\ disturbed' = IF Busy(c) THEN [disturbed EXCEPT ![c] = TRUE] ELSE disturbed
Happens == events < MaxEvents /\ events' = events + 1
Goto(w, point) == call' = [call EXCEPT ![w].at = point]
Revoked(rows) ==
    [s \in SessionRows |-> IF s \in rows THEN [session[s] EXCEPT !.live = FALSE]
                                         ELSE session[s]]

----------------------------------------------------------------------------
(* login and adminLogin *)

\* The user is read and the password verified.
LoginRead(w, c) ==
    /\ TakeUp(w, c)
    /\ call' = [call EXCEPT ![w] = [Idle EXCEPT
           !.at = "create", !.client = c, !.checked = password[Account[c]]]]
    /\ UNCHANGED <<session, jar, password, reset, clock, unlisted, mishaps, events>>

\* refreshTokenHash is unique: of all rows only one may hold the placeholder.
PlaceholderTaken == \E s \in SessionRows : Used(s) /\ session[s].iat = None

\* The row is created with a placeholder, then the token that names it signed.
\* An open reset of the account does not keep the insert out, for it changes no
\* key of the user's row, and no longer finds the new row.
LoginCreate(w) ==
    LET c == call[w].client
        s == NextRow
    IN  /\ call[w].at = "create"
        /\ ~PlaceholderTaken
        /\ ~Used(MaxRows)
        /\ session' = [session EXCEPT ![s] =
               [account |-> Account[c], application |-> Application[c],
                iat |-> None, live |-> TRUE, expired |-> FALSE,
                checked |-> call[w].checked, made |-> password[Account[c]]]]
        /\ call' = [call EXCEPT ![w].at = "store", ![w].row = s, ![w].iat = clock]
        /\ unlisted' = IF reset[Account[c]].open THEN unlisted \cup {s} ELSE unlisted
        /\ UNCHANGED <<jar, password, reset, clock, disturbed, mishaps, events>>

\* The insert breaks the unique index: the login fails.
LoginRefused(w) ==
    /\ call[w].at = "create"
    /\ PlaceholderTaken
    /\ call' = [call EXCEPT ![w] = Idle]
    /\ UNCHANGED <<session, jar, password, reset, clock, history>>

\* Mutant: the update makes the row active again.
StoreHashAndRevive(w) ==
    [session EXCEPT ![call[w].row].iat = call[w].iat, ![call[w].row].live = TRUE]

\* The row is updated by its id, whatever has happened to it since.
StoreHash(w) == [session EXCEPT ![call[w].row].iat = call[w].iat]

\* Mutant: only a row that is still active is updated.
StoreIfActive(w) ==
    /\ call[w].at = "store"
    /\ ~Locked(call[w].row)
    /\ session' = IF session[call[w].row].live THEN StoreHash(w) ELSE session
    /\ Goto(w, "stamp")
    /\ UNCHANGED <<jar, password, reset, clock, history>>

LoginStore(w) ==
    /\ call[w].at = "store"
    /\ ~Locked(call[w].row)
    /\ session' = StoreHash(w)
    /\ Goto(w, "stamp")
    /\ UNCHANGED <<jar, password, reset, clock, history>>

\* The answer sets the cookie.  A login first updates the user's lastLoginAt,
\* for which it waits until no reset has the user's row.
Reply(w) ==
    LET c == call[w].client
    IN  /\ \/ call[w].at = "reply"
           \/ call[w].at = "stamp" /\ ~reset[Account[c]].open
        /\ jar' = [jar EXCEPT ![c] = [row |-> call[w].row, iat |-> call[w].iat,
                                       check |-> "valid"]]
        /\ call' = [call EXCEPT ![w] = Idle]
        /\ UNCHANGED <<session, password, reset, clock, history>>

----------------------------------------------------------------------------
(* refresh *)

\* The session a browser's token refreshes: the row it names, active, not
\* expired, of the same application and with its hash.  (The other sessions are
\* tried too; no hash of theirs matches.)  A token that does not verify names no
\* row, but unless it has expired its hash is looked for among all sessions;
\* for a dashboard it is refused, being of no application.
Refreshes(c) ==
    LET s == session[jar[c].row]
    IN  /\ \/ jar[c].check = "valid"
           \/ jar[c].check = "invalid" /\ Application[c] = "USER"
        /\ s.live /\ ~s.expired /\ s.iat = jar[c].iat

\* The checks pass; a new token is signed.
RefreshRead(w, c) ==
    /\ TakeUp(w, c)
    /\ jar[c] # None
    /\ Refreshes(c)
    /\ call' = [call EXCEPT ![w] = [Idle EXCEPT
           !.at = "rotate", !.client = c, !.row = jar[c].row, !.iat = clock]]
    /\ UNCHANGED <<session, jar, password, reset, clock, unlisted, mishaps, events>>

\* A refusal clears the cookie.
RefreshRefused(w, c) ==
    /\ TakeUp(w, c)
    /\ jar[c] # None
    /\ ~Refreshes(c)
    /\ call' = [call EXCEPT ![w] = [Idle EXCEPT !.at = "clear", !.client = c]]
    /\ UNCHANGED <<session, jar, password, reset, clock, unlisted, mishaps, events>>

\* Mutant: the hash of the new token is not stored.
RotateWithoutStore(w) ==
    /\ call[w].at = "rotate"
    /\ jar' = [jar EXCEPT ![call[w].client] =
                  [row |-> call[w].row, iat |-> call[w].iat, check |-> "valid"]]
    /\ call' = [call EXCEPT ![w] = Idle]
    /\ UNCHANGED <<session, password, reset, clock, history>>

RefreshStore(w) ==
    /\ call[w].at = "rotate"
    /\ ~Locked(call[w].row)
    /\ session' = StoreHash(w)
    /\ Goto(w, "reply")
    /\ UNCHANGED <<jar, password, reset, clock, history>>

\* An error of any kind, of the database too, clears the cookie.
RefreshFails(w) ==
    /\ call[w].at = "rotate"
    /\ Happens
    /\ mishaps' = mishaps + 1
    /\ disturbed' = [disturbed EXCEPT ![call[w].client] = TRUE]
    /\ Goto(w, "clear")
    /\ UNCHANGED <<session, jar, password, reset, clock, unlisted>>

Clear(w) ==
    /\ call[w].at = "clear"
    /\ jar' = [jar EXCEPT ![call[w].client] = None]
    /\ call' = [call EXCEPT ![w] = Idle]
    /\ UNCHANGED <<session, password, reset, clock, history>>

----------------------------------------------------------------------------
(* Logout and revocation *)

\* The active sessions a logout finds by the token's user.  The payload of a
\* token that does not verify has neither user nor session, and a filter whose
\* value is undefined is left out of the query: then every user's.
Found(c) ==
    {s \in SessionRows :
        /\ session[s].live
        /\ jar[c].check = "valid" => session[s].account = Account[c]}

\* The session of the token, or else one of those found (the last used): for a
\* dashboard one of the same application.
InScope(c, s) == Application[c] # "USER" => session[s].application = Application[c]
LogoutTargets(c) ==
    LET own == IF jar[c].check = "valid" THEN Found(c) \cap {jar[c].row} ELSE {}
    IN  IF own # {} THEN own ELSE {s \in Found(c) : InScope(c, s)}

\* logout: the session is looked up.
Logout(w, c) ==
    /\ TakeUp(w, c)
    /\ jar[c] # None
    /\ \E ends \in SUBSET LogoutTargets(c) :
          /\ IF LogoutTargets(c) = {} THEN ends = {} ELSE \E s \in ends : ends = {s}
          /\ call' = [call EXCEPT ![w] =
                         [Idle EXCEPT !.at = "end", !.client = c, !.ends = ends]]
    /\ UNCHANGED <<session, jar, password, reset, clock, unlisted, mishaps, events>>

\* logoutAll: every session of the user, whatever the application.
LogoutAll(w, c) ==
    /\ TakeUp(w, c)
    /\ Application[c] = "USER"
    /\ jar[c] # None
    /\ call' = [call EXCEPT ![w] =
                   [Idle EXCEPT !.at = "end", !.client = c, !.ends = Found(c)]]
    /\ UNCHANGED <<session, jar, password, reset, clock, unlisted, mishaps, events>>

\* The sessions a logout has found are revoked.
EndSessions(w) ==
    /\ call[w].at = "end"
    /\ \A s \in call[w].ends : ~Locked(s)
    /\ session' = Revoked(call[w].ends)
    /\ call' = [call EXCEPT ![w].at = "clear", ![w].ends = {}]
    /\ UNCHANGED <<jar, password, reset, clock, history>>

\* A user ends one of the sessions in the list.
RevokeSession(s) ==
    /\ session[s].live /\ ~Locked(s)
    /\ session' = Revoked({s})
    /\ UNCHANGED <<jar, password, call, reset, clock, history>>

\* An administrator ends all of them.
RevokeAllSessions(a) ==
    /\ \E s \in SessionRows : session[s].live /\ session[s].account = a
    /\ \A s \in SessionRows : session[s].account = a => ~Locked(s)
    /\ session' = Revoked({s \in SessionRows : session[s].account = a})
    /\ UNCHANGED <<jar, password, call, reset, clock, history>>

\* Mutant: the sessions that are still being made are left alone.
ResetStored(a) ==
    {s \in SessionRows : session[s].account = a /\ session[s].live /\ session[s].iat # None}

ResetRows(a) == {s \in SessionRows : session[s].account = a /\ session[s].live}

\* The transaction of resetPassword has the user's row and updates the active
\* sessions it finds; nobody sees any of it yet.
ResetPassword(a) ==
    /\ ~reset[a].open
    /\ Happens
    /\ reset' = [reset EXCEPT ![a] = [open |-> TRUE, rows |-> ResetRows(a)]]
    /\ UNCHANGED <<session, jar, password, call, clock, disturbed, unlisted, mishaps>>

\* Its COMMIT: the new password, and those sessions revoked.
ResetCommit(a) ==
    /\ reset[a].open
    /\ password' = [password EXCEPT ![a] = @ + 1]
    /\ session' = Revoked(reset[a].rows)
    /\ reset' = [reset EXCEPT ![a] = NoReset]
    /\ UNCHANGED <<jar, call, clock, history>>

\* It fails, or runs out of time, and is rolled back.
ResetRollsBack(a) ==
    /\ reset[a].open
    /\ reset' = [reset EXCEPT ![a] = NoReset]
    /\ UNCHANGED <<session, jar, password, call, clock, history>>

----------------------------------------------------------------------------
(* Time and failures *)

Tick ==
    /\ clock < MaxTime
    /\ clock' = clock + 1
    /\ UNCHANGED <<session, jar, password, call, reset, history>>

\* A row's expiresAt, 30 days (a day for a dashboard) after its creation.
SessionExpires(s) ==
    /\ Happens
    /\ Used(s) /\ ~session[s].expired
    /\ session' = [session EXCEPT ![s].expired = TRUE]
    /\ UNCHANGED <<jar, password, call, reset, clock, disturbed, unlisted, mishaps>>

\* A token and its cookie have the same lifetime, the token's starting when it
\* is signed and the cookie's when the answer arrives: the token goes first.
TokenExpires(c) ==
    /\ Happens
    /\ jar[c] # None /\ jar[c].check = "valid"
    /\ jar' = [jar EXCEPT ![c].check = "expired"]
    /\ UNCHANGED <<session, password, call, reset, clock, disturbed, unlisted, mishaps>>

CookieLapses(c) ==
    /\ jar[c] # None /\ jar[c].check # "valid"
    /\ jar' = [jar EXCEPT ![c] = None]
    /\ UNCHANGED <<session, password, call, reset, clock, history>>

\* The service is started with another secret for its tokens.
SecretChanges ==
    /\ Happens
    /\ \E c \in Clients : jar[c] # None
    /\ \A w \in SignInWorkers : call[w].at = "idle"
    /\ jar' = [c \in Clients |-> IF jar[c] = None THEN None
                                 ELSE [jar[c] EXCEPT !.check = "invalid"]]
    /\ UNCHANGED <<session, password, call, reset, clock, disturbed, unlisted, mishaps>>

\* The process stops, or the answer is lost on its way to the browser.
CutShort(w) ==
    /\ call[w].at # "idle"
    /\ Happens
    /\ mishaps' = mishaps + 1
    /\ disturbed' = [disturbed EXCEPT ![call[w].client] = TRUE]
    /\ call' = [call EXCEPT ![w] = Idle]
    /\ UNCHANGED <<session, jar, password, reset, clock, unlisted>>

----------------------------------------------------------------------------
Init ==
    /\ session = [s \in SessionRows |-> UnusedRow]
    /\ jar = [c \in Clients |-> None]
    /\ password = [a \in Accounts |-> 0]
    /\ call = [w \in SignInWorkers |-> Idle]
    /\ reset = [a \in Accounts |-> NoReset]
    /\ clock = 0
    /\ disturbed = [c \in Clients |-> FALSE]
    /\ unlisted = {}
    /\ mishaps = 0
    /\ events = 0

Start(w) ==
    \E c \in Clients :
        LoginRead(w, c) \/ RefreshRead(w, c) \/ RefreshRefused(w, c)
          \/ Logout(w, c) \/ LogoutAll(w, c)

\* The steps of a handler that is under way.
Proceed(w) ==
    \/ LoginCreate(w) \/ LoginRefused(w) \/ LoginStore(w)
    \/ RefreshStore(w) \/ EndSessions(w) \/ Reply(w) \/ Clear(w)

\* A reset under way commits or is rolled back.
ResetEnds(a) == ResetCommit(a) \/ ResetRollsBack(a)

Next ==
    \/ \E w \in SignInWorkers :
          Start(w) \/ Proceed(w) \/ RefreshFails(w) \/ CutShort(w)
    \/ \E s \in SessionRows : RevokeSession(s) \/ SessionExpires(s)
    \/ \E a \in Accounts :
          RevokeAllSessions(a) \/ ResetPassword(a) \/ ResetEnds(a)
    \/ \E c \in Clients : TokenExpires(c) \/ CookieLapses(c)
    \/ Tick \/ SecretChanges

Spec == Init /\ [][Next]_vars

\* The event loop runs every handler on to its next await, and a transaction
\* that does not commit is rolled back after its timeout.
FairSpec ==
    /\ Spec
    /\ \A w \in SignInWorkers : WF_vars(Proceed(w))
    /\ \A a \in Accounts : WF_vars(ResetEnds(a))

----------------------------------------------------------------------------
(* Properties *)

TypeOK ==
    /\ session \in [SessionRows -> [account : Accounts \cup {None},
           application : {"USER", "ORGANIZATION_ADMIN", "PLATFORM_ADMIN"},
           iat : 0..MaxTime \cup {None}, live : BOOLEAN, expired : BOOLEAN,
           checked : Nat, made : Nat]]
    /\ jar \in [Clients -> Token \cup {None}]
    /\ password \in [Accounts -> Nat]
    /\ call \in [SignInWorkers ->
           [at : {"idle", "create", "store", "stamp", "rotate", "reply", "end", "clear"},
            client : Clients \cup {None}, row : SessionRows,
            iat : 0..MaxTime, checked : Nat, ends : SUBSET SessionRows]]
    /\ reset \in [Accounts -> [open : BOOLEAN, rows : SUBSET SessionRows]]
    /\ clock \in 0..MaxTime
    /\ disturbed \in [Clients -> BOOLEAN]
    /\ unlisted \subseteq SessionRows
    /\ mishaps \in 0..events
    /\ events \in 0..MaxEvents

\* A browser whose requests never overlap and never fail, with none under way
\* and a session nobody has revoked, holds the token the row will accept:
\* no other device's login, refresh or logout rotates it away (refresh).
BrowserKeepsSession ==
    \A c \in Clients :
        jar[c] # None /\ ~disturbed[c] /\ ~Busy(c) /\ session[jar[c].row].live
          => session[jar[c].row].iat = jar[c].iat

\* No active session is older than its account's last password reset, although
\* a handler that was under way stores its token afterwards (resetPassword),
\* but for a row inserted between the reset's update of the sessions and its
\* COMMIT.
ResetEndsSessions ==
    \A s \in SessionRows :
        session[s].live /\ s \notin unlisted
          => session[s].made = password[session[s].account]

\* Counterexample: no active session is older than the last reset.
ResetEndsAll ==
    \A s \in SessionRows :
        session[s].live => session[s].made = password[session[s].account]

\* A row that is revoked stays revoked: a login or refresh that read it before
\* only changes its hash (update by id in login and refresh).
RevokedForGood ==
    [][\A s \in SessionRows :
          Used(s) /\ ~session[s].live => ~session'[s].live]_vars

\* The placeholder that keeps every other login out is gone before long, as
\* long as no handler is cut short (login: 'pending' until the token is hashed).
PlaceholderClears ==
    PlaceholderTaken ~> (~PlaceholderTaken \/ mishaps > 0)

\* Counterexample: it is gone before long.
PlaceholderAlwaysClears == PlaceholderTaken ~> ~PlaceholderTaken

\* Counterexample: a logout ends the browser's own session only
\* (docs/dashboard-auth-isolation.md: only the current dashboard session).
LogoutIsScoped ==
    [][\A w \in SignInWorkers, c \in Clients :
          Logout(w, c) => call'[w].ends \subseteq {jar[c].row}]_vars

\* Counterexample: a logout ends sessions of its own user only (logoutAll is
\* of "all devices").
LogoutIsOwn ==
    \A w \in SignInWorkers : \A s \in call[w].ends :
        session[s].account = Account[call[w].client]

\* Counterexample: an active session was opened with the current password.
SessionHasPassword ==
    \A s \in SessionRows :
        session[s].live => session[s].checked = password[session[s].account]

\* Counterexample: with no failures a browser keeps its session, even when two
\* of its tabs refresh at once.
TabsKeepSession ==
    \A c \in Clients :
        jar[c] # None /\ mishaps = 0 /\ ~Busy(c) /\ session[jar[c].row].live
          => session[jar[c].row].iat = jar[c].iat
=============================================================================
