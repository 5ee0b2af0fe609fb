--------------------------- MODULE Registrations ---------------------------
(***************************************************************************)
(* One activity: its status and capacity, the registrations of the users,  *)
(* one row for each at most, and who has been checked in.                  *)
(*                                                                         *)
(* A handler reads the activity, then the registrations, and writes a few  *)
(* awaits later.  Only confirmed registrations count, and the count is     *)
(* taken outside the transaction that adds a row.                          *)
(***************************************************************************)
EXTENDS Integers, FiniteSets

CONSTANTS
    Attendees,  \* the users who register
    Capacities, \* the capacities an officer may set; None is no limit
    Desks,      \* handlers running at one time
    None        \* no capacity, no user

VARIABLES
    activity,     \* the row of the activity
    registration, \* the status of each user's row, "none" without a row
    attendance,   \* users whose row has an attendance row
    desk,         \* what each handler is doing
    unplanned,    \* users whose seat no count has seen: confirmed by hand, or
                  \* registered while the seats or the activity changed
    largest       \* the largest capacity the activity has had

vars == <<activity, registration, attendance, desk, unplanned, largest>>

Statuses == {"DRAFT", "PUBLISHED", "CANCELLED", "COMPLETED"}
RowStatuses == {"none", "PENDING", "CONFIRMED", "CANCELLED"}
NoDesk == [at |-> "idle", user |-> None, free |-> TRUE, limit |-> None, stale |-> FALSE]

Limits == Capacities \cup {None}
Confirmed == {u \in Attendees : registration[u] = "CONFIRMED"}
Rows == {u \in Attendees : registration[u] # "none"}
Larger(m, n) == IF m = None \/ n = None THEN None ELSE IF m < n THEN n ELSE m

\* The handler d goes on, or is done; the other registrations under way have
\* read seats or an activity that have changed since.
Others(d, next) == [e \in Desks |-> IF e = d THEN next ELSE [desk[e] EXCEPT !.stale = TRUE]]
Goto(d, next) == desk' = [desk EXCEPT ![d] = next]

----------------------------------------------------------------------------
(* Officers: updateActivity, publishActivity, deleteActivity *)

UpdateRead(d) ==
    /\ desk[d].at = "idle"
    /\ activity.exists /\ activity.status \notin {"COMPLETED", "CANCELLED"}
    /\ Goto(d, [NoDesk EXCEPT !.at = "update"])
    /\ UNCHANGED <<activity, registration, attendance, unplanned, largest>>

\* Any status, capacity and price; the row is written whatever it is by now.
UpdateWrite(d) ==
    /\ desk[d].at = "update"
    /\ activity.exists
    /\ \E s \in Statuses, n \in Limits, free \in BOOLEAN :
          /\ activity' = [activity EXCEPT !.status = s, !.limit = n, !.free = free]
          /\ largest' = Larger(largest, n)
    /\ desk' = Others(d, NoDesk)
    /\ UNCHANGED <<registration, attendance, unplanned>>

PublishRead(d) ==
    /\ desk[d].at = "idle"
    /\ activity.exists /\ activity.status # "PUBLISHED"
    /\ Goto(d, [NoDesk EXCEPT !.at = "publish"])
    /\ UNCHANGED <<activity, registration, attendance, unplanned, largest>>

PublishWrite(d) ==
    /\ desk[d].at = "publish"
    /\ activity.exists
    /\ activity' = [activity EXCEPT !.status = "PUBLISHED"]
    /\ Goto(d, NoDesk)
    /\ UNCHANGED <<registration, attendance, unplanned, largest>>

\* Mutant: only confirmed registrations keep an activity from deletion.
DeleteReadConfirmed(d) ==
    /\ desk[d].at = "idle"
    /\ activity.exists /\ Confirmed = {}
    /\ Goto(d, [NoDesk EXCEPT !.at = "delete"])
    /\ UNCHANGED <<activity, registration, attendance, unplanned, largest>>

DeleteRead(d) ==
    /\ desk[d].at = "idle"
    /\ activity.exists /\ Rows = {}
    /\ Goto(d, [NoDesk EXCEPT !.at = "delete"])
    /\ UNCHANGED <<activity, registration, attendance, unplanned, largest>>

\* Registrations and attendance go with the row, those made since too.
DeleteWrite(d) ==
    /\ desk[d].at = "delete"
    /\ activity.exists
    /\ activity' = [activity EXCEPT !.exists = FALSE]
    /\ registration' = [u \in Attendees |-> "none"]
    /\ attendance' = {}
    /\ desk' = Others(d, NoDesk)
    /\ UNCHANGED <<unplanned, largest>>

----------------------------------------------------------------------------
(* registerForActivity *)

\* The activity is published; whether it has started is left open.
RegisterRead(d, u) ==
    /\ desk[d].at = "idle"
    /\ activity.exists /\ activity.status = "PUBLISHED"
    /\ Goto(d, [at |-> "count", user |-> u, free |-> activity.free,
                limit |-> activity.limit, stale |-> FALSE])
    /\ UNCHANGED <<activity, registration, attendance, unplanned, largest>>

\* Mutant: the seat that is asked for is not counted.
HasRoomBefore(n) == n = None \/ Cardinality(Confirmed) <= n

\* One seat is asked for (quantity is 1).
HasRoom(n) == n = None \/ Cardinality(Confirmed) + 1 <= n

\* Seats are counted, then an earlier registration is looked for.
RegisterCount(d) ==
    /\ desk[d].at = "count"
    /\ Goto(d, IF HasRoom(desk[d].limit)
                 THEN [desk[d] EXCEPT !.at = "existing"] ELSE NoDesk)
    /\ UNCHANGED <<activity, registration, attendance, unplanned, largest>>

RegisterExisting(d) ==
    /\ desk[d].at = "existing"
    /\ Goto(d, IF registration[desk[d].user] \in {"none", "CANCELLED"}
                 THEN [desk[d] EXCEPT !.at = "insert"] ELSE NoDesk)
    /\ UNCHANGED <<activity, registration, attendance, unplanned, largest>>

\* The transaction inserts the row; a row of the user, a cancelled one too,
\* breaks the unique index, and a deleted activity the foreign key.
RegisterInsert(d) ==
    LET u == desk[d].user
    IN  /\ desk[d].at = "insert"
        /\ activity.exists /\ registration[u] = "none"
        /\ registration' = [registration EXCEPT ![u] =
                               IF desk[d].free THEN "CONFIRMED" ELSE "PENDING"]
        /\ unplanned' = IF desk[d].stale THEN unplanned \cup {u} ELSE unplanned
        /\ desk' = Others(d, NoDesk)
        /\ UNCHANGED <<activity, attendance, largest>>

----------------------------------------------------------------------------
(* confirmRegistration, cancelRegistration, checkInAttendee *)

\* A cancelled registration may be confirmed.
ConfirmRead(d, u) ==
    /\ desk[d].at = "idle"
    /\ registration[u] \in {"PENDING", "CANCELLED"}
    /\ Goto(d, [NoDesk EXCEPT !.at = "confirm", !.user = u])
    /\ UNCHANGED <<activity, registration, attendance, unplanned, largest>>

\* Seats are not counted.
ConfirmWrite(d) ==
    LET u == desk[d].user
    IN  /\ desk[d].at = "confirm"
        /\ registration[u] # "none"
        /\ registration' = [registration EXCEPT ![u] = "CONFIRMED"]
        /\ unplanned' = unplanned \cup {u}
        /\ desk' = Others(d, NoDesk)
        /\ UNCHANGED <<activity, attendance, largest>>

CancelRead(d, u) ==
    /\ desk[d].at = "idle"
    /\ registration[u] \in {"PENDING", "CONFIRMED"}
    /\ Goto(d, [NoDesk EXCEPT !.at = "cancel", !.user = u])
    /\ UNCHANGED <<activity, registration, attendance, unplanned, largest>>

CancelWrite(d) ==
    /\ desk[d].at = "cancel"
    /\ registration[desk[d].user] # "none"
    /\ registration' = [registration EXCEPT ![desk[d].user] = "CANCELLED"]
    /\ Goto(d, NoDesk)
    /\ UNCHANGED <<activity, attendance, unplanned, largest>>

\* Mutant: any registration may be checked in.
CheckInAny(d, u) ==
    /\ desk[d].at = "idle"
    /\ registration[u] # "none"
    /\ Goto(d, [NoDesk EXCEPT !.at = "checkin", !.user = u])
    /\ UNCHANGED <<activity, registration, attendance, unplanned, largest>>

CheckInRead(d, u) ==
    /\ desk[d].at = "idle"
    /\ registration[u] = "CONFIRMED"
    /\ Goto(d, [NoDesk EXCEPT !.at = "checkin", !.user = u])
    /\ UNCHANGED <<activity, registration, attendance, unplanned, largest>>

\* One attendance row for each registration; checkOutAttendee only sets a time.
CheckInInsert(d) ==
    LET u == desk[d].user
    IN  /\ desk[d].at = "checkin"
        /\ registration[u] # "none" /\ u \notin attendance
        /\ attendance' = attendance \cup {u}
        /\ Goto(d, NoDesk)
        /\ UNCHANGED <<activity, registration, unplanned, largest>>

\* A handler fails: the write is refused by the database, or the process stops.
DeskStops(d) ==
    /\ desk[d].at # "idle"
    /\ Goto(d, NoDesk)
    /\ UNCHANGED <<activity, registration, attendance, unplanned, largest>>

----------------------------------------------------------------------------
\* createActivity publishes the activity, unless it is given another status.
Init ==
    /\ \E s \in Statuses, n \in Limits, free \in BOOLEAN :
          /\ activity = [exists |-> TRUE, status |-> s, limit |-> n, free |-> free]
          /\ largest = n
    /\ registration = [u \in Attendees |-> "none"]
    /\ attendance = {}
    /\ desk = [d \in Desks |-> NoDesk]
    /\ unplanned = {}

DeskStep(d) ==
    \/ UpdateRead(d) \/ UpdateWrite(d) \/ PublishRead(d) \/ PublishWrite(d)
    \/ DeleteRead(d) \/ DeleteWrite(d)
    \/ \E u \in Attendees :
          RegisterRead(d, u) \/ ConfirmRead(d, u) \/ CancelRead(d, u) \/ CheckInRead(d, u)
    \/ RegisterCount(d) \/ RegisterExisting(d) \/ RegisterInsert(d)
    \/ ConfirmWrite(d) \/ CancelWrite(d) \/ CheckInInsert(d) \/ DeskStops(d)

Next == \E d \in Desks : DeskStep(d)

Spec == Init /\ [][Next]_vars

----------------------------------------------------------------------------
(* Properties *)

TypeOK ==
    /\ activity \in [exists : BOOLEAN, status : Statuses, limit : Limits, free : BOOLEAN]
    /\ registration \in [Attendees -> RowStatuses]
    /\ attendance \subseteq Attendees
    /\ desk \in [Desks ->
           [at : {"idle", "update", "publish", "delete", "count", "existing",
                  "insert", "confirm", "cancel", "checkin"},
            user : Attendees \cup {None}, free : BOOLEAN, limit : Limits,
            stale : BOOLEAN]]
    /\ unplanned \subseteq Attendees
    /\ largest \in Limits

\* Seats are not given twice: those who registered while nothing changed and
\* were not confirmed by hand fit the largest capacity there has been
\* (registerForActivity counts outside its transaction).
SeatsAreCounted ==
    largest # None => Cardinality(Confirmed \ unplanned) <= largest

\* Everyone checked in has, or had and cancelled, a confirmed registration:
\* no row goes back to pending and none is removed on its own
\* (checkInAttendee, cancelRegistration).
AttendeesWereConfirmed ==
    \A u \in attendance : registration[u] \in {"CONFIRMED", "CANCELLED"}

\* A registration is lost with its activity only if it was made while the
\* deletion was under way (deleteActivity).
DeletionSparesRegistrations ==
    [][activity.exists /\ ~activity'.exists /\ Rows # {}
         => \E d \in Desks :
               desk[d].at = "delete" /\ desk[d].stale /\ desk'[d].at = "idle"]_vars

\* Counterexample: no more seats than the activity's largest capacity.
NeverOverbooked ==
    largest # None => Cardinality(Confirmed) <= largest

\* Counterexample: a user without a live registration gets past the insert.
CancelledMayReturn ==
    [][\A d \in Desks : RegisterExisting(d) /\ desk'[d].at = "insert"
          => registration[desk[d].user] = "none"]_vars

\* Counterexample: nobody who is checked in has cancelled.
AttendeesAreConfirmed ==
    \A u \in attendance : registration[u] = "CONFIRMED"
=============================================================================
