----------------------------- MODULE Promotions -----------------------------
(***************************************************************************)
(* The academic sessions of an institution and the promotion of all its    *)
(* students into the next one.                                             *)
(*                                                                         *)
(* A promotion reads the current session and the students' levels, and     *)
(* then, in one transaction that first claims the session, writes what it  *)
(* computed from them.  Sessions are made current in two writes outside    *)
(* a transaction, and students are edited all the while.                   *)
(***************************************************************************)
EXTENDS Integers, FiniteSets

CONSTANTS
    Students,   \* students of one department
    MaxLevel,   \* its last level; levels are 1..MaxLevel
    MaxYear,    \* bound: sessions, 1..MaxYear; the session after y is y + 1
    Registrars, \* handlers running at one time
    MaxChanges, \* bound: sessions and students changed by hand
    None        \* no level, student or session

VARIABLES
    calendar, \* which session rows exist, and which say they are current
    student,  \* the profile of each student
    record,   \* the level in a student's academic record of a session
    promoted, \* the promotion rows of a student into a session
    office,   \* what each handler is doing
    raced,    \* two handlers have changed the current session at once, or a
              \* default session was made beside the current one
    edited,   \* students edited by hand, or while a promotion had read them
    reopened, \* sessions made current otherwise than by a promotion
    changes   \* sessions and students changed by hand

vars == <<calendar, student, record, promoted, office, raced, edited, reopened, changes>>

Years == 1..MaxYear
Levels == 1..MaxLevel
AcademicStatus == {"none", "ACTIVE", "GRADUATED"}
NoOffice == [at |-> "idle", year |-> 1, new |-> FALSE, current |-> FALSE,
             next |-> FALSE, student |-> None, level |-> 1, differs |-> FALSE,
             levels |-> [s \in Students |-> None], stale |-> FALSE]

Current == {y \in Years : calendar[y].current}

\* Handlers that have unset or read the current session, other than o.
Deciding(o) ==
    {p \in Registrars \ {o} : office[p].at \in {"promote", "write"}}
\* Students whose level a promotion under way has read.
Snapshotted == {s \in Students : \E p \in Registrars : office[p].levels[s] # None}

Goto(o, next) == office' = [office EXCEPT ![o] = next]

Change == changes < MaxChanges /\ changes' = changes + 1

\* The current session changes: what the other handlers have seen is stale.
Stale(o, next) ==
    office' = [p \in Registrars |->
        IF p = o THEN next
        ELSE IF p \in Deciding(o) THEN [office[p] EXCEPT !.stale = TRUE] ELSE office[p]]

----------------------------------------------------------------------------
(* createAcademicSession and updateAcademicSession *)

\* A session of that name is looked for, and found when it is to be updated.
SessionRead(o, y) ==
    /\ Change
    /\ office[o].at = "idle"
    /\ \E current \in BOOLEAN :
          Goto(o, [NoOffice EXCEPT !.at = IF current THEN "unset" ELSE "write",
                       !.year = y, !.new = ~calendar[y].exists, !.current = current])
    /\ UNCHANGED <<calendar, student, record, promoted, raced, edited, reopened>>

\* Mutant: the other sessions stay current.
UnsetNone(o) == calendar

\* The others are not current any more.
Unset(o) ==
    [y \in Years |-> IF y = office[o].year /\ ~office[o].new THEN calendar[y]
                     ELSE [calendar[y] EXCEPT !.current = FALSE]]

SessionUnset(o) ==
    /\ office[o].at = "unset"
    /\ calendar' = Unset(o)
    /\ Stale(o, [office[o] EXCEPT !.at = "write"])
    /\ UNCHANGED <<student, record, promoted, raced, edited, reopened, changes>>

\* The name is unique: a session made meanwhile fails the insert.
SessionWrite(o) ==
    LET y == office[o].year
    IN  /\ office[o].at = "write"
        /\ office[o].new => ~calendar[y].exists
        /\ calendar' = [calendar EXCEPT ![y] =
                           [exists |-> TRUE, current |-> office[o].current]]
        /\ raced' = (raced \/ office[o].stale)
        /\ reopened' = IF office[o].current THEN reopened \cup {y} ELSE reopened
        /\ Stale(o, NoOffice)
        /\ UNCHANGED <<student, record, promoted, edited, changes>>

\* getOrCreateDefaultSession, when a department is made or its organisations
\* are: without an active or upcoming session one for this year is made, which
\* is current.  Another may be current although it is completed or archived
\* (statuses are left out); it stays current.
DefaultSession(o, y) ==
    /\ Change
    /\ office[o].at = "idle"
    /\ ~calendar[y].exists
    /\ calendar' = [calendar EXCEPT ![y] = [exists |-> TRUE, current |-> TRUE]]
    /\ raced' = (raced \/ Current # {})
    /\ reopened' = reopened \cup {y}
    /\ Stale(o, NoOffice)
    /\ UNCHANGED <<student, record, promoted, edited>>

----------------------------------------------------------------------------
(* promoteInstitution *)

\* The session the administrator was shown is the current one.
PromoteRead(o, y) ==
    /\ office[o].at = "idle"
    /\ calendar[y].current
    /\ y < MaxYear
    /\ Goto(o, [NoOffice EXCEPT !.at = "snapshot", !.year = y])
    /\ UNCHANGED <<calendar, student, record, promoted, raced, edited, reopened, changes>>

\* Whether the next session exists, and the level of every active student.
PromoteSnapshot(o) ==
    /\ office[o].at = "snapshot"
    /\ Goto(o, [office[o] EXCEPT !.at = "promote",
           !.next = calendar[office[o].year + 1].exists,
           !.levels = [s \in Students |->
               IF student[s].status = "ACTIVE" THEN student[s].level ELSE None]])
    /\ UNCHANGED <<calendar, student, record, promoted, raced, edited, reopened, changes>>

\* Mutant: that the session was current is not checked again.
ClaimsAny(o) == TRUE

\* The first write of the transaction: the session must still be current.
Claims(o) == calendar[office[o].year].current

\* The next session is made, which its unique name may refuse, or updated.
OpensNext(o) == office[o].next \/ ~calendar[office[o].year + 1].exists

\* Mutant: the last level has a next one.
GraduatesLate(o, s) == office[o].levels[s] \notin Levels \cup {None}

\* There is no next level.
Graduates(o, s) == office[o].levels[s] = MaxLevel
Moves(o, s) == office[o].levels[s] # None /\ ~Graduates(o, s)

\* Mutant: the academic record of the next session is only made, not updated.
RecordMade(o, s) ==
    [record[s] EXCEPT ![office[o].year + 1] =
        IF @ = None THEN office[o].levels[s] + 1 ELSE @]

RecordOfNext(o, s) ==
    [record[s] EXCEPT ![office[o].year + 1] = office[o].levels[s] + 1]

\* Students without a next level graduate, the others move from the level that
\* was read to the next; each gets a promotion row and an academic record.
PromoteCommit(o) ==
    LET next == office[o].year + 1
    IN  /\ office[o].at = "promote"
        /\ Claims(o) /\ OpensNext(o)
        /\ calendar' = [y \in Years |->
               IF y = next THEN [exists |-> TRUE, current |-> TRUE]
               ELSE [calendar[y] EXCEPT !.current = FALSE]]
        /\ student' = [s \in Students |->
               IF Graduates(o, s) THEN [student[s] EXCEPT !.status = "GRADUATED"]
               ELSE IF Moves(o, s) THEN [student[s] EXCEPT !.level = office[o].levels[s] + 1]
               ELSE student[s]]
        /\ promoted' = [s \in Students |->
               IF Moves(o, s) THEN [promoted[s] EXCEPT ![next] = @ + 1] ELSE promoted[s]]
        /\ record' = [s \in Students |->
               IF Moves(o, s) THEN RecordOfNext(o, s) ELSE record[s]]
        /\ Stale(o, NoOffice)
        /\ UNCHANGED <<raced, edited, reopened, changes>>

\* Nothing is changed when the session is promoted already, or its successor
\* was made meanwhile.
PromoteRefused(o) ==
    /\ office[o].at = "promote"
    /\ ~(Claims(o) /\ OpensNext(o))
    /\ Goto(o, NoOffice)
    /\ UNCHANGED <<calendar, student, record, promoted, raced, edited, reopened, changes>>

----------------------------------------------------------------------------
(* Students: createStudent, updateStudent, addAcademicRecord *)

CreateStudent(s, l) ==
    /\ student[s].status = "none"
    /\ student' = [student EXCEPT ![s] = [level |-> l, status |-> "ACTIVE"]]
    /\ UNCHANGED <<calendar, record, promoted, office, raced, edited, reopened, changes>>

UpdateStudent(s, l) ==
    /\ Change
    /\ student[s].status # "none"
    /\ \E status \in {"ACTIVE", "GRADUATED"} :
          student' = [student EXCEPT ![s] = [level |-> l, status |-> status]]
    /\ edited' = edited \cup {s}
    /\ UNCHANGED <<calendar, record, promoted, office, raced, reopened>>

\* The profile is read, and that the session has no record of the student.
RecordRead(o, s, y, l) ==
    /\ Change
    /\ office[o].at = "idle"
    /\ student[s].status # "none" /\ calendar[y].exists /\ record[s][y] = None
    /\ Goto(o, [NoOffice EXCEPT !.at = "record", !.year = y, !.student = s,
                    !.level = l, !.differs = (l # student[s].level)])
    /\ UNCHANGED <<calendar, student, record, promoted, raced, edited, reopened>>

RecordInsert(o) ==
    LET s == office[o].student
    IN  /\ office[o].at = "record"
        /\ record[s][office[o].year] = None
        /\ record' = [record EXCEPT ![s][office[o].year] = office[o].level]
        /\ edited' = IF s \in Snapshotted THEN edited \cup {s} ELSE edited
        /\ Goto(o, IF office[o].differs THEN [office[o] EXCEPT !.at = "level"] ELSE NoOffice)
        /\ UNCHANGED <<calendar, student, promoted, raced, reopened, changes>>

\* The profile follows, if the level is not the one that was read.
RecordLevel(o) ==
    /\ office[o].at = "level"
    /\ student' = [student EXCEPT ![office[o].student].level = office[o].level]
    /\ edited' = edited \cup {office[o].student}
    /\ Goto(o, NoOffice)
    /\ UNCHANGED <<calendar, record, promoted, raced, reopened, changes>>

\* A handler fails or its process stops; an open transaction is rolled back.
OfficeStops(o) ==
    /\ office[o].at # "idle"
    /\ Goto(o, NoOffice)
    /\ UNCHANGED <<calendar, student, record, promoted, raced, edited, reopened, changes>>

----------------------------------------------------------------------------
\* createInstitution makes the sessions it is given; the last of them that is
\* asked to be current is the one that is.
Init ==
    /\ \E made \in SUBSET Years : \E y \in made \cup {None} :
          calendar = [z \in Years |-> [exists |-> z \in made, current |-> z = y]]
    /\ student = [s \in Students |-> [level |-> 1, status |-> "none"]]
    /\ record = [s \in Students |-> [y \in Years |-> None]]
    /\ promoted = [s \in Students |-> [y \in Years |-> 0]]
    /\ office = [o \in Registrars |-> NoOffice]
    /\ raced = FALSE
    /\ edited = {}
    /\ reopened = {}
    /\ changes = 0

RegistrarStep(o) ==
    \/ \E y \in Years : SessionRead(o, y) \/ DefaultSession(o, y) \/ PromoteRead(o, y)
    \/ SessionUnset(o) \/ SessionWrite(o)
    \/ PromoteSnapshot(o) \/ PromoteCommit(o) \/ PromoteRefused(o)
    \/ \E s \in Students, y \in Years, l \in Levels : RecordRead(o, s, y, l)
    \/ RecordInsert(o) \/ RecordLevel(o) \/ OfficeStops(o)

Next ==
    \/ \E o \in Registrars : RegistrarStep(o)
    \/ \E s \in Students, l \in Levels : CreateStudent(s, l) \/ UpdateStudent(s, l)

Spec == Init /\ [][Next]_vars

----------------------------------------------------------------------------
(* Properties *)

TypeOK ==
    /\ calendar \in [Years -> [exists : BOOLEAN, current : BOOLEAN]]
    /\ student \in [Students -> [level : Levels, status : AcademicStatus]]
    /\ record \in [Students -> [Years -> Levels \cup {None}]]
    /\ promoted \in [Students -> [Years -> Nat]]
    /\ office \in [Registrars ->
           [at : {"idle", "unset", "write", "snapshot", "promote", "record", "level"},
            year : Years, new : BOOLEAN, current : BOOLEAN, next : BOOLEAN,
            student : Students \cup {None}, level : Levels, differs : BOOLEAN,
            levels : [Students -> Levels \cup {None}], stale : BOOLEAN]]
    /\ raced \in BOOLEAN
    /\ edited \subseteq Students
    /\ reopened \subseteq Years
    /\ changes \in 0..MaxChanges

\* The institution has one current session at most, as long as nothing changes
\* the current session between the two writes that make one current, and no
\* default session is made beside one that is completed but still current
\* (createAcademicSession, updateAcademicSession, promoteInstitution,
\* getOrCreateDefaultSession).
OneCurrentSession == raced \/ \A y, z \in Current : y = z

\* Promotions that overlap do not add up: a student is promoted into a session
\* once, unless an earlier one was made current otherwise than by a promotion
\* (promoteInstitution).
PromotedOnce ==
    \A s \in Students, y \in Years :
        promoted[s][y] > 1 => \E z \in reopened : z < y

\* A student nobody has edited has the level his or her newest promotion says,
\* in the profile as in the academic record, unless an earlier session was made
\* current otherwise (promoteInstitution writes both from a level it read before
\* the transaction).
ProfileFollowsRecord ==
    \A s \in Students \ edited, y \in Years :
        (/\ promoted[s][y] > 0 /\ \A z \in Years : z > y => promoted[s][z] = 0
         /\ \A z \in reopened : z >= y)
          => record[s][y] = student[s].level

\* Counterexample: an institution never has two current sessions.
NeverTwoCurrent == \A y, z \in Current : y = z

\* Counterexample: every active student is promoted or graduates
\* (docs/institution-promotion-frontend.md: Promotes every active student).
EveryoneMoves ==
    [][\A o \in Registrars : PromoteCommit(o) =>
          \A s \in Students : student[s].status = "ACTIVE" => student'[s] # student[s]]_vars
=============================================================================
