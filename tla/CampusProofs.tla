---------------------------- MODULE CampusProofs ---------------------------
(***************************************************************************)
(* Proofs about Registrations, Promotions, Memberships and Approvals, for  *)
(* any number of users, students, organisations and handlers, and of the   *)
(* runs of Services: seats, current sessions, promotions, academic         *)
(* memberships, the status of an organisation and the access of its        *)
(* administrators.                                                         *)
(***************************************************************************)
EXTENDS Services, FiniteSetTheorems, TLAPS

----------------------------------------------------------------------------
(* Registrations *)

\* No more than the largest capacity there has been.
WithinLargest(n) == largest = None \/ (n # None /\ n <= largest)

\* Every capacity a registration goes by is one the activity has had.
LimitsKnown ==
    /\ WithinLargest(activity.limit)
    /\ \A d \in Workers :
          desk[d].at \in {"count", "existing", "insert"} => WithinLargest(desk[d].limit)

\* The seats a registration has counted are free still, if nothing has changed.
RoomKept ==
    \A d \in Workers :
        desk[d].at \in {"existing", "insert"} /\ ~desk[d].stale => A!HasRoom(desk[d].limit)

\* A handler of a registration knows whose it is.
UsersKnown ==
    \A d \in Workers :
        desk[d].at \in {"count", "existing", "insert", "confirm", "cancel", "checkin"}
          => desk[d].user \in People

SeatsInv == A!TypeOK /\ LimitsKnown /\ UsersKnown /\ RoomKept /\ A!SeatsAreCounted

DeskStates == [at : {"idle", "update", "publish", "delete", "count", "existing",
                     "insert", "confirm", "cancel", "checkin"},
               user : People \cup {None}, free : BOOLEAN, limit : A!Limits,
               stale : BOOLEAN]

\* The cardinality of the module is that of FiniteSets.
LEMMA SeatsCardinality == ASSUME NEW T PROVE A!Cardinality(T) = Cardinality(T)
BY DEF A!Cardinality, Cardinality

LEMMA ConfirmedFinite ==
    ASSUME NEW T, T \subseteq People
    PROVE  IsFiniteSet(T) /\ Cardinality(T) \in Nat
BY SeatsAssumption, FS_Subset, FS_CardinalityType

\* Seats are free when fewer are confirmed.
LEMMA FewerConfirmed ==
    ASSUME NEW n \in A!Limits, A!Confirmed' \subseteq A!Confirmed, A!HasRoom(n)
    PROVE  A!HasRoom(n)'
<1>1. A!Confirmed \subseteq People /\ A!Confirmed' \subseteq People
    BY DEF A!Confirmed
<1>2. Cardinality(A!Confirmed') <= Cardinality(A!Confirmed)
    BY <1>1, ConfirmedFinite, FS_Subset
<1>3. Cardinality(A!Confirmed) \in Nat /\ Cardinality(A!Confirmed') \in Nat
    BY <1>1, ConfirmedFinite
<1>4. n = None \/ n \in Nat
    BY SeatsAssumption DEF A!Limits
<1>5. CASE n = None
    BY SeatsCardinality, <1>5 DEF A!HasRoom
<1>6. CASE n \in Nat /\ Cardinality(A!Confirmed) + 1 <= n
    BY SeatsCardinality, <1>2, <1>3, <1>6 DEF A!HasRoom
<1> QED BY SeatsCardinality, <1>4, <1>5, <1>6 DEF A!HasRoom

\* The seats that were counted are as few or fewer when none is added to them.
LEMMA FewerCounted ==
    ASSUME A!TypeOK, A!SeatsAreCounted, UNCHANGED largest,
           A!Confirmed' \ unplanned' \subseteq A!Confirmed \ unplanned
    PROVE  A!SeatsAreCounted'
<1>1. A!Confirmed \ unplanned \subseteq People /\ A!Confirmed' \ unplanned' \subseteq People
    BY DEF A!Confirmed
<1>2. Cardinality(A!Confirmed' \ unplanned') <= Cardinality(A!Confirmed \ unplanned)
    BY <1>1, ConfirmedFinite, FS_Subset
<1>3. /\ Cardinality(A!Confirmed \ unplanned) \in Nat
      /\ Cardinality(A!Confirmed' \ unplanned') \in Nat
    BY <1>1, ConfirmedFinite
<1>4. largest = None \/ largest \in Nat
    BY SeatsAssumption DEF A!TypeOK, A!Limits
<1> QED BY SeatsCardinality, <1>2, <1>3, <1>4 DEF A!SeatsAreCounted

\* A handler turns to what next says; no row changes.
LEMMA DeskTurns ==
    ASSUME SeatsInv, NEW d \in Workers, NEW next \in DeskStates,
           next.at \in {"count", "existing", "insert"} => WithinLargest(next.limit),
           next.at \in {"existing", "insert"} /\ ~next.stale => A!HasRoom(next.limit),
           next.at \in {"count", "existing", "insert", "confirm", "cancel", "checkin"}
             => next.user \in People,
           desk' = [desk EXCEPT ![d] = next],
           UNCHANGED <<activity, registration, unplanned, largest>>,
           attendance' \subseteq People
    PROVE  SeatsInv'
<1>1. A!TypeOK'
    BY DEF SeatsInv, A!TypeOK, DeskStates
<1>2. \A e \in Workers : desk'[e] = IF e = d THEN next ELSE desk[e]
    BY DEF SeatsInv, A!TypeOK
<1>3. \A n : WithinLargest(n)' = WithinLargest(n) /\ A!HasRoom(n)' = A!HasRoom(n)
    BY SeatsCardinality DEF WithinLargest, A!HasRoom, A!Confirmed
<1>4. LimitsKnown'
    <2>1. WithinLargest(activity.limit)'
        BY DEF SeatsInv, LimitsKnown, WithinLargest
    <2>2. \A e \in Workers :
             desk'[e].at \in {"count", "existing", "insert"} => WithinLargest(desk'[e].limit)
        BY <1>2 DEF SeatsInv, LimitsKnown
    <2> QED BY <2>1, <2>2 DEF LimitsKnown, WithinLargest
<1>5. RoomKept'
    <2>1. \A e \in Workers :
             desk'[e].at \in {"existing", "insert"} /\ ~desk'[e].stale
               => A!HasRoom(desk'[e].limit)
        BY <1>2 DEF SeatsInv, RoomKept
    <2> QED BY SeatsCardinality, <2>1 DEF RoomKept, A!HasRoom, A!Confirmed
<1>6. A!SeatsAreCounted'
    BY SeatsCardinality DEF SeatsInv, A!SeatsAreCounted, A!Confirmed
<1>7. UsersKnown'
    BY <1>2 DEF SeatsInv, UsersKnown
<1> QED BY <1>1, <1>4, <1>5, <1>6, <1>7 DEF SeatsInv

\* A write overtakes the registrations under way: what they counted is stale.
LEMMA Overtakes ==
    ASSUME A!TypeOK, NEW d \in Workers, desk' = A!Others(d, A!NoDesk)
    PROVE  /\ desk' \in [Workers -> DeskStates]
           /\ \A e \in Workers : desk'[e].at # "idle" =>
                 desk'[e].at = desk[e].at /\ desk'[e].limit = desk[e].limit
           /\ RoomKept' /\ (UsersKnown => UsersKnown')
<1>1. \A e \in Workers : desk[e] \in DeskStates
    BY DEF A!TypeOK, DeskStates
<1>2. A!NoDesk \in DeskStates /\ A!NoDesk.at = "idle"
    BY DEF A!NoDesk, DeskStates, A!Limits
<1>3. ASSUME NEW e \in Workers
      PROVE  /\ desk'[e] \in DeskStates
             /\ desk'[e].at # "idle" =>
                   /\ desk'[e].at = desk[e].at /\ desk'[e].limit = desk[e].limit
                   /\ desk'[e].stale /\ desk'[e].user = desk[e].user
    <2>1. CASE e = d
        BY <1>2, <2>1 DEF A!Others
    <2>2. CASE e # d
        <3>1. desk'[e] = [desk[e] EXCEPT !.stale = TRUE]
            BY <2>2 DEF A!Others
        <3>2. desk[e] \in DeskStates
            BY <1>1
        <3> QED BY <3>1, <3>2 DEF DeskStates
    <2> QED BY <2>1, <2>2
<1>4. desk' = [e \in Workers |-> desk'[e]]
    BY DEF A!Others
<1>5. desk' \in [Workers -> DeskStates]
    BY <1>3, <1>4
<1>6. RoomKept' /\ (UsersKnown => UsersKnown')
    BY <1>3 DEF RoomKept, UsersKnown
<1> QED BY <1>3, <1>5, <1>6

\* The limits known stay known when the largest capacity only grows.
LEMMA LargestGrows ==
    ASSUME SeatsInv, NEW d \in Workers, desk' = A!Others(d, A!NoDesk),
           \A n \in A!Limits : WithinLargest(n) => WithinLargest(n)', WithinLargest(activity.limit)'
    PROVE  LimitsKnown'
<1>1. \A e \in Workers : desk[e].limit \in A!Limits
    BY DEF SeatsInv, A!TypeOK
<1>2. ASSUME NEW e \in Workers, desk'[e].at \in {"count", "existing", "insert"}
      PROVE  desk'[e].limit \in A!Limits /\ WithinLargest(desk'[e].limit)
    <2>1. desk'[e].at = desk[e].at /\ desk'[e].limit = desk[e].limit
        BY <1>2, Overtakes DEF SeatsInv
    <2> QED BY <1>1, <1>2, <2>1 DEF SeatsInv, LimitsKnown
<1> QED BY <1>2 DEF LimitsKnown, WithinLargest

LEMMA ActivityUpdates ==
    ASSUME SeatsInv, NEW d \in Workers, A!UpdateWrite(d)
    PROVE  SeatsInv'
<1>1. PICK s \in A!Statuses, n \in A!Limits, free \in BOOLEAN :
         /\ activity' = [activity EXCEPT !.status = s, !.limit = n, !.free = free]
         /\ largest' = A!Larger(largest, n)
    BY DEF A!UpdateWrite
<1>2. desk' = A!Others(d, A!NoDesk) /\ UNCHANGED <<registration, attendance, unplanned>>
    BY DEF A!UpdateWrite
<1>3. activity \in [exists : BOOLEAN, status : A!Statuses, limit : A!Limits, free : BOOLEAN]
    BY DEF SeatsInv, A!TypeOK
<1>4. activity' \in [exists : BOOLEAN, status : A!Statuses, limit : A!Limits, free : BOOLEAN]
      /\ activity'.limit = n
    BY <1>1, <1>3
<1>5. \A m \in A!Limits : m = None \/ m \in Nat
    BY SeatsAssumption DEF A!Limits
<1>6. largest \in A!Limits /\ largest' \in A!Limits
    BY <1>1 DEF SeatsInv, A!TypeOK, A!Larger
<1>7. largest' # None => largest # None /\ largest <= largest' /\ n # None /\ n <= largest'
    BY <1>1, <1>5, <1>6 DEF A!Larger
<1>8. \A m \in A!Limits : WithinLargest(m) => WithinLargest(m)'
    BY <1>5, <1>6, <1>7 DEF WithinLargest
<1>9. WithinLargest(activity.limit)'
    BY <1>4, <1>7 DEF WithinLargest
<1>10. LimitsKnown'
    BY <1>2, <1>8, <1>9, LargestGrows
<1>11. A!TypeOK' /\ RoomKept' /\ UsersKnown'
    <2>1. desk' \in [Workers -> DeskStates] /\ RoomKept' /\ UsersKnown'
        BY <1>2, Overtakes DEF SeatsInv
    <2> QED BY <1>2, <1>4, <1>6, <2>1 DEF SeatsInv, A!TypeOK, DeskStates
<1>12. A!SeatsAreCounted'
    <2>1. A!Confirmed \ unplanned \subseteq People
        BY DEF A!Confirmed
    <2>2. Cardinality(A!Confirmed \ unplanned) \in Nat
        BY <2>1, ConfirmedFinite
    <2>3. (A!Confirmed \ unplanned)' = A!Confirmed \ unplanned
        BY <1>2 DEF A!Confirmed
    <2> QED BY SeatsCardinality, <1>5, <1>6, <1>7, <2>2, <2>3 DEF SeatsInv, A!SeatsAreCounted
<1> QED BY <1>10, <1>11, <1>12 DEF SeatsInv

\* An activity is published and the limits stay.
LEMMA ActivityPublishes ==
    ASSUME SeatsInv, NEW d \in Workers, A!PublishWrite(d)
    PROVE  SeatsInv'
<1>1. /\ desk' = [desk EXCEPT ![d] = A!NoDesk]
      /\ activity' = [activity EXCEPT !.status = "PUBLISHED"]
      /\ UNCHANGED <<registration, attendance, unplanned, largest>>
    BY DEF A!PublishWrite, A!Goto
<1>2. A!NoDesk \in DeskStates /\ A!NoDesk.at = "idle"
    BY DEF A!NoDesk, DeskStates, A!Limits
<1>3. /\ activity' \in [exists : BOOLEAN, status : A!Statuses, limit : A!Limits, free : BOOLEAN]
      /\ activity'.limit = activity.limit
    BY <1>1 DEF SeatsInv, A!TypeOK, A!Statuses
<1>4. A!TypeOK'
    <2>1. desk' \in [Workers -> DeskStates]
        BY <1>1, <1>2 DEF SeatsInv, A!TypeOK, DeskStates
    <2> QED BY <1>1, <1>3, <2>1 DEF SeatsInv, A!TypeOK, DeskStates
<1>5. \A e \in Workers : desk'[e].at # "idle" => desk'[e] = desk[e]
    BY <1>1, <1>2 DEF SeatsInv, A!TypeOK
<1>6. LimitsKnown'
    BY <1>1, <1>3, <1>5 DEF SeatsInv, LimitsKnown, WithinLargest
<1>7. RoomKept'
    BY SeatsCardinality, <1>1, <1>5 DEF SeatsInv, RoomKept, A!HasRoom, A!Confirmed
<1>8. A!SeatsAreCounted'
    BY SeatsCardinality, <1>1 DEF SeatsInv, A!SeatsAreCounted, A!Confirmed
<1>9. UsersKnown'
    BY <1>5, <1>2, <1>1 DEF SeatsInv, UsersKnown
<1> QED BY <1>4, <1>6, <1>7, <1>8, <1>9 DEF SeatsInv

\* Every registration goes with its activity.
LEMMA ActivityDeletes ==
    ASSUME SeatsInv, NEW d \in Workers, A!DeleteWrite(d)
    PROVE  SeatsInv'
<1>1. /\ activity' = [activity EXCEPT !.exists = FALSE]
      /\ registration' = [u \in People |-> "none"]
      /\ attendance' = {} /\ desk' = A!Others(d, A!NoDesk)
      /\ UNCHANGED <<unplanned, largest>>
    BY DEF A!DeleteWrite
<1>2. /\ activity' \in [exists : BOOLEAN, status : A!Statuses, limit : A!Limits, free : BOOLEAN]
      /\ activity'.limit = activity.limit
    BY <1>1 DEF SeatsInv, A!TypeOK
<1>3. desk' \in [Workers -> DeskStates] /\ RoomKept' /\ UsersKnown'
    BY <1>1, Overtakes DEF SeatsInv
<1>4. A!TypeOK'
    BY <1>1, <1>2, <1>3 DEF SeatsInv, A!TypeOK, DeskStates, A!RowStatuses
<1>5. LimitsKnown'
    <2>1. \A n \in A!Limits : WithinLargest(n) => WithinLargest(n)'
        BY <1>1 DEF WithinLargest
    <2>2. WithinLargest(activity.limit)'
        BY <1>1, <1>2 DEF SeatsInv, LimitsKnown, WithinLargest
    <2> QED BY <1>1, <2>1, <2>2, LargestGrows
<1>6. A!Confirmed' = {}
    BY <1>1 DEF A!Confirmed
<1>7. A!SeatsAreCounted'
    BY <1>1, <1>6, FewerCounted DEF SeatsInv
<1> QED BY <1>3, <1>4, <1>5, <1>7 DEF SeatsInv

\* A row that is written by a handler other than a cancellation, whatever its
\* new status: the limits stay, and what was counted is stale.
LEMMA RowRewrites ==
    ASSUME SeatsInv, NEW d \in Workers, NEW u \in People, NEW s \in A!RowStatuses,
           registration' = [registration EXCEPT ![u] = s],
           unplanned' = unplanned \/ unplanned' = unplanned \cup {u},
           desk' = A!Others(d, A!NoDesk), UNCHANGED <<activity, attendance, largest>>
    PROVE  A!TypeOK' /\ LimitsKnown' /\ UsersKnown' /\ RoomKept'
<1>1. desk' \in [Workers -> DeskStates] /\ RoomKept' /\ UsersKnown'
    BY Overtakes DEF SeatsInv
<1>2. A!TypeOK'
    BY <1>1 DEF SeatsInv, A!TypeOK, DeskStates
<1>3. LimitsKnown'
    <2>1. \A n \in A!Limits : WithinLargest(n) => WithinLargest(n)'
        BY DEF WithinLargest
    <2>2. WithinLargest(activity.limit)'
        BY DEF SeatsInv, LimitsKnown, WithinLargest
    <2> QED BY <2>1, <2>2, LargestGrows
<1> QED BY <1>1, <1>2, <1>3

\* A registration that saw nothing change takes a seat it has counted.
LEMMA RowInserts ==
    ASSUME SeatsInv, NEW d \in Workers, A!RegisterInsert(d)
    PROVE  SeatsInv'
<1> DEFINE u == desk[d].user
<1> DEFINE s == IF desk[d].free THEN "CONFIRMED" ELSE "PENDING"
<1>1. /\ desk[d].at = "insert" /\ registration[u] = "none"
      /\ registration' = [registration EXCEPT ![u] = s]
      /\ unplanned' = IF desk[d].stale THEN unplanned \cup {u} ELSE unplanned
      /\ desk' = A!Others(d, A!NoDesk)
      /\ UNCHANGED <<activity, attendance, largest>>
    BY DEF A!RegisterInsert
<1>2. s \in A!RowStatuses
    BY DEF A!RowStatuses
<1>3. u \in People
    BY <1>1 DEF SeatsInv, UsersKnown
<1>4. A!TypeOK' /\ LimitsKnown' /\ UsersKnown' /\ RoomKept'
    <2> HIDE DEF s
    <2> QED BY <1>1, <1>2, <1>3, RowRewrites
<1>5. A!Confirmed' \subseteq A!Confirmed \cup {u} /\ u \notin A!Confirmed
    BY <1>1, <1>3 DEF SeatsInv, A!TypeOK, A!Confirmed
<1>6. CASE desk[d].stale
    <2>1. A!Confirmed' \ unplanned' \subseteq A!Confirmed \ unplanned
        BY <1>1, <1>5, <1>6
    <2> QED BY <1>1, <1>4, <2>1, FewerCounted DEF SeatsInv
<1>7. CASE ~desk[d].stale
    <2> DEFINE n == desk[d].limit
    <2>1. A!HasRoom(n) /\ WithinLargest(n) /\ n \in A!Limits /\ largest \in A!Limits
        BY <1>1, <1>7 DEF SeatsInv, A!TypeOK, RoomKept, LimitsKnown
    <2>2. A!Confirmed' \subseteq People /\ A!Confirmed \subseteq People
        BY DEF A!Confirmed
    <2>3. IsFiniteSet(A!Confirmed) /\ Cardinality(A!Confirmed) \in Nat
        BY <2>2, ConfirmedFinite
    <2>4. IsFiniteSet(A!Confirmed \cup {u}) /\ Cardinality(A!Confirmed \cup {u}) = Cardinality(A!Confirmed) + 1
        BY <1>5, <2>3, FS_AddElement
    <2>5. (A!Confirmed \ unplanned)' \subseteq A!Confirmed \cup {u}
        BY <1>5
    <2>6. /\ Cardinality((A!Confirmed \ unplanned)') <= Cardinality(A!Confirmed) + 1
          /\ Cardinality((A!Confirmed \ unplanned)') \in Nat
        BY <2>4, <2>5, FS_Subset, FS_CardinalityType
    <2>7. \A m \in A!Limits : m = None \/ m \in Nat
        BY SeatsAssumption DEF A!Limits
    <2>8. largest = None \/ Cardinality(A!Confirmed) + 1 <= largest
        BY SeatsCardinality, <2>1, <2>3, <2>7 DEF A!HasRoom, WithinLargest
    <2>9. A!SeatsAreCounted'
        BY SeatsCardinality, <1>1, <2>1, <2>3, <2>6, <2>7, <2>8 DEF A!SeatsAreCounted
    <2> QED BY <1>4, <2>9 DEF SeatsInv
<1> QED BY <1>6, <1>7

\* A seat confirmed by hand is not one of those that were counted.
LEMMA RowConfirms ==
    ASSUME SeatsInv, NEW d \in Workers, A!ConfirmWrite(d)
    PROVE  SeatsInv'
<1>1. PICK u \in People :
          /\ registration' = [registration EXCEPT ![u] = "CONFIRMED"]
          /\ unplanned' = unplanned \cup {u}
    BY DEF A!ConfirmWrite, SeatsInv, UsersKnown
<1>2. desk' = A!Others(d, A!NoDesk) /\ UNCHANGED <<activity, attendance, largest>>
    BY DEF A!ConfirmWrite
<1>3. "CONFIRMED" \in A!RowStatuses
    BY DEF A!RowStatuses
<1>4. A!TypeOK' /\ LimitsKnown' /\ UsersKnown' /\ RoomKept'
    BY <1>1, <1>2, <1>3, RowRewrites
<1>5. A!Confirmed' \ unplanned' \subseteq A!Confirmed \ unplanned
    BY <1>1 DEF SeatsInv, A!TypeOK, A!Confirmed
<1> QED BY <1>2, <1>4, <1>5, FewerCounted DEF SeatsInv

\* A cancellation leaves the others their room.
LEMMA RowCancels ==
    ASSUME SeatsInv, NEW d \in Workers, A!CancelWrite(d)
    PROVE  SeatsInv'
<1>1. PICK u \in People : registration' = [registration EXCEPT ![u] = "CANCELLED"]
    BY DEF A!CancelWrite, SeatsInv, UsersKnown
<1>2. /\ desk' = [desk EXCEPT ![d] = A!NoDesk]
      /\ UNCHANGED <<activity, attendance, unplanned, largest>>
    BY DEF A!CancelWrite, A!Goto
<1>3. A!NoDesk \in DeskStates /\ A!NoDesk.at = "idle"
    BY DEF A!NoDesk, DeskStates, A!Limits
<1>4. A!TypeOK'
    <2>1. desk' \in [Workers -> DeskStates]
        BY <1>2, <1>3 DEF SeatsInv, A!TypeOK, DeskStates
    <2> QED BY <1>1, <1>2, <2>1 DEF SeatsInv, A!TypeOK, DeskStates, A!RowStatuses
<1>5. \A e \in Workers : desk'[e].at # "idle" => desk'[e] = desk[e]
    BY <1>2, <1>3 DEF SeatsInv, A!TypeOK
<1>6. LimitsKnown' /\ UsersKnown'
    BY <1>2, <1>3, <1>5 DEF SeatsInv, LimitsKnown, UsersKnown, WithinLargest
<1>7. A!Confirmed' \subseteq A!Confirmed
    BY <1>1 DEF SeatsInv, A!TypeOK, A!Confirmed
<1>8. RoomKept'
    <2>1. \A e \in Workers : desk[e].limit \in A!Limits
        BY DEF SeatsInv, A!TypeOK
    <2>2. \A n \in A!Limits : A!HasRoom(n) => A!HasRoom(n)'
        BY <1>7, FewerConfirmed
    <2> QED BY SeatsCardinality, <1>5, <2>1, <2>2 DEF SeatsInv, RoomKept, A!HasRoom
<1>9. A!SeatsAreCounted'
    BY <1>2, <1>7, FewerCounted DEF SeatsInv
<1> QED BY <1>4, <1>6, <1>8, <1>9 DEF SeatsInv

----------------------------------------------------------------------------
\* The steps that only read, or check in, or stop.
LEMMA DeskReads ==
    ASSUME SeatsInv, NEW d \in Workers,
           \/ A!UpdateRead(d) \/ A!PublishRead(d) \/ A!DeleteRead(d)
           \/ \E u \in People : A!ConfirmRead(d, u) \/ A!CancelRead(d, u) \/ A!CheckInRead(d, u)
           \/ A!CheckInInsert(d) \/ A!DeskStops(d)
    PROVE  SeatsInv'
<1>1. PICK next \in DeskStates :
         /\ next.at \in {"idle", "update", "publish", "delete", "confirm", "cancel", "checkin"}
         /\ next.at \in {"confirm", "cancel", "checkin"} => next.user \in People
         /\ desk' = [desk EXCEPT ![d] = next]
    <2>1. CASE A!CheckInInsert(d) \/ A!DeskStops(d)
        <3>1. A!NoDesk \in DeskStates /\ A!NoDesk.at = "idle"
            BY DEF A!NoDesk, DeskStates, A!Limits
        <3>2. desk' = [desk EXCEPT ![d] = A!NoDesk]
            BY <2>1 DEF A!CheckInInsert, A!DeskStops, A!Goto
        <3> QED BY <3>1, <3>2
    <2>2. CASE A!UpdateRead(d) \/ A!PublishRead(d) \/ A!DeleteRead(d)
        <3>1. PICK at \in {"update", "publish", "delete"} :
                 desk' = [desk EXCEPT ![d] = [A!NoDesk EXCEPT !.at = at]]
            BY <2>2 DEF A!UpdateRead, A!PublishRead, A!DeleteRead, A!Goto
        <3> DEFINE next == [A!NoDesk EXCEPT !.at = at]
        <3>2. next \in DeskStates /\ next.at = at
            BY DEF A!NoDesk, DeskStates, A!Limits
        <3> HIDE DEF next
        <3> QED BY <3>1, <3>2 DEF next
    <2>3. ASSUME NEW u \in People,
                 A!ConfirmRead(d, u) \/ A!CancelRead(d, u) \/ A!CheckInRead(d, u)
          PROVE  \E next \in DeskStates :
                    /\ next.at \in {"confirm", "cancel", "checkin"}
                    /\ next.user \in People
                    /\ desk' = [desk EXCEPT ![d] = next]
        <3>1. PICK at \in {"confirm", "cancel", "checkin"} :
                 desk' = [desk EXCEPT ![d] = [A!NoDesk EXCEPT !.at = at, !.user = u]]
            BY <2>3 DEF A!ConfirmRead, A!CancelRead, A!CheckInRead, A!Goto
        <3> DEFINE turned == [A!NoDesk EXCEPT !.at = at]
        <3> DEFINE next == [turned EXCEPT !.user = u]
        <3>2. turned \in DeskStates /\ turned.at = at
            <4>1. A!NoDesk \in DeskStates
                BY DEF A!NoDesk, DeskStates, A!Limits
            <4> QED BY <4>1 DEF DeskStates
        <3>3. [A!NoDesk EXCEPT !.at = at, !.user = u] = next
            OBVIOUS
        <3> HIDE DEF turned
        <3>4. next \in DeskStates /\ next.at = at /\ next.user = u
            BY <3>2 DEF DeskStates
        <3> HIDE DEF next
        <3> QED BY <3>1, <3>3, <3>4
    <2> QED BY <2>1, <2>2, <2>3
<1>2. attendance' \subseteq People
    <2>1. CASE A!CheckInInsert(d)
        BY <2>1 DEF A!CheckInInsert, SeatsInv, UsersKnown, A!TypeOK
    <2>2. CASE UNCHANGED attendance
        BY <2>2 DEF SeatsInv, A!TypeOK
    <2> QED BY <2>1, <2>2 DEF A!UpdateRead, A!PublishRead, A!DeleteRead, A!ConfirmRead, A!CancelRead,
                            A!CheckInRead, A!DeskStops
<1>3. UNCHANGED <<activity, registration, unplanned, largest>>
    BY DEF A!UpdateRead, A!PublishRead, A!DeleteRead, A!ConfirmRead, A!CancelRead, A!CheckInRead,
           A!CheckInInsert, A!DeskStops
<1> QED BY <1>1, <1>2, <1>3, DeskTurns

\* A registration reads the activity, counts and looks for an earlier row.
LEMMA DeskRegisters ==
    ASSUME SeatsInv, NEW d \in Workers,
           \/ \E u \in People : A!RegisterRead(d, u)
           \/ A!RegisterCount(d) \/ A!RegisterExisting(d)
    PROVE  SeatsInv'
<1>1. UNCHANGED <<activity, registration, unplanned, largest>> /\ attendance' \subseteq People
    BY DEF A!RegisterRead, A!RegisterCount, A!RegisterExisting, SeatsInv, A!TypeOK
<1>2. A!NoDesk \in DeskStates /\ A!NoDesk.at = "idle"
    BY DEF A!NoDesk, DeskStates, A!Limits
<1>3. desk[d] \in DeskStates
    BY DEF SeatsInv, A!TypeOK, DeskStates
<1>4. ASSUME NEW u \in People, A!RegisterRead(d, u)
      PROVE  SeatsInv'
    <2> DEFINE next == [at |-> "count", user |-> u, free |-> activity.free,
                        limit |-> activity.limit, stale |-> FALSE]
    <2>1. desk' = [desk EXCEPT ![d] = next]
        BY <1>4 DEF A!RegisterRead, A!Goto
    <2>2. /\ next \in DeskStates /\ next.at = "count" /\ next.user \in People
          /\ WithinLargest(next.limit)
        BY DEF DeskStates, SeatsInv, A!TypeOK, LimitsKnown
    <2> HIDE DEF next
    <2> QED BY <1>1, <2>1, <2>2, DeskTurns
<1>5. CASE desk' = [desk EXCEPT ![d] = A!NoDesk]
    BY <1>1, <1>2, <1>5, DeskTurns
<1>6. CASE /\ desk[d].at = "count" /\ A!HasRoom(desk[d].limit)
           /\ desk' = [desk EXCEPT ![d] = [desk[d] EXCEPT !.at = "existing"]]
    <2> DEFINE next == [desk[d] EXCEPT !.at = "existing"]
    <2>1. /\ next \in DeskStates /\ next.at = "existing" /\ next.user = desk[d].user
          /\ next.limit = desk[d].limit
        BY <1>3 DEF DeskStates
    <2>2. WithinLargest(desk[d].limit) /\ desk[d].user \in People
        BY <1>6 DEF SeatsInv, LimitsKnown, UsersKnown
    <2>3. desk' = [desk EXCEPT ![d] = next]
        BY <1>6
    <2> HIDE DEF next
    <2>4. WithinLargest(next.limit) /\ A!HasRoom(next.limit) /\ next.user \in People
        BY <1>6, <2>1, <2>2
    <2> QED BY <1>1, <2>1, <2>3, <2>4, DeskTurns
<1>7. CASE /\ desk[d].at = "existing"
           /\ desk' = [desk EXCEPT ![d] = [desk[d] EXCEPT !.at = "insert"]]
    <2> DEFINE next == [desk[d] EXCEPT !.at = "insert"]
    <2>1. /\ next \in DeskStates /\ next.at = "insert" /\ next.user = desk[d].user
          /\ next.limit = desk[d].limit /\ next.stale = desk[d].stale
        BY <1>3 DEF DeskStates
    <2>2. /\ WithinLargest(desk[d].limit) /\ desk[d].user \in People
          /\ ~desk[d].stale => A!HasRoom(desk[d].limit)
        BY <1>7 DEF SeatsInv, LimitsKnown, UsersKnown, RoomKept
    <2>3. desk' = [desk EXCEPT ![d] = next]
        BY <1>7
    <2> HIDE DEF next
    <2>4. WithinLargest(next.limit) /\ (~next.stale => A!HasRoom(next.limit)) /\ next.user \in People
        BY <2>1, <2>2
    <2> QED BY <1>1, <2>1, <2>3, <2>4, DeskTurns
<1> QED BY <1>4, <1>5, <1>6, <1>7 DEF A!RegisterCount, A!RegisterExisting, A!Goto

----------------------------------------------------------------------------
LEMMA DeskStarts == A!Init => SeatsInv
<1> SUFFICES ASSUME A!Init PROVE SeatsInv
    OBVIOUS
<1>1. PICK s \in A!Statuses, n \in A!Limits, free \in BOOLEAN :
          /\ activity = [exists |-> TRUE, status |-> s, limit |-> n, free |-> free]
          /\ largest = n
    BY DEF A!Init
<1>2. /\ registration = [u \in People |-> "none"] /\ attendance = {}
      /\ desk = [d \in Workers |-> A!NoDesk] /\ unplanned = {}
    BY DEF A!Init
<1>3. A!NoDesk \in DeskStates /\ A!NoDesk.at = "idle"
    BY DEF A!NoDesk, DeskStates, A!Limits
<1>4. \A d \in Workers : desk[d].at = "idle"
    BY <1>2, <1>3
<1>5. n = None \/ n \in Nat
    BY SeatsAssumption DEF A!Limits
<1>6. A!TypeOK
    <2>1. desk \in [Workers -> DeskStates]
        BY <1>2, <1>3
    <2> QED BY <1>1, <1>2, <2>1 DEF A!TypeOK, DeskStates, A!Statuses, A!RowStatuses
<1>7. LimitsKnown /\ RoomKept /\ UsersKnown
    BY <1>1, <1>4, <1>5 DEF LimitsKnown, RoomKept, UsersKnown, WithinLargest
<1>8. A!SeatsAreCounted
    <2>1. A!Confirmed \ unplanned = {}
        BY <1>2 DEF A!Confirmed
    <2> QED BY SeatsCardinality, <1>1, <1>5, <2>1, FS_EmptySet DEF A!SeatsAreCounted
<1> QED BY <1>6, <1>7, <1>8 DEF SeatsInv

LEMMA DeskInductive == SeatsInv /\ [A!Next]_(A!vars) => SeatsInv'
<1> SUFFICES ASSUME SeatsInv, [A!Next]_(A!vars) PROVE SeatsInv'
    OBVIOUS
<1>1. ASSUME NEW d \in Workers, A!DeskStep(d)
      PROVE  SeatsInv'
    BY <1>1, ActivityUpdates, ActivityPublishes, ActivityDeletes, RowInserts, RowConfirms, RowCancels, DeskReads, DeskRegisters
       DEF A!DeskStep
<1>2. CASE UNCHANGED A!vars
    <2>1. A!TypeOK' /\ LimitsKnown' /\ UsersKnown'
        BY <1>2 DEF A!vars, SeatsInv, A!TypeOK, LimitsKnown, UsersKnown, WithinLargest
    <2>2. RoomKept' /\ A!SeatsAreCounted'
        BY SeatsCardinality, <1>2 DEF A!vars, SeatsInv, RoomKept, A!HasRoom, A!Confirmed, A!SeatsAreCounted
    <2> QED BY <2>1, <2>2 DEF SeatsInv
<1> QED BY <1>1, <1>2 DEF A!Next

\* The confirmed registrations whose seats were counted are never more than the
\* largest capacity there has been (register, confirm, update).
THEOREM SeatsCounted == A!Spec => []A!SeatsAreCounted
<1>1. SeatsInv => A!SeatsAreCounted
    BY DEF SeatsInv
<1> QED BY <1>1, DeskStarts, DeskInductive, PTL DEF A!Spec

\* Every variable keeps its type (the handlers of the activities).
THEOREM RegistrationsTypeCorrect == A!Spec => []A!TypeOK
<1>1. SeatsInv => A!TypeOK
    BY DEF SeatsInv
<1> QED BY <1>1, DeskStarts, DeskInductive, PTL DEF A!Spec

LEMMA RegistrationsSide == ServicesSpec => A!Spec
<1>1. ServicesInit => A!Init
    BY DEF ServicesInit
<1>2. [ServicesNext]_allvars => [A!Next]_(A!vars)
    BY DEF ServicesNext, allvars, electionVars, sessionVars, resetVars, activityVars,
           promotionVars, membershipVars, approvalVars, A!vars
<1> QED BY <1>1, <1>2, PTL DEF ServicesSpec, A!Spec

\* Seats are never given twice by registrations that counted them, in the
\* services side by side (register).
THEOREM SeatsKept == ServicesSpec => []SeatsAreCounted
BY RegistrationsSide, SeatsCounted, PTL DEF SeatsAreCounted

----------------------------------------------------------------------------
(* Promotions *)

OfficeStates ==
    [at : {"idle", "unset", "write", "snapshot", "promote", "record", "level"},
     year : P!Years, new : BOOLEAN, current : BOOLEAN, next : BOOLEAN,
     student : Students \cup {None}, level : P!Levels, differs : BOOLEAN,
     levels : [Students -> P!Levels \cup {None}], stale : BOOLEAN]

\* A promotion has a session to promote into, a record a student.
SensibleOffice(next) ==
    /\ next.at \in {"snapshot", "promote"} => next.year < MaxYear
    /\ next.at \in {"record", "level"} => next.student \in Students

OfficesSensible == \A o \in Workers : SensibleOffice(office[o])

\* Nothing but the session that is about to be made current may be current,
\* unless somebody has changed the current session in between.
UnsetHolds ==
    \A o \in Workers :
        office[o].at = "write" /\ office[o].current /\ ~office[o].stale
          => \A y \in P!Current : y = office[o].year

\* An institution that promoted its students into a session never has an
\* earlier one again as its current session, unless one was made so by hand.
NeverBack ==
    \A s \in Students, y \in P!Years :
        promoted[s][y] > 0 => (\E z \in reopened : z < y) \/ \A z \in P!Current : z >= y

PromotionInv ==
    /\ P!TypeOK /\ OfficesSensible
    /\ UnsetHolds /\ P!OneCurrentSession
    /\ NeverBack /\ P!PromotedOnce

----------------------------------------------------------------------------
LEMMA NoOfficeSensible == P!NoOffice \in OfficeStates /\ SensibleOffice(P!NoOffice) /\ P!NoOffice.at = "idle"
<1>1. 1 \in P!Years /\ 1 \in P!Levels
    BY PromotionAssumption DEF P!Years, P!Levels
<1>2. [s \in Students |-> None] \in [Students -> P!Levels \cup {None}]
    OBVIOUS
<1> QED BY <1>1, <1>2 DEF P!NoOffice, OfficeStates, SensibleOffice

\* A handler turns to what next says.
LEMMA OfficeTurns ==
    ASSUME PromotionInv, NEW o \in Workers, NEW next \in OfficeStates, SensibleOffice(next),
           office' = [office EXCEPT ![o] = next]
    PROVE  /\ office' \in [Workers -> OfficeStates] /\ OfficesSensible'
           /\ \A p \in Workers : office'[p] = IF p = o THEN next ELSE office[p]
<1>1. office \in [Workers -> OfficeStates]
    BY DEF PromotionInv, P!TypeOK, OfficeStates
<1>2. \A p \in Workers : office'[p] = IF p = o THEN next ELSE office[p]
    BY <1>1
<1>3. OfficesSensible'
    BY <1>2 DEF PromotionInv, OfficesSensible, SensibleOffice
<1> QED BY <1>1, <1>2, <1>3

\* A write of the calendar overtakes the handlers that have seen it.
LEMMA OfficesOvertaken ==
    ASSUME PromotionInv, NEW o \in Workers, NEW next \in OfficeStates, SensibleOffice(next),
           P!Stale(o, next)
    PROVE  /\ office' \in [Workers -> OfficeStates] /\ OfficesSensible'
           /\ office'[o] = next
           /\ \A p \in Workers \ {o} : office'[p].at = "write" => office'[p].stale
<1>1. \A p \in Workers : office[p] \in OfficeStates /\ SensibleOffice(office[p])
    BY DEF PromotionInv, P!TypeOK, OfficeStates, OfficesSensible
<1>2. ASSUME NEW p \in Workers
      PROVE  /\ office'[p] \in OfficeStates /\ SensibleOffice(office'[p])
             /\ p # o /\ office'[p].at = "write" => office'[p].stale
    <2>1. CASE p = o
        BY <2>1 DEF P!Stale
    <2>2. CASE p # o /\ p \in P!Deciding(o)
        <3>1. office'[p] = [office[p] EXCEPT !.stale = TRUE]
            BY <2>2 DEF P!Stale
        <3>2. /\ office'[p] \in OfficeStates /\ office'[p].stale
              /\ office'[p].at = office[p].at /\ office'[p].year = office[p].year
              /\ office'[p].student = office[p].student
            BY <1>1, <3>1 DEF OfficeStates
        <3> QED BY <1>1, <3>2 DEF SensibleOffice
    <2>3. CASE p # o /\ p \notin P!Deciding(o)
        <3>1. office'[p] = office[p]
            BY <2>3 DEF P!Stale
        <3>2. office[p].at # "write"
            BY <2>3 DEF P!Deciding
        <3> QED BY <1>1, <3>1, <3>2
    <2> QED BY <2>1, <2>2, <2>3
<1>3. office' = [p \in Workers |-> office'[p]] /\ office'[o] = next
    BY DEF P!Stale
<1>4. OfficesSensible'
    BY <1>2 DEF OfficesSensible, SensibleOffice
<1> QED BY <1>2, <1>3, <1>4

LEMMA ProfilesTyped ==
    ASSUME NEW row \in [exists : BOOLEAN, current : BOOLEAN]
    PROVE  [row EXCEPT !.current = FALSE] \in [exists : BOOLEAN, current : BOOLEAN]
OBVIOUS

\* The steps that leave the calendar and the promotions alone.
LEMMA CalendarKept ==
    ASSUME PromotionInv, NEW o \in Workers, NEW next \in OfficeStates, SensibleOffice(next),
           next.at = "write" => ~next.current \/ next.stale \/ next = office[o],
           office' = [office EXCEPT ![o] = next] \/ office' = office,
           UNCHANGED <<calendar, promoted, raced, reopened>>, P!TypeOK'
    PROVE  PromotionInv'
<1>1. /\ OfficesSensible'
      /\ \A p \in Workers : office'[p] = office[p] \/ (office'[p] = next /\ p = o)
    <2>1. CASE office' = [office EXCEPT ![o] = next]
        BY <2>1, OfficeTurns
    <2>2. CASE office' = office
        BY <2>2 DEF PromotionInv, OfficesSensible, SensibleOffice
    <2> QED BY <2>1, <2>2
<1>2. P!Current' = P!Current
    BY DEF P!Current
<1>3. UnsetHolds'
    BY <1>1, <1>2 DEF PromotionInv, UnsetHolds
<1>4. P!OneCurrentSession'
    BY <1>2 DEF PromotionInv, P!OneCurrentSession
<1>5. NeverBack' /\ P!PromotedOnce'
    BY <1>2 DEF PromotionInv, NeverBack, P!PromotedOnce
<1> QED BY <1>1, <1>3, <1>4, <1>5 DEF PromotionInv

\* Whatever leaves the promotions alone and makes no earlier session current.
LEMMA PromotionsKept ==
    ASSUME PromotionInv, UNCHANGED promoted, reopened \subseteq reopened',
           \A z \in P!Current' : z \in P!Current \/ z \in reopened',
           P!Current \subseteq P!Years, P!Current' \subseteq P!Years
    PROVE  NeverBack' /\ P!PromotedOnce'
<1>1. NeverBack'
    <2> SUFFICES ASSUME NEW s \in Students, NEW y \in P!Years, promoted[s][y] > 0,
                        \A z \in reopened' : ~(z < y), NEW z \in P!Current'
                 PROVE  z >= y
        BY DEF NeverBack
    <2>1. \A x \in P!Current : x >= y
        BY DEF PromotionInv, NeverBack
    <2>2. z \in Nat /\ y \in Nat
        BY DEF P!Years
    <2> QED BY <2>1, <2>2
<1>2. P!PromotedOnce'
    BY DEF PromotionInv, P!PromotedOnce
<1> QED BY <1>1, <1>2

----------------------------------------------------------------------------
(* Sessions made by hand *)

LEMMA OfficeReads ==
    ASSUME PromotionInv, NEW o \in Workers, NEW y \in P!Years,
           P!SessionRead(o, y) \/ P!PromoteRead(o, y)
    PROVE  PromotionInv'
<1>1. PICK next \in OfficeStates :
         /\ SensibleOffice(next)
         /\ next.at = "write" => ~next.current
         /\ office' = [office EXCEPT ![o] = next]
    <2>1. CASE P!SessionRead(o, y)
        <3>1. PICK current \in BOOLEAN :
                 office' = [office EXCEPT ![o] =
                     [P!NoOffice EXCEPT !.at = IF current THEN "unset" ELSE "write",
                          !.year = y, !.new = ~calendar[y].exists, !.current = current]]
            BY <2>1 DEF P!SessionRead, P!Goto
        <3> DEFINE a == [P!NoOffice EXCEPT !.at = IF current THEN "unset" ELSE "write"]
        <3> DEFINE b == [a EXCEPT !.year = y]
        <3> DEFINE c == [b EXCEPT !.new = ~calendar[y].exists]
        <3> DEFINE next == [c EXCEPT !.current = current]
        <3>2. office' = [office EXCEPT ![o] = next]
            BY <3>1
        <3>3. a \in OfficeStates /\ a.at = IF current THEN "unset" ELSE "write"
            BY NoOfficeSensible DEF OfficeStates
        <3> HIDE DEF a
        <3>4. b \in OfficeStates /\ b.at = a.at
            BY <3>3 DEF OfficeStates
        <3> HIDE DEF b
        <3>5. c \in OfficeStates /\ c.at = a.at
            BY <3>4 DEF OfficeStates
        <3> HIDE DEF c
        <3>6. next \in OfficeStates /\ next.at = a.at /\ next.current = current
            BY <3>4, <3>5 DEF OfficeStates
        <3> HIDE DEF next
        <3> QED BY <3>2, <3>3, <3>6 DEF SensibleOffice
    <2>2. CASE P!PromoteRead(o, y)
        <3> DEFINE a == [P!NoOffice EXCEPT !.at = "snapshot"]
        <3> DEFINE next == [a EXCEPT !.year = y]
        <3>1. office' = [office EXCEPT ![o] = next] /\ y < MaxYear
            BY <2>2 DEF P!PromoteRead, P!Goto
        <3>2. a \in OfficeStates /\ a.at = "snapshot"
            BY NoOfficeSensible DEF OfficeStates
        <3> HIDE DEF a
        <3>3. next \in OfficeStates /\ next.at = "snapshot" /\ next.year = y
            BY <3>2 DEF OfficeStates
        <3> HIDE DEF next
        <3> QED BY <3>1, <3>3 DEF SensibleOffice
    <2> QED BY <2>1, <2>2
<1>2. UNCHANGED <<calendar, student, record, promoted, raced, edited, reopened>>
    BY DEF P!SessionRead, P!PromoteRead
<1>3. changes' \in 0..MaxChanges
    <2>1. changes' = changes \/ (changes < MaxChanges /\ changes' = changes + 1)
        BY DEF P!SessionRead, P!PromoteRead, P!Change
    <2> QED BY <2>1, PromotionAssumption DEF PromotionInv, P!TypeOK
<1>4. P!TypeOK'
    <2>1. office' \in [Workers -> OfficeStates]
        BY <1>1, OfficeTurns
    <2> QED BY <1>2, <1>3, <2>1 DEF PromotionInv, P!TypeOK, OfficeStates
<1> QED BY <1>1, <1>2, <1>4, CalendarKept

\* The others are not current any more, and what was seen of them is stale.
LEMMA SessionUnsets ==
    ASSUME PromotionInv, NEW o \in Workers, P!SessionUnset(o)
    PROVE  PromotionInv'
<1> DEFINE next == [office[o] EXCEPT !.at = "write"]
<1>1. office[o] \in OfficeStates
    BY DEF PromotionInv, P!TypeOK, OfficeStates
<1>2. next \in OfficeStates /\ next.at = "write" /\ next.year = office[o].year
    BY <1>1 DEF OfficeStates
<1>3. /\ P!Stale(o, next) /\ calendar' = P!Unset(o)
      /\ UNCHANGED <<student, record, promoted, raced, edited, reopened, changes>>
    BY DEF P!SessionUnset
<1> HIDE DEF next
<1>4. /\ office' \in [Workers -> OfficeStates] /\ OfficesSensible' /\ office'[o] = next
      /\ \A p \in Workers \ {o} : office'[p].at = "write" => office'[p].stale
    BY <1>2, <1>3, OfficesOvertaken DEF SensibleOffice
<1>5. calendar' \in [P!Years -> [exists : BOOLEAN, current : BOOLEAN]]
    <2>1. \A y \in P!Years : calendar[y] \in [exists : BOOLEAN, current : BOOLEAN]
        BY DEF PromotionInv, P!TypeOK
    <2>2. \A y \in P!Years :
             [calendar[y] EXCEPT !.current = FALSE] \in [exists : BOOLEAN, current : BOOLEAN]
        BY <2>1, ProfilesTyped
    <2>3. \A y \in P!Years : calendar'[y] = calendar[y]
                           \/ calendar'[y] = [calendar[y] EXCEPT !.current = FALSE]
        BY <1>3 DEF P!Unset
    <2>4. calendar' = [y \in P!Years |-> calendar'[y]]
        BY <1>3 DEF P!Unset
    <2> QED BY <2>1, <2>2, <2>3, <2>4
<1>6. /\ \A y \in P!Current' : y = office[o].year
      /\ P!Current' \subseteq P!Current /\ P!Current \subseteq P!Years
    BY <1>3 DEF PromotionInv, P!TypeOK, P!Unset, P!Current
<1>7. P!TypeOK'
    BY <1>3, <1>4, <1>5 DEF PromotionInv, P!TypeOK, OfficeStates
<1>8. UnsetHolds'
    BY <1>2, <1>4, <1>6 DEF UnsetHolds
<1>9. P!OneCurrentSession'
    BY <1>6 DEF P!OneCurrentSession
<1>10. NeverBack' /\ P!PromotedOnce'
    BY <1>3, <1>6, PromotionsKept
<1> QED BY <1>4, <1>7, <1>8, <1>9, <1>10 DEF PromotionInv

\* The session is the only current one, or somebody was overtaken.
LEMMA SessionWrites ==
    ASSUME PromotionInv, NEW o \in Workers, P!SessionWrite(o)
    PROVE  PromotionInv'
<1> DEFINE row == [exists |-> TRUE, current |-> office[o].current]
<1>1. PICK y \in P!Years : y = office[o].year
    BY DEF PromotionInv, P!TypeOK
<1>2. office[o].current \in BOOLEAN /\ office[o].stale \in BOOLEAN /\ office[o].at = "write"
    BY DEF P!SessionWrite, PromotionInv, P!TypeOK
<1>3. /\ calendar' = [calendar EXCEPT ![y] = row]
      /\ raced' = (raced \/ office[o].stale)
      /\ reopened' = IF office[o].current THEN reopened \cup {y} ELSE reopened
      /\ P!Stale(o, P!NoOffice)
      /\ UNCHANGED <<student, record, promoted, edited, changes>>
    BY <1>1 DEF P!SessionWrite
<1>4. /\ office' \in [Workers -> OfficeStates] /\ OfficesSensible' /\ office'[o] = P!NoOffice
      /\ \A p \in Workers \ {o} : office'[p].at = "write" => office'[p].stale
    BY <1>3, NoOfficeSensible, OfficesOvertaken
<1>5. /\ calendar' \in [P!Years -> [exists : BOOLEAN, current : BOOLEAN]]
      /\ calendar'[y].current = office[o].current
      /\ \A z \in P!Years \ {y} : calendar'[z] = calendar[z]
    BY <1>2, <1>3 DEF PromotionInv, P!TypeOK
<1>6. P!TypeOK'
    BY <1>2, <1>3, <1>4, <1>5 DEF PromotionInv, P!TypeOK, OfficeStates
<1>7. UnsetHolds'
    BY <1>4, NoOfficeSensible DEF UnsetHolds
<1>8. \A z \in P!Current' : z \in P!Years /\ ((z = y /\ office[o].current) \/ z \in P!Current)
    BY <1>5 DEF P!Current
<1>9. P!OneCurrentSession'
    <2>1. CASE raced \/ office[o].stale
        BY <1>3, <2>1 DEF P!OneCurrentSession
    <2>2. CASE ~raced /\ ~office[o].stale /\ office[o].current
        <3>1. \A z \in P!Current : z = y
            BY <1>1, <1>2, <2>2 DEF PromotionInv, UnsetHolds
        <3> QED BY <1>8, <3>1 DEF P!OneCurrentSession
    <2>3. CASE ~raced /\ ~office[o].current
        BY <1>8, <2>3 DEF PromotionInv, P!OneCurrentSession
    <2> QED BY <1>2, <2>1, <2>2, <2>3
<1>10. NeverBack' /\ P!PromotedOnce'
    <2>1. \A z \in P!Current' : z \in P!Current \/ z \in reopened'
        BY <1>3, <1>8
    <2>2. P!Current \subseteq P!Years /\ P!Current' \subseteq P!Years /\ reopened \subseteq reopened'
        BY <1>3 DEF P!Current
    <2> QED BY <1>3, <2>1, <2>2, PromotionsKept
<1> QED BY <1>4, <1>6, <1>7, <1>9, <1>10 DEF PromotionInv

\* A default session is the only current one, or made beside another.
LEMMA DefaultMade ==
    ASSUME PromotionInv, NEW o \in Workers, NEW y \in P!Years, P!DefaultSession(o, y)
    PROVE  PromotionInv'
<1> DEFINE row == [exists |-> TRUE, current |-> TRUE]
<1>1. /\ calendar' = [calendar EXCEPT ![y] = row]
      /\ raced' = (raced \/ P!Current # {})
      /\ reopened' = reopened \cup {y}
      /\ P!Stale(o, P!NoOffice)
      /\ UNCHANGED <<student, record, promoted, edited>>
    BY DEF P!DefaultSession
<1>2. /\ office' \in [Workers -> OfficeStates] /\ OfficesSensible' /\ office'[o] = P!NoOffice
      /\ \A p \in Workers \ {o} : office'[p].at = "write" => office'[p].stale
    BY <1>1, NoOfficeSensible, OfficesOvertaken
<1>3. /\ calendar' \in [P!Years -> [exists : BOOLEAN, current : BOOLEAN]]
      /\ \A z \in P!Years \ {y} : calendar'[z] = calendar[z]
    BY <1>1 DEF PromotionInv, P!TypeOK
<1>4. changes' \in 0..MaxChanges
    <2>1. changes < MaxChanges /\ changes' = changes + 1
        BY DEF P!DefaultSession, P!Change
    <2> QED BY <2>1, PromotionAssumption DEF PromotionInv, P!TypeOK
<1>5. raced' \in BOOLEAN /\ reopened' \subseteq P!Years
    BY <1>1 DEF PromotionInv, P!TypeOK
<1>6. P!TypeOK'
    BY <1>1, <1>2, <1>3, <1>4, <1>5 DEF PromotionInv, P!TypeOK, OfficeStates
<1>7. UnsetHolds'
    BY <1>2, NoOfficeSensible DEF UnsetHolds
<1>8. \A z \in P!Current' : z \in P!Years /\ (z = y \/ z \in P!Current)
    BY <1>3 DEF P!Current
<1>9. P!OneCurrentSession'
    <2>1. CASE raced \/ P!Current # {}
        BY <1>1, <2>1 DEF P!OneCurrentSession
    <2>2. CASE P!Current = {}
        BY <1>8, <2>2 DEF P!OneCurrentSession
    <2> QED BY <2>1, <2>2
<1>10. NeverBack' /\ P!PromotedOnce'
    <2>1. \A z \in P!Current' : z \in P!Current \/ z \in reopened'
        BY <1>1, <1>8
    <2>2. P!Current \subseteq P!Years /\ P!Current' \subseteq P!Years /\ reopened \subseteq reopened'
        BY <1>1 DEF P!Current
    <2> QED BY <1>1, <2>1, <2>2, PromotionsKept
<1> QED BY <1>2, <1>6, <1>7, <1>9, <1>10 DEF PromotionInv

----------------------------------------------------------------------------
(* Promotions *)

LEMMA LevelsSnapshot ==
    ASSUME PromotionInv, NEW o \in Workers, P!PromoteSnapshot(o)
    PROVE  PromotionInv'
<1> DEFINE levels == [s \in Students |->
                         IF student[s].status = "ACTIVE" THEN student[s].level ELSE None]
<1>1. office[o] \in OfficeStates /\ office[o].at = "snapshot" /\ office[o].year < MaxYear
    BY DEF P!PromoteSnapshot, PromotionInv, P!TypeOK, OfficeStates, OfficesSensible, SensibleOffice
<1>2. levels \in [Students -> P!Levels \cup {None}]
    BY DEF PromotionInv, P!TypeOK
<1>3. calendar[office[o].year + 1].exists \in BOOLEAN
    BY <1>1, PromotionAssumption DEF PromotionInv, P!TypeOK, OfficeStates, P!Years
<1>4. UNCHANGED <<calendar, student, record, promoted, raced, edited, reopened, changes>>
    BY DEF P!PromoteSnapshot
<1> DEFINE a == [office[o] EXCEPT !.at = "promote"]
<1> DEFINE b == [a EXCEPT !.next = calendar[office[o].year + 1].exists]
<1> DEFINE next == [b EXCEPT !.levels = levels]
<1>5. office' = [office EXCEPT ![o] = next]
    BY DEF P!PromoteSnapshot, P!Goto
<1>6. a \in OfficeStates /\ a.at = "promote" /\ a.year = office[o].year
    BY <1>1 DEF OfficeStates
<1> HIDE DEF a
<1>7. b \in OfficeStates /\ b.at = "promote" /\ b.year = office[o].year
    BY <1>3, <1>6 DEF OfficeStates
<1> HIDE DEF b, levels
<1>8. next \in OfficeStates /\ next.at = "promote" /\ next.year = office[o].year
    BY <1>2, <1>7 DEF OfficeStates
<1> HIDE DEF next
<1>9. SensibleOffice(next)
    BY <1>1, <1>8 DEF SensibleOffice
<1>10. P!TypeOK'
    <2>1. office' \in [Workers -> OfficeStates]
        BY <1>5, <1>8, <1>9, OfficeTurns
    <2> QED BY <1>4, <2>1 DEF PromotionInv, P!TypeOK, OfficeStates
<1> QED BY <1>4, <1>5, <1>8, <1>9, <1>10, CalendarKept

\* The claim: the session that is promoted is current, and no later one is.
LEMMA PromotionCommits ==
    ASSUME PromotionInv, NEW o \in Workers, P!PromoteCommit(o)
    PROVE  PromotionInv'
<1>1. /\ office[o] \in OfficeStates /\ office[o].at = "promote" /\ office[o].year < MaxYear
      /\ calendar[office[o].year].current
    BY DEF P!PromoteCommit, PromotionInv, P!TypeOK, OfficeStates, OfficesSensible, SensibleOffice, P!Claims
<1>2. PICK was \in P!Years, next \in P!Years :
         was = office[o].year /\ next = was + 1 /\ was \in P!Current
    BY <1>1, PromotionAssumption DEF OfficeStates, P!Years, P!Current
<1>3. /\ calendar' = [y \in P!Years |->
             IF y = next THEN [exists |-> TRUE, current |-> TRUE]
             ELSE [calendar[y] EXCEPT !.current = FALSE]]
      /\ student' = [s \in Students |->
             IF P!Graduates(o, s) THEN [student[s] EXCEPT !.status = "GRADUATED"]
             ELSE IF P!Moves(o, s) THEN [student[s] EXCEPT !.level = office[o].levels[s] + 1]
             ELSE student[s]]
      /\ promoted' = [s \in Students |->
             IF P!Moves(o, s) THEN [promoted[s] EXCEPT ![next] = @ + 1] ELSE promoted[s]]
      /\ record' = [s \in Students |->
             IF P!Moves(o, s) THEN P!RecordOfNext(o, s) ELSE record[s]]
      /\ P!Stale(o, P!NoOffice)
      /\ UNCHANGED <<raced, edited, reopened, changes>>
    BY <1>2 DEF P!PromoteCommit
<1>4. /\ office' \in [Workers -> OfficeStates] /\ OfficesSensible' /\ office'[o] = P!NoOffice
      /\ \A p \in Workers \ {o} : office'[p].at = "write" => office'[p].stale
    BY <1>3, NoOfficeSensible, OfficesOvertaken
<1>5. calendar' \in [P!Years -> [exists : BOOLEAN, current : BOOLEAN]]
    <2>1. \A y \in P!Years :
             calendar'[y] = [exists |-> TRUE, current |-> TRUE]
               \/ calendar'[y] = [calendar[y] EXCEPT !.current = FALSE]
        BY <1>3
    <2>2. calendar' = [y \in P!Years |-> calendar'[y]]
        BY <1>3
    <2>3. \A y \in P!Years : calendar[y] \in [exists : BOOLEAN, current : BOOLEAN]
        BY DEF PromotionInv, P!TypeOK
    <2>4. \A y \in P!Years :
             [calendar[y] EXCEPT !.current = FALSE] \in [exists : BOOLEAN, current : BOOLEAN]
        BY <2>3, ProfilesTyped
    <2>5. [exists |-> TRUE, current |-> TRUE] \in [exists : BOOLEAN, current : BOOLEAN]
        OBVIOUS
    <2>6. \A y \in P!Years : calendar'[y] \in [exists : BOOLEAN, current : BOOLEAN]
        BY <2>1, <2>4, <2>5
    <2> QED BY <2>2, <2>6
<1>6. P!Current' = {next}
    BY <1>3 DEF PromotionInv, P!TypeOK, P!Current
<1>7. \A s \in Students : P!Moves(o, s) => office[o].levels[s] + 1 \in P!Levels
    <2>1. \A s \in Students : office[o].levels[s] \in P!Levels \cup {None}
        BY <1>1 DEF OfficeStates
    <2> QED BY <2>1, PromotionAssumption DEF P!Moves, P!Graduates, P!Levels
<1>8. student' \in [Students -> [level : P!Levels, status : P!AcademicStatus]]
    <2>1. ASSUME NEW s \in Students
          PROVE  student'[s] \in [level : P!Levels, status : P!AcademicStatus]
        <3>1. student[s] \in [level : P!Levels, status : P!AcademicStatus]
            BY DEF PromotionInv, P!TypeOK
        <3>2. CASE P!Graduates(o, s)
            BY <1>3, <3>1, <3>2 DEF P!AcademicStatus
        <3>3. CASE ~P!Graduates(o, s) /\ P!Moves(o, s)
            BY <1>3, <1>7, <3>1, <3>3
        <3>4. CASE ~P!Graduates(o, s) /\ ~P!Moves(o, s)
            BY <1>3, <3>1, <3>4
        <3> QED BY <3>2, <3>3, <3>4
    <2>2. student' = [s \in Students |-> student'[s]]
        BY <1>3
    <2> QED BY <2>1, <2>2
<1>9. record' \in [Students -> [P!Years -> P!Levels \cup {None}]]
    <2>1. ASSUME NEW s \in Students
          PROVE  record'[s] \in [P!Years -> P!Levels \cup {None}]
        <3>1. record[s] \in [P!Years -> P!Levels \cup {None}]
            BY DEF PromotionInv, P!TypeOK
        <3>2. CASE P!Moves(o, s)
            <4>1. record'[s] = [record[s] EXCEPT ![next] = office[o].levels[s] + 1]
                BY <1>2, <1>3, <3>2 DEF P!RecordOfNext
            <4> QED BY <1>7, <3>1, <3>2, <4>1
        <3>3. CASE ~P!Moves(o, s)
            BY <1>3, <3>1, <3>3
        <3> QED BY <3>2, <3>3
    <2>2. record' = [s \in Students |-> record'[s]]
        BY <1>3
    <2> QED BY <2>1, <2>2
<1>10. /\ promoted' \in [Students -> [P!Years -> Nat]]
       /\ \A s \in Students, y \in P!Years :
             promoted'[s][y] = promoted[s][y]
               \/ (y = next /\ promoted'[s][y] = promoted[s][y] + 1)
    <2>1. ASSUME NEW s \in Students
          PROVE  /\ promoted'[s] \in [P!Years -> Nat]
                 /\ \A y \in P!Years :
                       promoted'[s][y] = promoted[s][y]
                         \/ (y = next /\ promoted'[s][y] = promoted[s][y] + 1)
        <3>1. promoted[s] \in [P!Years -> Nat]
            BY DEF PromotionInv, P!TypeOK
        <3>2. promoted'[s] = [promoted[s] EXCEPT ![next] = @ + 1] \/ promoted'[s] = promoted[s]
            BY <1>3
        <3> QED BY <3>1, <3>2
    <2>2. promoted' = [s \in Students |-> promoted'[s]]
        BY <1>3
    <2> QED BY <2>1, <2>2
<1>11. P!TypeOK'
    BY <1>3, <1>4, <1>5, <1>8, <1>9, <1>10 DEF PromotionInv, P!TypeOK, OfficeStates
<1>12. UnsetHolds' /\ P!OneCurrentSession'
    BY <1>4, <1>6, NoOfficeSensible DEF UnsetHolds, P!OneCurrentSession
<1>13. \A s \in Students, y \in P!Years :
           promoted[s][y] > 0 => (\E z \in reopened : z < y) \/ y <= was
    BY <1>2 DEF PromotionInv, NeverBack, P!Years
<1>14. \A s \in Students, y \in P!Years : promoted[s][y] \in Nat
    BY DEF PromotionInv, P!TypeOK
<1>15. NeverBack'
    <2> SUFFICES ASSUME NEW s \in Students, NEW y \in P!Years, promoted'[s][y] > 0,
                        ~\E z \in reopened : z < y
                 PROVE  next >= y
        BY <1>3, <1>6 DEF NeverBack
    <2>1. CASE y = next
        BY <2>1 DEF P!Years
    <2>2. CASE y # next
        BY <1>2, <1>10, <1>13, <2>2 DEF P!Years
    <2> QED BY <2>1, <2>2
<1>16. P!PromotedOnce'
    <2> SUFFICES ASSUME NEW s \in Students, NEW y \in P!Years, promoted'[s][y] > 1
                 PROVE  \E z \in reopened : z < y
        BY <1>3 DEF P!PromotedOnce
    <2>1. CASE promoted'[s][y] = promoted[s][y]
        BY <2>1 DEF PromotionInv, P!PromotedOnce
    <2>2. CASE y = next /\ promoted'[s][y] = promoted[s][y] + 1
        <3>1. promoted[s][y] > 0 /\ ~(y <= was)
            BY <1>2, <1>14, <2>2 DEF P!Years
        <3> QED BY <1>13, <3>1
    <2> QED BY <1>10, <2>1, <2>2
<1> QED BY <1>4, <1>11, <1>12, <1>15, <1>16 DEF PromotionInv

----------------------------------------------------------------------------
(* Students and their records *)

LEMMA LevelRecords ==
    ASSUME PromotionInv, NEW o \in Workers,
           NEW s \in Students, NEW y \in P!Years, NEW l \in P!Levels, P!RecordRead(o, s, y, l)
    PROVE  PromotionInv'
<1> DEFINE a == [P!NoOffice EXCEPT !.at = "record"]
<1> DEFINE b == [a EXCEPT !.year = y]
<1> DEFINE c == [b EXCEPT !.student = s]
<1> DEFINE d == [c EXCEPT !.level = l]
<1> DEFINE next == [d EXCEPT !.differs = (l # student[s].level)]
<1>1. office' = [office EXCEPT ![o] = next]
    BY DEF P!RecordRead, P!Goto
<1>2. /\ UNCHANGED <<calendar, student, record, promoted, raced, edited, reopened>>
      /\ changes < MaxChanges /\ changes' = changes + 1
    BY DEF P!RecordRead, P!Change
<1>3. a \in OfficeStates /\ a.at = "record"
    BY NoOfficeSensible DEF OfficeStates
<1> HIDE DEF a
<1>4. b \in OfficeStates /\ b.at = "record"
    BY <1>3 DEF OfficeStates
<1> HIDE DEF b
<1>5. c \in OfficeStates /\ c.at = "record" /\ c.student = s
    BY <1>4 DEF OfficeStates
<1> HIDE DEF c
<1>6. d \in OfficeStates /\ d.at = "record" /\ d.student = s
    BY <1>5 DEF OfficeStates
<1> HIDE DEF d
<1>7. next \in OfficeStates /\ next.at = "record" /\ next.student = s
    BY <1>6 DEF OfficeStates
<1> HIDE DEF next
<1>8. SensibleOffice(next)
    BY <1>7 DEF SensibleOffice
<1>9. P!TypeOK'
    <2>1. office' \in [Workers -> OfficeStates]
        BY <1>1, <1>7, <1>8, OfficeTurns
    <2>2. changes' \in 0..MaxChanges
        BY <1>2, PromotionAssumption DEF PromotionInv, P!TypeOK
    <2> QED BY <1>2, <2>1, <2>2 DEF PromotionInv, P!TypeOK, OfficeStates
<1> QED BY <1>1, <1>2, <1>7, <1>8, <1>9, CalendarKept

\* The record is inserted, the profile follows; or nothing more is done.
LEMMA LevelRecordSteps ==
    ASSUME PromotionInv, NEW o \in Workers,
           P!RecordInsert(o) \/ P!RecordLevel(o) \/ P!PromoteRefused(o) \/ P!OfficeStops(o)
    PROVE  PromotionInv'
<1>1. office[o] \in OfficeStates /\ SensibleOffice(office[o])
    BY DEF PromotionInv, P!TypeOK, OfficeStates, OfficesSensible
<1>2. PICK next \in OfficeStates :
         /\ SensibleOffice(next) /\ next.at # "write"
         /\ office' = [office EXCEPT ![o] = next]
    <2>1. CASE office' = [office EXCEPT ![o] = P!NoOffice]
        BY <2>1, NoOfficeSensible
    <2>2. CASE P!RecordInsert(o) /\ office' = [office EXCEPT ![o] = [office[o] EXCEPT !.at = "level"]]
        <3> DEFINE next == [office[o] EXCEPT !.at = "level"]
        <3>1. next \in OfficeStates /\ next.at = "level" /\ next.student = office[o].student
            BY <1>1 DEF OfficeStates
        <3>2. office[o].student \in Students
            BY <1>1, <2>2 DEF P!RecordInsert, SensibleOffice
        <3>3. office' = [office EXCEPT ![o] = next]
            BY <2>2
        <3> HIDE DEF next
        <3> QED BY <3>1, <3>2, <3>3 DEF SensibleOffice
    <2> QED BY <2>1, <2>2 DEF P!RecordInsert, P!RecordLevel, P!PromoteRefused, P!OfficeStops, P!Goto
<1>3. UNCHANGED <<calendar, promoted, raced, reopened, changes>>
    BY DEF P!RecordInsert, P!RecordLevel, P!PromoteRefused, P!OfficeStops
<1>4. record' \in [Students -> [P!Years -> P!Levels \cup {None}]] /\ edited' \subseteq Students
    <2>1. CASE P!RecordInsert(o)
        <3>1. office[o].student \in Students
            BY <1>1, <2>1 DEF P!RecordInsert, SensibleOffice
        <3>2. office[o].level \in P!Levels /\ office[o].year \in P!Years
            BY <1>1 DEF OfficeStates
        <3>3. record' \in [Students -> [P!Years -> P!Levels \cup {None}]]
            BY <2>1, <3>1, <3>2 DEF P!RecordInsert, PromotionInv, P!TypeOK
        <3>4. edited' \subseteq Students
            BY <2>1, <3>1 DEF P!RecordInsert, PromotionInv, P!TypeOK
        <3> QED BY <3>3, <3>4
    <2>2. CASE P!RecordLevel(o)
        <3>1. office[o].student \in Students
            BY <1>1, <2>2 DEF P!RecordLevel, SensibleOffice
        <3> QED BY <2>2, <3>1 DEF P!RecordLevel, PromotionInv, P!TypeOK
    <2>3. CASE UNCHANGED <<record, edited>>
        BY <2>3 DEF PromotionInv, P!TypeOK
    <2> QED BY <2>1, <2>2, <2>3 DEF P!PromoteRefused, P!OfficeStops
<1>5. student' \in [Students -> [level : P!Levels, status : P!AcademicStatus]]
    <2>1. CASE P!RecordLevel(o)
        <3>1. office[o].level \in P!Levels
            BY <1>1 DEF OfficeStates
        <3>2. student' = [student EXCEPT ![office[o].student].level = office[o].level]
            BY <2>1 DEF P!RecordLevel
        <3>3. student \in [Students -> [level : P!Levels, status : P!AcademicStatus]]
            BY DEF PromotionInv, P!TypeOK
        <3> QED BY <3>1, <3>2, <3>3
    <2>2. CASE UNCHANGED student
        BY <2>2 DEF PromotionInv, P!TypeOK
    <2> QED BY <2>1, <2>2 DEF P!RecordInsert, P!PromoteRefused, P!OfficeStops
<1>6. P!TypeOK'
    <2>1. office' \in [Workers -> OfficeStates]
        BY <1>2, OfficeTurns
    <2> QED BY <1>3, <1>4, <1>5, <2>1 DEF PromotionInv, P!TypeOK, OfficeStates
<1> QED BY <1>2, <1>3, <1>6, CalendarKept

\* What does not touch the sessions, the promotions or the handlers.
LEMMA ProfilesOnly ==
    ASSUME PromotionInv, P!TypeOK', UNCHANGED <<calendar, promoted, office, raced, reopened>>
    PROVE  PromotionInv'
<1>1. P!Current' = P!Current
    BY DEF P!Current
<1>2. OfficesSensible' /\ UnsetHolds'
    BY <1>1 DEF PromotionInv, OfficesSensible, UnsetHolds, SensibleOffice
<1>3. P!OneCurrentSession' /\ NeverBack' /\ P!PromotedOnce'
    BY <1>1 DEF PromotionInv, P!OneCurrentSession, NeverBack, P!PromotedOnce
<1> QED BY <1>2, <1>3 DEF PromotionInv

LEMMA ProfileChanges ==
    ASSUME PromotionInv, NEW s \in Students, NEW l \in P!Levels,
           P!CreateStudent(s, l) \/ P!UpdateStudent(s, l)
    PROVE  PromotionInv'
<1>1. /\ UNCHANGED <<calendar, record, promoted, office, raced, reopened>>
      /\ edited' \subseteq Students
      /\ \E a \in P!AcademicStatus :
             student' = [student EXCEPT ![s] = [level |-> l, status |-> a]]
    BY DEF P!CreateStudent, P!UpdateStudent, PromotionInv, P!TypeOK, P!AcademicStatus
<1>2. changes' \in 0..MaxChanges
    <2>1. changes' = changes \/ (changes < MaxChanges /\ changes' = changes + 1)
        BY DEF P!CreateStudent, P!UpdateStudent, P!Change
    <2> QED BY <2>1, PromotionAssumption DEF PromotionInv, P!TypeOK
<1>3. student' \in [Students -> [level : P!Levels, status : P!AcademicStatus]]
    BY <1>1 DEF PromotionInv, P!TypeOK
<1>4. P!TypeOK'
    BY <1>1, <1>2, <1>3 DEF PromotionInv, P!TypeOK
<1> QED BY <1>1, <1>4, ProfilesOnly

----------------------------------------------------------------------------
LEMMA PromotionStarts == P!Init => PromotionInv
<1> SUFFICES ASSUME P!Init PROVE PromotionInv
    OBVIOUS
<1>1. 1 \in P!Years /\ 1 \in P!Levels
    BY PromotionAssumption DEF P!Years, P!Levels
<1>2. P!TypeOK
    <2>1. office \in [Workers -> OfficeStates]
        BY NoOfficeSensible DEF P!Init
    <2>2. calendar \in [P!Years -> [exists : BOOLEAN, current : BOOLEAN]]
        BY DEF P!Init
    <2>3. student \in [Students -> [level : P!Levels, status : P!AcademicStatus]]
        BY <1>1 DEF P!Init, P!AcademicStatus
    <2>4. record \in [Students -> [P!Years -> P!Levels \cup {None}]]
        BY DEF P!Init
    <2>5. promoted \in [Students -> [P!Years -> Nat]]
        BY DEF P!Init
    <2>6. /\ raced \in BOOLEAN /\ edited \subseteq Students /\ reopened \subseteq P!Years
          /\ changes \in 0..MaxChanges
        <3>1. raced \in BOOLEAN
            BY DEF P!Init
        <3>2. edited = {} /\ reopened = {} /\ changes = 0
            BY DEF P!Init
        <3> QED BY <3>1, <3>2, PromotionAssumption
    <2> QED BY <2>1, <2>2, <2>3, <2>4, <2>5, <2>6, Zenon DEF P!TypeOK, OfficeStates
<1>3. \A o \in Workers : office[o] = P!NoOffice
    BY DEF P!Init
<1>4. OfficesSensible /\ UnsetHolds
    BY <1>3, NoOfficeSensible DEF OfficesSensible, UnsetHolds
<1>5. P!OneCurrentSession
    <2>1. PICK made \in SUBSET P!Years : \E y \in made \cup {None} :
             calendar = [z \in P!Years |-> [exists |-> z \in made, current |-> z = y]]
        BY DEF P!Init
    <2>2. PICK y : calendar = [z \in P!Years |-> [exists |-> z \in made, current |-> z = y]]
        BY <2>1
    <2>3. \A z \in P!Years : calendar[z].current => z = y
        BY <2>2, Zenon
    <2> QED BY <2>3 DEF P!OneCurrentSession, P!Current
<1>6. NeverBack /\ P!PromotedOnce
    BY DEF P!Init, NeverBack, P!PromotedOnce
<1> QED BY <1>2, <1>4, <1>5, <1>6 DEF PromotionInv

LEMMA PromotionInductive == PromotionInv /\ [P!Next]_(P!vars) => PromotionInv'
<1> SUFFICES ASSUME PromotionInv, [P!Next]_(P!vars) PROVE PromotionInv'
    OBVIOUS
<1>1. ASSUME NEW o \in Workers, P!RegistrarStep(o)
      PROVE  PromotionInv'
    BY <1>1, OfficeReads, SessionUnsets, SessionWrites, DefaultMade, LevelsSnapshot,
       PromotionCommits, LevelRecords, LevelRecordSteps DEF P!RegistrarStep
<1>2. ASSUME NEW s \in Students, NEW l \in P!Levels, P!CreateStudent(s, l) \/ P!UpdateStudent(s, l)
      PROVE  PromotionInv'
    BY <1>2, ProfileChanges
<1>3. CASE UNCHANGED P!vars
    <2>1. P!TypeOK'
        BY <1>3 DEF P!vars, PromotionInv, P!TypeOK
    <2> QED BY <1>3, <2>1, ProfilesOnly DEF P!vars
<1> QED BY <1>1, <1>2, <1>3 DEF P!Next

\* An institution has one current session at most, unless two handlers changed
\* it at once or a default session was made beside it (createAcademicSession,
\* updateAcademicSession, promoteInstitution, getOrCreateDefaultSession).
THEOREM OneCurrent == P!Spec => []P!OneCurrentSession
<1>1. PromotionInv => P!OneCurrentSession
    BY DEF PromotionInv
<1> QED BY <1>1, PromotionStarts, PromotionInductive, PTL DEF P!Spec

\* A student is promoted once from a session and once into it at most, unless an
\* earlier session was made current again by hand (promote).
THEOREM PromotesOnce == P!Spec => []P!PromotedOnce
<1>1. PromotionInv => P!PromotedOnce
    BY DEF PromotionInv
<1> QED BY <1>1, PromotionStarts, PromotionInductive, PTL DEF P!Spec

\* Every variable keeps its type (the handlers of sessions and promotions).
THEOREM PromotionsTypeCorrect == P!Spec => []P!TypeOK
<1>1. PromotionInv => P!TypeOK
    BY DEF PromotionInv
<1> QED BY <1>1, PromotionStarts, PromotionInductive, PTL DEF P!Spec

LEMMA PromotionsSide == ServicesSpec => P!Spec
<1>1. ServicesInit => P!Init
    BY DEF ServicesInit
<1>2. [ServicesNext]_allvars => [P!Next]_(P!vars)
    BY DEF ServicesNext, allvars, electionVars, sessionVars, resetVars, activityVars,
           promotionVars, membershipVars, approvalVars, P!vars
<1> QED BY <1>1, <1>2, PTL DEF ServicesSpec, P!Spec

\* One session is current at most, in the services side by side, with the same
\* exceptions (createAcademicSession, updateAcademicSession).
THEOREM OneSessionIsCurrent == ServicesSpec => []OneCurrentSession
BY PromotionsSide, OneCurrent, PTL DEF OneCurrentSession

\* A student is promoted once at most for a session, in the services side by
\* side (promote).
THEOREM StudentsPromotedOnce == ServicesSpec => []PromotedOnce
BY PromotionsSide, PromotesOnce, PTL DEF PromotedOnce

----------------------------------------------------------------------------
(* Memberships *)

\* A place is the pair of its organisation and its student.
ClerkStates ==
    [at : {"idle", "assert", "insert", "approve", "count", "standing",
           "accept", "reject", "cancel", "revert", "write", "onboard"},
     task : {"none", "join", "add", "review", "update", "onboard", "status"},
     place : Places \cup {None}, result : {"PENDING", "ACTIVE"},
     standing : M!Standings, stale : BOOLEAN, ended : SUBSET Places]

\* A handler at work has a place, and is where its task takes it.
PlacedClerk(next) ==
    /\ next.at # "idle" => next.place \in Places
    /\ next.at \in {"insert", "approve", "count"} => next.task \in {"join", "add", "review"}
    /\ next.at = "accept" => next.task = "review"
    /\ next.at = "onboard" => next.result = "ACTIVE"
    /\ next.at = "assert" => next.task \in {"join", "add", "review", "update"}
ClerksPlaced == \A w \in Workers : PlacedClerk(clerk[w])

\* A handler that has made sure of the student is about to activate it.
ActivatesOf(next, u) ==
    /\ next.at \in {"insert", "write", "onboard"}
    /\ next.result = "ACTIVE" /\ next.place[2] = u

\* A membership that is the handler's own, or that the onboarding will end.
OutOfTheWay(next, q) == q = next.place \/ (next.at = "onboard" /\ q \in next.ended)

\* Of a student no two of whose activations overlapped, one membership is
\* active at most, one handler is about to activate, and only if no other is.
OneActive ==
    \A p, q \in Places :
        membership[p] = "ACTIVE" /\ membership[q] = "ACTIVE" /\ p[2] = q[2] /\ p[2] \notin doubled
          => p = q
NoneInTheWay ==
    \A w \in Workers, q \in Places :
        ActivatesOf(clerk[w], q[2]) /\ q[2] \notin doubled /\ membership[q] = "ACTIVE"
          => OutOfTheWay(clerk[w], q)
OneActivates ==
    \A v, w \in Workers : \A u \in M!Members \ doubled :
        ActivatesOf(clerk[v], u) /\ ActivatesOf(clerk[w], u) => v = w

\* What a handler knows of the organisation's status, if it has not changed:
\* whether it is a draft, or that what the handler will write follows it.
KnowsStanding(next) ==
    ~next.stale =>
        /\ (/\ next.at \in {"assert", "insert", "approve", "count", "accept"}
            /\ next.task # "update" /\ next.standing = "DRAFT")
             => standing[next.place[1]] = "DRAFT"
        /\ next.at = "standing" =>
             next.standing \in M!Transitions[standing[next.place[1]]] \cup {"ACTIVE", "ARCHIVED"}
StandingKnown == \A w \in Workers : KnowsStanding(clerk[w])

MemberInv == M!TypeOK /\ ClerksPlaced /\ OneActive /\ NoneInTheWay /\ OneActivates /\ StandingKnown

----------------------------------------------------------------------------
LEMMA NoClerkPlaced ==
    M!NoClerk \in ClerkStates /\ PlacedClerk(M!NoClerk) /\ M!NoClerk.at = "idle" /\ KnowsStanding(M!NoClerk)
BY DEF M!NoClerk, ClerkStates, PlacedClerk, M!Standings, KnowsStanding

\* The handler w turns to what next says.
LEMMA ClerkTurns ==
    ASSUME MemberInv, NEW w \in Workers, NEW next \in ClerkStates, PlacedClerk(next), KnowsStanding(next),
           clerk' = [clerk EXCEPT ![w] = next], UNCHANGED standing
    PROVE  /\ clerk' \in [Workers -> ClerkStates] /\ ClerksPlaced' /\ StandingKnown'
           /\ \A v \in Workers : clerk'[v] = IF v = w THEN next ELSE clerk[v]
<1>1. clerk \in [Workers -> ClerkStates]
    BY DEF MemberInv, M!TypeOK, ClerkStates
<1>2. \A v \in Workers : clerk'[v] = IF v = w THEN next ELSE clerk[v]
    BY <1>1
<1>3. ClerksPlaced'
    BY <1>2 DEF MemberInv, ClerksPlaced, PlacedClerk
<1>4. StandingKnown'
    BY <1>2 DEF MemberInv, StandingKnown, KnowsStanding
<1> QED BY <1>1, <1>2, <1>3, <1>4

\* The handler is where it was, about the same memberships.
SameClerk(w) == /\ clerk'[w].at = clerk[w].at /\ clerk'[w].place = clerk[w].place
                /\ clerk'[w].ended = clerk[w].ended

\* The steps that neither activate a membership nor make sure of a student.
LEMMA NothingActivated ==
    ASSUME MemberInv, M!TypeOK', doubled \subseteq doubled',
           \A p \in Places : membership'[p] = "ACTIVE" => membership[p] = "ACTIVE",
           \A w \in Workers : \A u \in M!Members :
               ActivatesOf(clerk'[w], u) => ActivatesOf(clerk[w], u) /\ SameClerk(w)
    PROVE  OneActive' /\ NoneInTheWay' /\ OneActivates'
<1>1. OneActive'
    <2> SUFFICES ASSUME NEW p \in Places, NEW q \in Places, membership'[p] = "ACTIVE",
                        membership'[q] = "ACTIVE", p[2] = q[2], p[2] \notin doubled'
                 PROVE  p = q
        BY DEF OneActive
    <2> QED BY DEF MemberInv, OneActive
<1>2. NoneInTheWay'
    <2>1. \A q \in Places : q[2] \in M!Members
        BY DEF M!Members
    <2> SUFFICES ASSUME NEW w \in Workers, NEW q \in Places, ActivatesOf(clerk'[w], q[2]),
                        q[2] \notin doubled', membership'[q] = "ACTIVE"
                 PROVE  OutOfTheWay(clerk'[w], q)
        BY DEF NoneInTheWay, ActivatesOf, OutOfTheWay
    <2>2. ActivatesOf(clerk[w], q[2]) /\ SameClerk(w)
        BY <2>1
    <2> QED BY <2>2 DEF MemberInv, NoneInTheWay, OutOfTheWay, SameClerk
<1>3. OneActivates'
    <2> SUFFICES ASSUME NEW v \in Workers, NEW w \in Workers, NEW u \in M!Members \ doubled',
                        ActivatesOf(clerk'[v], u), ActivatesOf(clerk'[w], u)
                 PROVE  v = w
        BY DEF OneActivates, ActivatesOf
    <2> QED BY DEF MemberInv, OneActivates
<1> QED BY <1>1, <1>2, <1>3

\* A handler turns to something that activates nothing; the rows of the
\* memberships stay.
LEMMA ClerkMoves ==
    ASSUME MemberInv, NEW w \in Workers, NEW next \in ClerkStates, PlacedClerk(next), KnowsStanding(next),
           next.at \notin {"insert", "write", "onboard"} \/ next.result = "PENDING",
           clerk' = [clerk EXCEPT ![w] = next],
           UNCHANGED <<standing, membership, doubled>>,
           request' \in [Places -> {"none", "PENDING", "APPROVED", "REJECTED"}],
           cut' \subseteq Places
    PROVE  MemberInv'
<1>1. /\ clerk' \in [Workers -> ClerkStates] /\ ClerksPlaced' /\ StandingKnown'
      /\ \A v \in Workers : clerk'[v] = IF v = w THEN next ELSE clerk[v]
    BY ClerkTurns
<1>2. M!TypeOK'
    BY <1>1 DEF MemberInv, M!TypeOK, ClerkStates
<1>3. OneActive' /\ NoneInTheWay' /\ OneActivates'
    BY <1>1, <1>2, NothingActivated DEF ActivatesOf, SameClerk
<1> QED BY <1>1, <1>2, <1>3 DEF MemberInv

----------------------------------------------------------------------------
(* The handlers that read *)

LEMMA DraftKnown ==
    ASSUME NEW o PROVE M!Draft(o) \in M!Standings /\ (M!Draft(o) = "DRAFT" => standing[o] = "DRAFT")
BY DEF M!Draft, M!Standings

LEMMA ReadsKeep ==
    ASSUME MemberInv, NEW w \in Workers, NEW p \in Places,
           M!JoinRead(w, p) \/ M!AddRead(w, p) \/ M!ReviewRead(w, p) \/ M!UpdateRead(w, p)
    PROVE  MemberInv'
<1>0. /\ standing \in [M!Organisations -> M!Standings] /\ p[1] \in M!Organisations
      /\ request \in [Places -> {"none", "PENDING", "APPROVED", "REJECTED"}] /\ cut \subseteq Places
    BY DEF MemberInv, M!TypeOK, M!Organisations
<1>1. CASE M!JoinRead(w, p)
    <2> DEFINE next == [M!NoClerk EXCEPT !.at = "assert", !.task = "join", !.place = p,
                            !.standing = standing[p[1]]]
    <2>1. next \in ClerkStates /\ PlacedClerk(next) /\ KnowsStanding(next) /\ next.at = "assert"
        BY <1>0 DEF M!NoClerk, ClerkStates, PlacedClerk, KnowsStanding
    <2>2. clerk' = [clerk EXCEPT ![w] = next]
        BY <1>1 DEF M!JoinRead, M!Goto
    <2>3. /\ request' \in [Places -> {"none", "PENDING", "APPROVED", "REJECTED"}]
          /\ UNCHANGED <<standing, membership, doubled, cut>>
        BY <1>0, <1>1 DEF M!JoinRead
    <2> HIDE DEF next
    <2> QED BY <1>0, <2>1, <2>2, <2>3, ClerkMoves
<1>2. CASE M!AddRead(w, p)
    <2>1. PICK s \in {"PENDING", "ACTIVE"} :
              M!Goto(w, [M!NoClerk EXCEPT !.at = "assert", !.task = "add", !.place = p,
                           !.result = s, !.standing = M!Draft(p[1])])
        BY <1>2 DEF M!AddRead
    <2> DEFINE next == [M!NoClerk EXCEPT !.at = "assert", !.task = "add", !.place = p,
                            !.result = s, !.standing = M!Draft(p[1])]
    <2>2. next \in ClerkStates /\ PlacedClerk(next) /\ KnowsStanding(next) /\ next.at = "assert"
        BY <1>0, DraftKnown DEF M!NoClerk, ClerkStates, PlacedClerk, KnowsStanding
    <2>3. clerk' = [clerk EXCEPT ![w] = next]
        BY <2>1 DEF M!Goto
    <2>4. UNCHANGED <<standing, membership, request, doubled, cut>>
        BY <1>2 DEF M!AddRead
    <2> HIDE DEF next
    <2> QED BY <1>0, <2>2, <2>3, <2>4, ClerkMoves
<1>3. CASE M!ReviewRead(w, p)
    <2>1. PICK point \in {"accept", "reject", "cancel"} :
              M!Goto(w, [M!NoClerk EXCEPT !.at = point, !.task = "review", !.place = p,
                           !.standing = M!Draft(p[1])])
        BY <1>3 DEF M!ReviewRead
    <2> DEFINE next == [M!NoClerk EXCEPT !.at = point, !.task = "review", !.place = p,
                            !.standing = M!Draft(p[1])]
    <2>2. next \in ClerkStates /\ PlacedClerk(next) /\ KnowsStanding(next) /\ next.at \notin {"insert", "write", "onboard"}
        BY <1>0, DraftKnown DEF M!NoClerk, ClerkStates, PlacedClerk, KnowsStanding
    <2>3. clerk' = [clerk EXCEPT ![w] = next]
        BY <2>1 DEF M!Goto
    <2>4. UNCHANGED <<standing, membership, request, doubled, cut>>
        BY <1>3 DEF M!ReviewRead
    <2> HIDE DEF next
    <2> QED BY <1>0, <2>2, <2>3, <2>4, ClerkMoves
<1>4. CASE M!UpdateRead(w, p)
    <2>1. UNCHANGED <<standing, membership, request, doubled, cut>>
        BY <1>4 DEF M!UpdateRead
    <2>2. CASE M!Goto(w, [M!NoClerk EXCEPT !.at = "assert", !.task = "update", !.place = p])
        <3> DEFINE next == [M!NoClerk EXCEPT !.at = "assert", !.task = "update", !.place = p]
        <3>1. next \in ClerkStates /\ PlacedClerk(next) /\ KnowsStanding(next) /\ next.at = "assert"
            BY DEF M!NoClerk, ClerkStates, PlacedClerk, KnowsStanding, M!Standings
        <3>2. clerk' = [clerk EXCEPT ![w] = next]
            BY <2>2 DEF M!Goto
        <3> HIDE DEF next
        <3> QED BY <1>0, <2>1, <3>1, <3>2, ClerkMoves
    <2>3. CASE M!Goto(w, [M!NoClerk EXCEPT !.at = "write", !.task = "update", !.place = p,
                            !.result = "PENDING"])
        <3> DEFINE next == [M!NoClerk EXCEPT !.at = "write", !.task = "update", !.place = p,
                                !.result = "PENDING"]
        <3>1. next \in ClerkStates /\ PlacedClerk(next) /\ KnowsStanding(next) /\ next.result = "PENDING"
            BY DEF M!NoClerk, ClerkStates, PlacedClerk, KnowsStanding, M!Standings
        <3>2. clerk' = [clerk EXCEPT ![w] = next]
            BY <2>3 DEF M!Goto
        <3> HIDE DEF next
        <3> QED BY <1>0, <2>1, <3>1, <3>2, ClerkMoves
    <2> QED BY <1>4, <2>2, <2>3 DEF M!UpdateRead
<1> QED BY <1>1, <1>2, <1>3, <1>4

LEMMA StandingReadKeeps ==
    ASSUME MemberInv, NEW w \in Workers, NEW o \in M!Organisations, M!StandingRead(w, o)
    PROVE  MemberInv'
<1> DEFINE place == CHOOSE p \in Places : p[1] = o
<1>1. place \in Places /\ place[1] = o
    BY DEF M!Organisations
<1>2. PICK s \in Orders :
          /\ \/ s \in M!Allowed(o)
             \/ s = "ACTIVE" /\ standing[o] # s /\ M!ActiveIn(o) # {}
             \/ s = "ARCHIVED" /\ standing[o] # s
          /\ M!Goto(w, [M!NoClerk EXCEPT !.at = "standing", !.task = "status",
                          !.place = place, !.standing = s])
    BY DEF M!StandingRead
<1> HIDE DEF place
<1> DEFINE next == [M!NoClerk EXCEPT !.at = "standing", !.task = "status", !.place = place, !.standing = s]
<1>3. next \in ClerkStates /\ PlacedClerk(next) /\ next.at = "standing"
    BY <1>1, PlacesAssumption DEF M!NoClerk, ClerkStates, PlacedClerk, M!Standings
<1>4. KnowsStanding(next)
    BY <1>1, <1>2 DEF M!NoClerk, KnowsStanding, M!Allowed
<1>5. clerk' = [clerk EXCEPT ![w] = next]
    BY <1>2 DEF M!Goto
<1>6. UNCHANGED <<standing, membership, request, doubled, cut>>
    BY DEF M!StandingRead
<1>7. /\ request \in [Places -> {"none", "PENDING", "APPROVED", "REJECTED"}] /\ cut \subseteq Places
    BY DEF MemberInv, M!TypeOK
<1> HIDE DEF next
<1> QED BY <1>3, <1>4, <1>5, <1>6, <1>7, ClerkMoves

----------------------------------------------------------------------------
(* The handlers that go on *)

\* A handler that only moves on or back keeps its place and its standing.
LEMMA ClerkSteps ==
    ASSUME MemberInv, NEW w \in Workers,
           NEW point \in {"approve", "assert", "insert", "count", "revert", "write"},
           clerk[w].at # "idle",
           point \in {"approve", "count"} => clerk[w].at \in {"insert", "approve"},
           point = "assert" => clerk[w].at = "accept",
           point = "insert" => clerk[w].at = "assert" /\ clerk[w].task # "update",
           NEW next, next = [clerk[w] EXCEPT !.at = point]
    PROVE  /\ next \in ClerkStates /\ PlacedClerk(next) /\ KnowsStanding(next) /\ next.at = point
           /\ next.result = clerk[w].result /\ next.place = clerk[w].place
<1>1. clerk[w] \in ClerkStates /\ PlacedClerk(clerk[w]) /\ KnowsStanding(clerk[w])
    BY DEF MemberInv, M!TypeOK, ClerkStates, ClerksPlaced, StandingKnown
<1> QED BY <1>1 DEF ClerkStates, PlacedClerk, KnowsStanding

\* A handler that gives up.
LEMMA StopsKeep ==
    ASSUME MemberInv, NEW w \in Workers, M!Goto(w, M!NoClerk),
           UNCHANGED <<standing, membership, doubled>>,
           request' \in [Places -> {"none", "PENDING", "APPROVED", "REJECTED"}],
           cut' \subseteq Places
    PROVE  MemberInv'
<1>1. clerk' = [clerk EXCEPT ![w] = M!NoClerk]
    BY DEF M!Goto
<1> QED BY <1>1, NoClerkPlaced, ClerkMoves

\* A handler that is refused gives up, or puts its request back.
LEMMA RefusalKeeps ==
    ASSUME MemberInv, NEW w \in Workers, clerk[w].at # "idle", M!Goto(w, M!Refused(w)),
           UNCHANGED <<standing, membership, request, doubled, cut>>
    PROVE  MemberInv'
<1>1. request \in [Places -> {"none", "PENDING", "APPROVED", "REJECTED"}] /\ cut \subseteq Places
    BY DEF MemberInv, M!TypeOK
<1>2. CASE clerk[w].task = "review"
    <2> DEFINE back == [clerk[w] EXCEPT !.at = "revert"]
    <2>1. clerk' = [clerk EXCEPT ![w] = back]
        BY <1>2 DEF M!Refused, M!Goto
    <2>2. back \in ClerkStates /\ PlacedClerk(back) /\ KnowsStanding(back) /\ back.at = "revert"
        BY ClerkSteps
    <2> HIDE DEF back
    <2> QED BY <1>1, <2>1, <2>2, ClerkMoves
<1>3. CASE clerk[w].task # "review"
    BY <1>1, <1>3, StopsKeep DEF M!Refused
<1> QED BY <1>2, <1>3

LEMMA ReviewsKeep ==
    ASSUME MemberInv, NEW w \in Workers,
           \/ M!ReviewAccept(w) \/ M!ReviewReject(w) \/ M!CancelDelete(w) \/ M!ReviewFails(w)
           \/ M!ReviewRevert(w) \/ M!JoinApprove(w) \/ M!ClerkStops(w)
    PROVE  MemberInv'
<1>0. /\ request \in [Places -> {"none", "PENDING", "APPROVED", "REJECTED"}] /\ cut \subseteq Places
      /\ clerk[w] \in ClerkStates /\ PlacedClerk(clerk[w])
    BY DEF MemberInv, M!TypeOK, ClerkStates, ClerksPlaced
<1>1. CASE M!ReviewAccept(w)
    <2> DEFINE next == [clerk[w] EXCEPT !.at = "assert"]
    <2>1. clerk' = [clerk EXCEPT ![w] = next] /\ clerk[w].at = "accept"
        BY <1>1 DEF M!ReviewAccept, M!Goto, M!Point
    <2>2. /\ UNCHANGED <<standing, membership, doubled, cut>>
          /\ request' \in [Places -> {"none", "PENDING", "APPROVED", "REJECTED"}]
        BY <1>0, <1>1 DEF M!ReviewAccept
    <2>3. next \in ClerkStates /\ PlacedClerk(next) /\ KnowsStanding(next) /\ next.at = "assert"
        BY <2>1, ClerkSteps
    <2> HIDE DEF next
    <2> QED BY <1>0, <2>1, <2>2, <2>3, ClerkMoves
<1>2. CASE M!ReviewReject(w)
    BY <1>0, <1>2, StopsKeep DEF M!ReviewReject
<1>3. CASE M!CancelDelete(w)
    BY <1>0, <1>3, StopsKeep DEF M!CancelDelete
<1>4. CASE M!ReviewFails(w)
    <2> DEFINE next == [clerk[w] EXCEPT !.at = "revert"]
    <2>1. clerk' = [clerk EXCEPT ![w] = next] /\ clerk[w].at # "idle"
        BY <1>4 DEF M!ReviewFails, M!Goto, M!Point
    <2>2. UNCHANGED <<standing, membership, request, doubled, cut>>
        BY <1>4 DEF M!ReviewFails
    <2>3. next \in ClerkStates /\ PlacedClerk(next) /\ KnowsStanding(next) /\ next.at = "revert"
        BY <2>1, ClerkSteps
    <2> HIDE DEF next
    <2> QED BY <1>0, <2>1, <2>2, <2>3, ClerkMoves
<1>5. CASE M!ReviewRevert(w)
    <2>1. request' \in [Places -> {"none", "PENDING", "APPROVED", "REJECTED"}]
        BY <1>0, <1>5 DEF M!ReviewRevert, M!Reverted
    <2> QED BY <1>0, <1>5, <2>1, StopsKeep DEF M!ReviewRevert
<1>6. CASE M!JoinApprove(w)
    <2> DEFINE next == [clerk[w] EXCEPT !.at = "count"]
    <2>1. clerk' = [clerk EXCEPT ![w] = next] /\ clerk[w].at = "approve"
        BY <1>6 DEF M!JoinApprove, M!Goto, M!Point
    <2>2. /\ UNCHANGED <<standing, membership, doubled, cut>>
          /\ request' \in [Places -> {"none", "PENDING", "APPROVED", "REJECTED"}]
        BY <1>0, <1>6 DEF M!JoinApprove
    <2>3. next \in ClerkStates /\ PlacedClerk(next) /\ KnowsStanding(next) /\ next.at = "count"
        BY <2>1, ClerkSteps
    <2> HIDE DEF next
    <2> QED BY <1>0, <2>1, <2>2, <2>3, ClerkMoves
<1>7. CASE M!ClerkStops(w)
    <2>1. cut' \subseteq Places
        BY <1>0, <1>7 DEF M!ClerkStops, PlacedClerk
    <2> QED BY <1>0, <1>7, <2>1, StopsKeep DEF M!ClerkStops
<1> QED BY <1>1, <1>2, <1>3, <1>4, <1>5, <1>6, <1>7

LEMMA CountKeeps ==
    ASSUME MemberInv, NEW w \in Workers, M!Count(w)
    PROVE  MemberInv'
<1>0. /\ request \in [Places -> {"none", "PENDING", "APPROVED", "REJECTED"}] /\ cut \subseteq Places
      /\ clerk[w] \in ClerkStates /\ PlacedClerk(clerk[w]) /\ KnowsStanding(clerk[w]) /\ clerk[w].at = "count"
      /\ UNCHANGED <<standing, membership, request, doubled, cut>>
    BY DEF MemberInv, M!TypeOK, ClerkStates, ClerksPlaced, StandingKnown, M!Count
<1>1. CASE ~M!FirstMember(w)
    <2>1. M!Goto(w, M!NoClerk)
        BY <1>1 DEF M!Count
    <2> QED BY <1>0, <2>1, StopsKeep
<1>2. CASE M!FirstMember(w)
    <2> DEFINE next == [clerk[w] EXCEPT !.at = "standing", !.standing = "PENDING_ACTIVATION"]
    <2>1. clerk' = [clerk EXCEPT ![w] = next] /\ clerk[w].standing = "DRAFT"
        BY <1>2 DEF M!Count, M!Goto, M!FirstMember
    <2>2. next \in ClerkStates /\ next.at = "standing" /\ next.place = clerk[w].place
          /\ next.stale = clerk[w].stale /\ next.standing = "PENDING_ACTIVATION"
        BY <1>0 DEF ClerkStates, M!Standings
    <2>3. PlacedClerk(next)
        BY <1>0, <2>2 DEF PlacedClerk
    <2>4. "PENDING_ACTIVATION" \in M!Transitions["DRAFT"]
        BY DEF M!Transitions
    <2>5. KnowsStanding(next)
        BY <1>0, <2>1, <2>2, <2>4 DEF KnowsStanding, PlacedClerk
    <2> HIDE DEF next
    <2> QED BY <1>0, <2>1, <2>2, <2>3, <2>5, ClerkMoves
<1> QED BY <1>1, <1>2

----------------------------------------------------------------------------
(* The steps that activate *)

\* Nothing in the way of the student, and nobody else about to activate: the
\* handler is the only one to be.
LEMMA AssertKeeps ==
    ASSUME MemberInv, NEW w \in Workers, M!Assert(w)
    PROVE  MemberInv'
<1> DEFINE p == clerk[w].place
           point == IF clerk[w].task = "update" THEN "write" ELSE "insert"
           next == [clerk[w] EXCEPT !.at = point]
<1>0. /\ request \in [Places -> {"none", "PENDING", "APPROVED", "REJECTED"}] /\ cut \subseteq Places
      /\ clerk[w] \in ClerkStates /\ PlacedClerk(clerk[w]) /\ KnowsStanding(clerk[w]) /\ clerk[w].at = "assert"
      /\ clerk \in [Workers -> ClerkStates] /\ p \in Places
      /\ UNCHANGED <<standing, membership, request, cut>>
    BY DEF MemberInv, M!TypeOK, ClerkStates, ClerksPlaced, StandingKnown, M!Assert, PlacedClerk
<1>1. CASE M!Conflict(p)
    <2>1. M!Goto(w, M!Refused(w)) /\ UNCHANGED doubled
        BY <1>1 DEF M!Assert
    <2> QED BY <1>0, <2>1, RefusalKeeps
<1>2. CASE ~M!Conflict(p)
    <2>1. /\ clerk' = [clerk EXCEPT ![w] = next]
          /\ doubled' = IF M!Activating(p) # {} /\ clerk[w].result = "ACTIVE"
                          THEN doubled \cup {p[2]} ELSE doubled
        BY <1>2 DEF M!Assert, M!Goto, M!Point
    <2>2. /\ next \in ClerkStates /\ PlacedClerk(next) /\ KnowsStanding(next)
          /\ next.at \in {"insert", "write"} /\ next.result = clerk[w].result /\ next.place = p
        <3>1. point \in {"insert", "write"} /\ (point = "insert" => clerk[w].task # "update")
            OBVIOUS
        <3> HIDE DEF point
        <3> QED BY <1>0, <3>1, ClerkSteps
    <2> HIDE DEF next, point
    <2>3. /\ clerk' \in [Workers -> ClerkStates] /\ ClerksPlaced' /\ StandingKnown'
          /\ \A v \in Workers : clerk'[v] = IF v = w THEN next ELSE clerk[v]
        BY <1>0, <2>1, <2>2, ClerkTurns
    <2>4. p[2] \in M!Members
        BY <1>0 DEF M!Members
    <2>5. doubled \subseteq doubled' /\ M!TypeOK'
        BY <1>0, <2>1, <2>3, <2>4 DEF MemberInv, M!TypeOK, ClerkStates
    <2>6. OneActive'
        BY <1>0, <2>5 DEF MemberInv, OneActive
    <2> HIDE DEF p
    <2>7. NoneInTheWay'
        <3> SUFFICES ASSUME NEW v \in Workers, NEW q \in Places, ActivatesOf(clerk'[v], q[2]),
                            q[2] \notin doubled', membership'[q] = "ACTIVE"
                     PROVE  OutOfTheWay(clerk'[v], q)
            BY DEF NoneInTheWay, OutOfTheWay
        <3>1. CASE v # w
            BY <1>0, <2>3, <2>5, <3>1 DEF MemberInv, NoneInTheWay
        <3>2. CASE v = w
            <4>1. q[2] = p[2] /\ clerk'[v].place = p
                BY <2>2, <2>3, <3>2 DEF ActivatesOf
            <4>2. q \in M!ActiveOf(p[2])
                BY <1>0, <4>1 DEF M!ActiveOf
            <4>3. q[1] = p[1]
                BY <1>2, <4>2 DEF M!Conflict
            <4> QED BY <1>0, <4>1, <4>3, PlacesAssumption DEF OutOfTheWay
        <3> QED BY <3>1, <3>2
    <2>8. OneActivates'
        <3>1. ASSUME NEW v \in Workers \ {w}, NEW u \in M!Members \ doubled',
                     ActivatesOf(clerk'[v], u), ActivatesOf(clerk'[w], u)
              PROVE  FALSE
            <4>1. u = p[2] /\ clerk[w].result = "ACTIVE"
                BY <2>2, <2>3, <3>1 DEF ActivatesOf
            <4>2. v \in M!Activating(p)
                BY <2>3, <3>1, <4>1 DEF ActivatesOf, M!Activating
            <4> QED BY <2>1, <3>1, <4>1, <4>2
        <3> SUFFICES ASSUME NEW v \in Workers, NEW x \in Workers, NEW u \in M!Members \ doubled',
                            ActivatesOf(clerk'[v], u), ActivatesOf(clerk'[x], u)
                     PROVE  v = x
            BY DEF OneActivates
        <3>2. CASE v = w \/ x = w
            BY <3>1, <3>2
        <3>3. CASE v # w /\ x # w
            BY <2>3, <2>5, <3>3 DEF MemberInv, OneActivates
        <3> QED BY <3>2, <3>3
    <2> QED BY <2>3, <2>5, <2>6, <2>7, <2>8 DEF MemberInv
<1> QED BY <1>1, <1>2

\* The handler writes what it has made sure of.
LEMMA MembershipWritten ==
    ASSUME MemberInv, NEW w \in Workers, clerk[w].at \in {"insert", "write"},
           NEW next \in ClerkStates, PlacedClerk(next), KnowsStanding(next),
           next.at \notin {"insert", "write", "onboard"},
           clerk' = [clerk EXCEPT ![w] = next],
           membership' = [membership EXCEPT ![clerk[w].place] = clerk[w].result],
           UNCHANGED <<standing, request, doubled, cut>>
    PROVE  MemberInv'
<1> DEFINE p == clerk[w].place
<1>0. /\ clerk[w] \in ClerkStates /\ p \in Places /\ clerk[w].result \in {"PENDING", "ACTIVE"}
      /\ membership \in [Places -> {"none", "PENDING", "ACTIVE", "LEFT"}]
    BY DEF MemberInv, M!TypeOK, ClerkStates, ClerksPlaced, PlacedClerk
<1>1. /\ clerk' \in [Workers -> ClerkStates] /\ ClerksPlaced' /\ StandingKnown'
      /\ \A v \in Workers : clerk'[v] = IF v = w THEN next ELSE clerk[v]
    BY ClerkTurns
<1>2. /\ membership' \in [Places -> {"none", "PENDING", "ACTIVE", "LEFT"}]
      /\ \A q \in Places : membership'[q] = IF q = p THEN clerk[w].result ELSE membership[q]
    BY <1>0
<1>3. M!TypeOK'
    BY <1>1, <1>2 DEF MemberInv, M!TypeOK, ClerkStates
<1>4. \A v \in Workers : \A u : ActivatesOf(clerk'[v], u) => v # w /\ clerk'[v] = clerk[v]
    BY <1>1 DEF ActivatesOf
<1>5. \A q \in Places : q[2] \in M!Members
    BY DEF M!Members
<1>6. CASE clerk[w].result = "PENDING"
    <2>1. \A q \in Places : membership'[q] = "ACTIVE" => membership[q] = "ACTIVE"
        BY <1>2, <1>6
    <2>2. \A v \in Workers : \A u \in M!Members :
              ActivatesOf(clerk'[v], u) => ActivatesOf(clerk[v], u) /\ SameClerk(v)
        BY <1>4 DEF SameClerk
    <2>3. OneActive' /\ NoneInTheWay' /\ OneActivates'
        BY <1>3, <2>1, <2>2, NothingActivated
    <2> QED BY <1>1, <1>3, <2>3 DEF MemberInv
<1>7. CASE clerk[w].result = "ACTIVE"
    <2>1. ActivatesOf(clerk[w], p[2])
        BY <1>7 DEF ActivatesOf
    <2> HIDE DEF p
    <2>2. \A q \in Places : q[2] = p[2] /\ q[2] \notin doubled /\ membership[q] = "ACTIVE" => q = p
        BY <2>1 DEF MemberInv, NoneInTheWay, OutOfTheWay, p
    <2>3. OneActive'
        <3> SUFFICES ASSUME NEW q \in Places, NEW r \in Places, membership'[q] = "ACTIVE",
                            membership'[r] = "ACTIVE", q[2] = r[2], q[2] \notin doubled'
                     PROVE  q = r
            BY DEF OneActive
        <3>1. CASE q = p \/ r = p
            BY <1>2, <2>2, <3>1
        <3>2. CASE q # p /\ r # p
            BY <1>2, <3>2 DEF MemberInv, OneActive
        <3> QED BY <3>1, <3>2
    <2>4. NoneInTheWay'
        <3> SUFFICES ASSUME NEW v \in Workers, NEW q \in Places, ActivatesOf(clerk'[v], q[2]),
                            q[2] \notin doubled', membership'[q] = "ACTIVE"
                     PROVE  OutOfTheWay(clerk'[v], q)
            BY DEF NoneInTheWay, OutOfTheWay
        <3>1. v # w /\ clerk'[v] = clerk[v] /\ ActivatesOf(clerk[v], q[2])
            BY <1>4
        <3>2. CASE q = p
            BY <1>5, <2>1, <3>1, <3>2 DEF MemberInv, OneActivates
        <3>3. CASE q # p
            BY <1>2, <3>1, <3>3 DEF MemberInv, NoneInTheWay
        <3> QED BY <3>2, <3>3
    <2>5. OneActivates'
        BY <1>4 DEF MemberInv, OneActivates
    <2> QED BY <1>1, <1>3, <2>3, <2>4, <2>5 DEF MemberInv
<1> QED BY <1>0, <1>6, <1>7

LEMMA InsertKeeps ==
    ASSUME MemberInv, NEW w \in Workers, M!Insert(w)
    PROVE  MemberInv'
<1> DEFINE p == clerk[w].place
           point == IF clerk[w].task = "join" THEN "approve" ELSE "count"
           next == [clerk[w] EXCEPT !.at = point]
<1>0. /\ request \in [Places -> {"none", "PENDING", "APPROVED", "REJECTED"}] /\ cut \subseteq Places
      /\ clerk[w] \in ClerkStates /\ PlacedClerk(clerk[w]) /\ clerk[w].at = "insert"
      /\ UNCHANGED <<standing, request, doubled, cut>>
    BY DEF MemberInv, M!TypeOK, ClerkStates, ClerksPlaced, M!Insert
<1>1. CASE membership[p] = "none"
    <2>1. /\ clerk' = [clerk EXCEPT ![w] = next]
          /\ membership' = [membership EXCEPT ![clerk[w].place] = clerk[w].result]
        BY <1>1 DEF M!Insert, M!Goto, M!Point
    <2>2. point \in {"approve", "count"}
        OBVIOUS
    <2> HIDE DEF point
    <2>3. next \in ClerkStates /\ PlacedClerk(next) /\ KnowsStanding(next) /\ next.at = point
        BY <1>0, <2>2, ClerkSteps DEF next
    <2> HIDE DEF next, p
    <2> QED BY <1>0, <2>1, <2>2, <2>3, MembershipWritten
<1>2. CASE membership[p] # "none"
    <2>1. M!Goto(w, M!Refused(w)) /\ UNCHANGED membership
        BY <1>2 DEF M!Insert
    <2> QED BY <1>0, <2>1, RefusalKeeps
<1> QED BY <1>1, <1>2

LEMMA UpdateWriteKeeps ==
    ASSUME MemberInv, NEW w \in Workers, M!UpdateWrite(w)
    PROVE  MemberInv'
<1>1. /\ clerk' = [clerk EXCEPT ![w] = M!NoClerk] /\ clerk[w].at = "write"
      /\ membership' = [membership EXCEPT ![clerk[w].place] = clerk[w].result]
      /\ UNCHANGED <<standing, request, doubled, cut>>
    BY DEF M!UpdateWrite, M!Goto
<1> QED BY <1>1, NoClerkPlaced, MembershipWritten

\* The status is overwritten; what the organisation's other handlers have read
\* is stale from then on.
LEMMA StandingWriteKeeps ==
    ASSUME MemberInv, NEW w \in Workers, M!StandingWrite(w)
    PROVE  MemberInv'
<1> DEFINE o == clerk[w].place[1]
           Overtaken(v) == (clerk[v].at = "standing" \/ clerk[v].standing = "DRAFT")
                             /\ clerk[v].place[1] = o
<1>0. /\ clerk \in [Workers -> ClerkStates] /\ standing \in [M!Organisations -> M!Standings]
      /\ \A v \in Workers : PlacedClerk(clerk[v]) /\ KnowsStanding(clerk[v])
      /\ UNCHANGED <<membership, request, doubled, cut>>
    BY DEF MemberInv, M!TypeOK, ClerkStates, ClerksPlaced, StandingKnown, M!StandingWrite
<1>1. o \in M!Organisations /\ clerk[w].standing \in M!Standings
    BY <1>0 DEF M!StandingWrite, PlacedClerk, M!Organisations, ClerkStates
<1>2. /\ standing' \in [M!Organisations -> M!Standings]
      /\ \A x \in M!Organisations : x # o => standing'[x] = standing[x]
    BY <1>0, <1>1 DEF M!StandingWrite
<1>3. clerk' = [v \in Workers |->
               IF v = w THEN M!NoClerk
               ELSE IF (clerk[v].at = "standing" \/ clerk[v].standing = "DRAFT")
                         /\ clerk[v].place[1] = o
                 THEN [clerk[v] EXCEPT !.stale = TRUE] ELSE clerk[v]]
    BY DEF M!StandingWrite
<1>4. \A v \in Workers :
          /\ clerk'[v] \in ClerkStates /\ PlacedClerk(clerk'[v])
          /\ \A u : ActivatesOf(clerk'[v], u) =>
                 ActivatesOf(clerk[v], u) /\ SameClerk(v)
    <2> SUFFICES ASSUME NEW v \in Workers
                 PROVE  /\ clerk'[v] \in ClerkStates /\ PlacedClerk(clerk'[v])
                        /\ \A u : ActivatesOf(clerk'[v], u) =>
                               ActivatesOf(clerk[v], u) /\ SameClerk(v)
        OBVIOUS
    <2>1. CASE v = w
        <3>1. clerk'[v] = M!NoClerk
            BY <1>3, <2>1
        <3> QED BY <3>1, NoClerkPlaced DEF ActivatesOf
    <2>2. CASE v # w /\ Overtaken(v)
        <3>1. clerk'[v] = [clerk[v] EXCEPT !.stale = TRUE]
            BY <1>3, <2>2
        <3> QED BY <1>0, <3>1 DEF ActivatesOf, PlacedClerk, ClerkStates, SameClerk
    <2>3. CASE v # w /\ ~Overtaken(v)
        <3>1. clerk'[v] = clerk[v]
            BY <1>3, <2>3
        <3> QED BY <1>0, <3>1 DEF SameClerk
    <2> QED BY <2>1, <2>2, <2>3
<1>5. StandingKnown'
    <2> SUFFICES ASSUME NEW v \in Workers
                 PROVE  KnowsStanding(clerk[v])'
        BY DEF StandingKnown
    <2>1. CASE v = w
        <3>1. clerk'[v] = M!NoClerk
            BY <1>3, <2>1
        <3> QED BY <3>1 DEF KnowsStanding, M!NoClerk
    <2>2. CASE v # w /\ Overtaken(v)
        <3>1. clerk'[v] = [clerk[v] EXCEPT !.stale = TRUE]
            BY <1>3, <2>2
        <3> QED BY <1>0, <3>1 DEF KnowsStanding, ClerkStates
    <2>3. CASE v # w /\ ~Overtaken(v)
        <3>1. clerk'[v] = clerk[v]
            BY <1>3, <2>3
        <3>2. CASE clerk[v].at = "idle" \/ (clerk[v].at # "standing" /\ clerk[v].standing # "DRAFT")
            BY <3>1, <3>2 DEF KnowsStanding
        <3>3. CASE clerk[v].at # "idle" /\ clerk[v].place[1] # o
            <4>1. standing'[clerk[v].place[1]] = standing[clerk[v].place[1]]
                BY <1>0, <1>2, <3>3 DEF PlacedClerk, M!Organisations
            <4> QED BY <1>0, <3>1, <4>1 DEF KnowsStanding
        <3> QED BY <2>3, <3>2, <3>3
    <2> QED BY <2>1, <2>2, <2>3
<1>6. clerk' \in [Workers -> ClerkStates]
    BY <1>3, <1>4
<1>7. M!TypeOK'
    BY <1>0, <1>2, <1>6 DEF MemberInv, M!TypeOK, ClerkStates
<1>8. OneActive' /\ NoneInTheWay' /\ OneActivates'
    BY <1>0, <1>4, <1>7, NothingActivated
<1>9. ClerksPlaced'
    BY <1>4 DEF ClerksPlaced
<1> QED BY <1>5, <1>7, <1>8, <1>9 DEF MemberInv

LEMMA RemoveMemberKeeps ==
    ASSUME MemberInv, NEW p \in Places, M!RemoveMember(p)
    PROVE  MemberInv'
<1>1. UNCHANGED <<standing, request, clerk, doubled, cut>>
    BY DEF M!RemoveMember
<1>2. M!TypeOK' /\ \A q \in Places : membership'[q] = "ACTIVE" => membership[q] = "ACTIVE"
    BY DEF MemberInv, M!TypeOK, M!RemoveMember
<1>3. OneActive' /\ NoneInTheWay' /\ OneActivates'
    BY <1>1, <1>2, NothingActivated DEF SameClerk
<1>4. ClerksPlaced' /\ StandingKnown'
    BY <1>1 DEF MemberInv, ClerksPlaced, StandingKnown, KnowsStanding
<1> QED BY <1>2, <1>3, <1>4 DEF MemberInv

\* The student's active memberships are found, with nobody about to activate
\* another.
LEMMA OnboardLeaves ==
    ASSUME MemberInv, NEW w \in Workers, NEW p \in Places, M!OnboardLeave(w, p)
    PROVE  MemberInv'
<1> DEFINE next == [M!NoClerk EXCEPT !.at = "onboard", !.task = "onboard", !.place = p,
                        !.ended = M!ActiveOf(p[2])]
<1>0. /\ clerk' = [clerk EXCEPT ![w] = next]
      /\ doubled' = IF M!Activating(p) # {} THEN doubled \cup {p[2]} ELSE doubled
      /\ UNCHANGED <<standing, membership, request, cut>>
    BY DEF M!OnboardLeave, M!Goto
<1>1. M!ActiveOf(p[2]) \in SUBSET Places /\ p[2] \in M!Members
    BY DEF M!ActiveOf, M!Members
<1>2. /\ next \in ClerkStates /\ PlacedClerk(next) /\ KnowsStanding(next)
      /\ next.at = "onboard" /\ next.place = p /\ next.ended = M!ActiveOf(p[2])
    BY <1>1 DEF M!NoClerk, ClerkStates, PlacedClerk, KnowsStanding, M!Standings
<1> HIDE DEF next
<1>3. /\ clerk' \in [Workers -> ClerkStates] /\ ClerksPlaced' /\ StandingKnown'
      /\ \A v \in Workers : clerk'[v] = IF v = w THEN next ELSE clerk[v]
    BY <1>0, <1>2, ClerkTurns
<1>4. doubled \subseteq doubled' /\ M!TypeOK'
    BY <1>0, <1>1, <1>3 DEF MemberInv, M!TypeOK, ClerkStates
<1>5. OneActive'
    BY <1>0, <1>4 DEF MemberInv, OneActive
<1>6. NoneInTheWay'
    <2> SUFFICES ASSUME NEW v \in Workers, NEW q \in Places, ActivatesOf(clerk'[v], q[2]),
                        q[2] \notin doubled', membership'[q] = "ACTIVE"
                 PROVE  OutOfTheWay(clerk'[v], q)
        BY DEF NoneInTheWay, OutOfTheWay
    <2>1. CASE v # w
        BY <1>0, <1>3, <1>4, <2>1 DEF MemberInv, NoneInTheWay
    <2>2. CASE v = w
        <3>1. q[2] = p[2] /\ clerk'[v].ended = M!ActiveOf(p[2]) /\ clerk'[v].at = "onboard"
            BY <1>2, <1>3, <2>2 DEF ActivatesOf
        <3>2. q \in M!ActiveOf(p[2])
            BY <1>0, <3>1 DEF M!ActiveOf
        <3> QED BY <3>1, <3>2 DEF OutOfTheWay
    <2> QED BY <2>1, <2>2
<1>7. OneActivates'
    <2>1. ASSUME NEW v \in Workers \ {w}, NEW u \in M!Members \ doubled',
                 ActivatesOf(clerk'[v], u), ActivatesOf(clerk'[w], u)
          PROVE  FALSE
        <3>1. u = p[2]
            BY <1>2, <1>3, <2>1 DEF ActivatesOf
        <3>2. v \in M!Activating(p)
            BY <1>3, <2>1, <3>1 DEF ActivatesOf, M!Activating
        <3> QED BY <1>0, <2>1, <3>1, <3>2
    <2> SUFFICES ASSUME NEW v \in Workers, NEW x \in Workers, NEW u \in M!Members \ doubled',
                        ActivatesOf(clerk'[v], u), ActivatesOf(clerk'[x], u)
                 PROVE  v = x
        BY DEF OneActivates
    <2>2. CASE v = w \/ x = w
        BY <2>1, <2>2
    <2>3. CASE v # w /\ x # w
        BY <1>3, <1>4, <2>3 DEF MemberInv, OneActivates
    <2> QED BY <2>2, <2>3
<1> QED BY <1>3, <1>4, <1>5, <1>6, <1>7 DEF MemberInv

\* Those memberships end and this one is active: there is no other, for nobody
\* else was about to activate one.
LEMMA OnboardCommits ==
    ASSUME MemberInv, NEW w \in Workers, M!OnboardCommit(w)
    PROVE  MemberInv'
<1>0. PICK p \in Places : p = clerk[w].place
    BY DEF MemberInv, ClerksPlaced, PlacedClerk, M!OnboardCommit
<1>1. /\ clerk[w].at = "onboard"
      /\ clerk' = [clerk EXCEPT ![w] = M!NoClerk]
      /\ membership' = [q \in Places |-> IF q = p THEN "ACTIVE"
                             ELSE IF q \in clerk[w].ended THEN "LEFT" ELSE membership[q]]
      /\ request' = [request EXCEPT ![p] = "APPROVED"]
      /\ UNCHANGED <<standing, doubled, cut>>
    BY <1>0 DEF M!OnboardCommit, M!Goto
<1>2. /\ clerk' \in [Workers -> ClerkStates] /\ ClerksPlaced' /\ StandingKnown'
      /\ \A v \in Workers : clerk'[v] = IF v = w THEN M!NoClerk ELSE clerk[v]
    BY <1>1, NoClerkPlaced, ClerkTurns
<1>3. /\ membership' \in [Places -> {"none", "PENDING", "ACTIVE", "LEFT"}]
      /\ request' \in [Places -> {"none", "PENDING", "APPROVED", "REJECTED"}]
    BY <1>1 DEF MemberInv, M!TypeOK
<1>4. M!TypeOK'
    BY <1>1, <1>2, <1>3 DEF MemberInv, M!TypeOK, ClerkStates
<1>5. \A v \in Workers : \A u : ActivatesOf(clerk'[v], u) => v # w /\ clerk'[v] = clerk[v]
    BY <1>2, NoClerkPlaced DEF ActivatesOf
<1>6. \A q \in Places : q[2] \in M!Members
    BY DEF M!Members
<1>7. clerk[w].result = "ACTIVE"
    BY <1>1 DEF MemberInv, ClerksPlaced, PlacedClerk
<1>8. MemberInv'
    <2>1. ActivatesOf(clerk[w], p[2])
        BY <1>0, <1>1, <1>7 DEF ActivatesOf
    <2>2. \A q \in Places : membership'[q] = "ACTIVE" =>
              q = p \/ (membership[q] = "ACTIVE" /\ q \notin clerk[w].ended)
        BY <1>1
    <2>3. \A q \in Places : q[2] = p[2] /\ q[2] \notin doubled /\ membership'[q] = "ACTIVE" => q = p
        BY <1>0, <2>1, <2>2 DEF MemberInv, NoneInTheWay, OutOfTheWay
    <2>4. OneActive'
        <3> SUFFICES ASSUME NEW q \in Places, NEW r \in Places, membership'[q] = "ACTIVE",
                            membership'[r] = "ACTIVE", q[2] = r[2], q[2] \notin doubled'
                     PROVE  q = r
            BY DEF OneActive
        <3>1. CASE q = p \/ r = p
            BY <1>1, <2>3, <3>1
        <3>2. CASE q # p /\ r # p
            BY <1>1, <2>2, <3>2 DEF MemberInv, OneActive
        <3> QED BY <3>1, <3>2
    <2>5. NoneInTheWay'
        <3> SUFFICES ASSUME NEW v \in Workers, NEW q \in Places, ActivatesOf(clerk'[v], q[2]),
                            q[2] \notin doubled', membership'[q] = "ACTIVE"
                     PROVE  OutOfTheWay(clerk'[v], q)
            BY DEF NoneInTheWay, OutOfTheWay
        <3>1. v # w /\ clerk'[v] = clerk[v] /\ ActivatesOf(clerk[v], q[2])
            BY <1>5
        <3>2. CASE q = p
            BY <1>1, <1>6, <2>1, <3>1, <3>2 DEF MemberInv, OneActivates
        <3>3. CASE q # p
            BY <1>1, <2>2, <3>1, <3>3 DEF MemberInv, NoneInTheWay
        <3> QED BY <3>2, <3>3
    <2>6. OneActivates'
        BY <1>1, <1>5 DEF MemberInv, OneActivates
    <2> QED BY <1>2, <1>4, <2>4, <2>5, <2>6 DEF MemberInv
<1> QED BY <1>8

----------------------------------------------------------------------------
LEMMA MembersBegin == M!Init => MemberInv
<1> SUFFICES ASSUME M!Init PROVE MemberInv
    OBVIOUS
<1>1. \A w \in Workers : clerk[w] = M!NoClerk
    BY DEF M!Init
<1>2. M!TypeOK
    BY NoClerkPlaced DEF M!Init, M!TypeOK, ClerkStates, M!Standings
<1>3. ClerksPlaced /\ NoneInTheWay /\ OneActivates /\ StandingKnown
    BY <1>1, NoClerkPlaced DEF ClerksPlaced, NoneInTheWay, OneActivates, StandingKnown, ActivatesOf
<1>4. OneActive
    BY DEF M!Init, OneActive
<1> QED BY <1>2, <1>3, <1>4 DEF MemberInv

LEMMA MembersStep == MemberInv /\ [M!Next]_(M!vars) => MemberInv'
<1> SUFFICES ASSUME MemberInv, [M!Next]_(M!vars) PROVE MemberInv'
    OBVIOUS
<1>1. ASSUME NEW w \in Workers, M!ClerkStep(w)
      PROVE  MemberInv'
    BY <1>1, ReadsKeep, StandingReadKeeps, AssertKeeps, InsertKeeps, CountKeeps, ReviewsKeep,
       UpdateWriteKeeps, StandingWriteKeeps, OnboardLeaves, OnboardCommits DEF M!ClerkStep
<1>2. ASSUME NEW p \in Places, M!RemoveMember(p)
      PROVE  MemberInv'
    BY <1>2, RemoveMemberKeeps
<1>3. CASE UNCHANGED M!vars
    <2>1. UNCHANGED <<standing, membership, request, clerk, doubled, cut>>
        BY <1>3 DEF M!vars
    <2> QED BY <2>1 DEF MemberInv, M!TypeOK, ClerksPlaced, OneActive, NoneInTheWay, OneActivates,
              StandingKnown, KnowsStanding, OutOfTheWay
<1> QED BY <1>1, <1>2, <1>3 DEF M!Next

\* The inductive invariant holds of every handler and row.
THEOREM MembersInvariant == M!Spec => []MemberInv
BY MembersBegin, MembersStep, PTL DEF M!Spec

\* The cardinality of the module is that of FiniteSets.
LEMMA MembersCardinality == ASSUME NEW T PROVE M!Cardinality(T) = Cardinality(T)
BY DEF M!Cardinality, Cardinality

\* A student none of whose activations overlapped has one active academic
\* membership at most (assertSingleAcademicOrganizationMembership).
THEOREM OneMembership == M!Spec => []M!OneAcademicMembership
<1>1. MemberInv => M!OneAcademicMembership
    <2> SUFFICES ASSUME MemberInv, NEW u \in M!Members \ doubled
                 PROVE  Cardinality(M!ActiveOf(u)) <= 1
        BY MembersCardinality DEF M!OneAcademicMembership
    <2>1. CASE M!ActiveOf(u) = {}
        BY <2>1, FS_EmptySet
    <2>2. CASE M!ActiveOf(u) # {}
        <3>1. PICK p : p \in M!ActiveOf(u)
            BY <2>2
        <3>2. M!ActiveOf(u) = {p}
            BY <3>1 DEF M!ActiveOf, MemberInv, OneActive
        <3>3. Cardinality(M!ActiveOf(u)) = 1
            BY <3>2, FS_Singleton
        <3> QED BY <3>3
    <2> QED BY <2>1, <2>2
<1> QED BY <1>1, MembersInvariant, PTL

\* A handler that writes the status of an organisation follows the table of what
\* it may become, unless the status has changed since the handler read it
\* (validateStatusTransition, activateOrganization, archiveOrganization).
THEOREM FollowsTable == M!Spec => M!StandingFollowsTable
<1> DEFINE Follows ==
        \A o \in M!Organisations : standing'[o] # standing[o] =>
          \/ standing'[o] \in M!Transitions[standing[o]] \cup {"ACTIVE", "ARCHIVED"}
          \/ \E w \in Workers : /\ clerk[w].at = "standing" /\ clerk'[w].at = "idle"
                                /\ clerk[w].place[1] = o /\ clerk[w].stale
<1>1. MemberInv /\ [M!Next]_(M!vars) => [Follows]_(M!vars)
    <2> SUFFICES ASSUME MemberInv, M!Next, NEW o \in M!Organisations, standing'[o] # standing[o]
                 PROVE  \/ standing'[o] \in M!Transitions[standing[o]] \cup {"ACTIVE", "ARCHIVED"}
                        \/ \E w \in Workers : /\ clerk[w].at = "standing" /\ clerk'[w].at = "idle"
                                              /\ clerk[w].place[1] = o /\ clerk[w].stale
        OBVIOUS
    <2>1. PICK w \in Workers : M!StandingWrite(w)
        <3>1. \A w \in Workers, p \in Places : ~(M!JoinRead(w, p) \/ M!AddRead(w, p) \/ M!ReviewRead(w, p) \/ M!UpdateRead(w, p))
            BY DEF M!JoinRead, M!AddRead, M!ReviewRead, M!UpdateRead
        <3>2. /\ \A p \in Places : ~M!RemoveMember(p)
              /\ \A w \in Workers : ~M!OnboardCommit(w) /\ \A p \in Places : ~M!OnboardLeave(w, p)
            BY DEF M!RemoveMember, M!OnboardLeave, M!OnboardCommit
        <3>3. \A w \in Workers : ~(\/ M!Assert(w) \/ M!Insert(w) \/ M!JoinApprove(w) \/ M!Count(w)
                                   \/ \E x \in M!Organisations : M!StandingRead(w, x))
            BY DEF M!Assert, M!Insert, M!JoinApprove, M!Count, M!StandingRead
        <3>4. \A w \in Workers : ~(\/ M!ReviewAccept(w) \/ M!ReviewReject(w) \/ M!CancelDelete(w)
                                   \/ M!ReviewFails(w) \/ M!ReviewRevert(w) \/ M!UpdateWrite(w) \/ M!ClerkStops(w))
            BY DEF M!ReviewAccept, M!ReviewReject, M!CancelDelete, M!ReviewFails, M!ReviewRevert, M!UpdateWrite, M!ClerkStops
        <3> QED BY <3>1, <3>2, <3>3, <3>4 DEF M!Next, M!ClerkStep
    <2>2. clerk[w].at = "standing" /\ clerk[w].place[1] = o /\ standing'[o] = clerk[w].standing
        BY <2>1 DEF M!StandingWrite, MemberInv, M!TypeOK
    <2>3. clerk'[w] = M!NoClerk
        BY <2>1 DEF M!StandingWrite
    <2>4. CASE clerk[w].stale
        BY <2>2, <2>3, <2>4, NoClerkPlaced
    <2>5. CASE ~clerk[w].stale
        BY <2>2, <2>5 DEF MemberInv, StandingKnown, KnowsStanding
    <2> QED BY <2>4, <2>5
<1> QED BY <1>1, MembersInvariant, PTL DEF M!Spec, M!StandingFollowsTable

\* Every variable keeps its type (the handlers of the memberships).
THEOREM MembershipsTypeCorrect == M!Spec => []M!TypeOK
<1>1. MemberInv => M!TypeOK
    BY DEF MemberInv
<1> QED BY <1>1, MembersInvariant, PTL

LEMMA MembershipsSide == ServicesSpec => M!Spec
<1>1. ServicesInit => M!Init
    BY DEF ServicesInit
<1>2. [ServicesNext]_allvars => [M!Next]_(M!vars)
    BY DEF ServicesNext, allvars, electionVars, sessionVars, resetVars, activityVars,
           promotionVars, membershipVars, approvalVars, M!vars
<1> QED BY <1>1, <1>2, PTL DEF ServicesSpec, M!Spec

\* One academic membership of a student is active at most, in the services side
\* by side (assertSingleAcademicOrganizationMembership).
THEOREM OneActiveMembership == ServicesSpec => []OneAcademicMembership
BY MembershipsSide, OneMembership, PTL DEF OneAcademicMembership

\* The status of an organisation changes by the table, in the services side by
\* side (validateStatusTransition).
THEOREM StandingChangesByTable == ServicesSpec => StandingFollowsTable
BY MembershipsSide, FollowsTable, PTL DEF StandingFollowsTable

----------------------------------------------------------------------------
(* Approvals *)

AdminUsers == {O!Founder} \cup Deputies

\* What is submitted, requested or reviewed exists; a submission under way has
\* no request yet and is nobody else's.
RowsMade ==
    /\ \A o \in O!Rows : petition[o] # "none" => O!Exists(o)
    /\ \A h \in Workers :
          /\ task[h].at \in {"submit", "review", "check", "appoint", "assign"} =>
                task[h].row \in O!Rows
          /\ task[h].at \in {"submit", "review"} => O!Exists(task[h].row)
          /\ task[h].at = "review" =>
                task[h].decision \in O!Reviewed /\ petition[task[h].row] # "none"
          /\ task[h].at \in {"check", "appoint", "assign"} => task[h].deputy \in Deputies
          /\ task[h].at = "submit" =>
                /\ petition[task[h].row] = "none"
                /\ \A g \in Workers \ {h} :
                      ~(task[g].at = "submit" /\ task[g].row = task[h].row)

\* Organisations the property makes an exception of.
Exempt == slipped \cup granted

\* An appointment under way is of an approved organisation, or of one that is
\* made an exception of.
AppointingApproved ==
    \A h \in Workers :
        task[h].at \in {"check", "appoint"} =>
            task[h].row \in Exempt \/ petition[task[h].row] = "APPROVED"

AccessApproved ==
    \A o \in O!Rows : O!ActiveAdmins(o) # {} => o \in Exempt \/ petition[o] = "APPROVED"

ApprovalInv == O!TypeOK /\ RowsMade /\ AppointingApproved /\ AccessApproved

----------------------------------------------------------------------------
(* One lemma for each step of a handler, and for what others do *)

TaskStates ==
    [at : {"idle", "create", "submit", "review", "check", "appoint", "assign"},
     row : O!Rows \cup {None}, deputy : Deputies \cup {None},
     decision : O!Reviewed \cup {None}]

\* A handler h turns to what next says, and no row changes.
LEMMA TaskTurns ==
    ASSUME ApprovalInv, NEW h \in Workers, NEW next \in TaskStates, next.at # "submit",
           next.at \in {"review", "check", "appoint", "assign"} => next.row \in O!Rows,
           next.at = "review" => /\ next.decision \in O!Reviewed /\ O!Exists(next.row)
                                 /\ petition[next.row] # "none",
           next.at \in {"check", "appoint", "assign"} => next.deputy \in Deputies,
           next.at \in {"check", "appoint"} =>
               next.row \in Exempt \/ petition[next.row] = "APPROVED",
           task' = [task EXCEPT ![h] = next],
           UNCHANGED <<body, petition, admin, slipped, granted>>, crossed' \subseteq O!Rows
    PROVE  ApprovalInv'
<1>1. AccessApproved'
    BY DEF ApprovalInv, AccessApproved, O!ActiveAdmins, Exempt
<1>2. O!TypeOK'
    BY DEF ApprovalInv, O!TypeOK, TaskStates
<1>3. \A g \in Workers : task'[g] = IF g = h THEN next ELSE task[g]
    BY DEF ApprovalInv, O!TypeOK
<1>4. AppointingApproved'
    BY <1>3 DEF ApprovalInv, AppointingApproved, Exempt
<1>5. RowsMade'
    <2>1. \A o \in O!Rows : O!Exists(o)' = O!Exists(o) /\ petition'[o] = petition[o]
        BY DEF O!Exists
    <2>2. \A o \in O!Rows : petition'[o] # "none" => O!Exists(o)'
        BY <2>1 DEF ApprovalInv, RowsMade
    <2>3. ASSUME NEW g \in Workers
          PROVE  /\ task'[g].at \in {"submit", "review", "check", "appoint", "assign"} =>
                       task'[g].row \in O!Rows
                 /\ task'[g].at \in {"submit", "review"} => O!Exists(task'[g].row)
                 /\ task'[g].at = "review" =>
                       task'[g].decision \in O!Reviewed /\ petition[task'[g].row] # "none"
                 /\ task'[g].at \in {"check", "appoint", "assign"} =>
                       task'[g].deputy \in Deputies
        BY <1>3 DEF ApprovalInv, RowsMade
    <2>4. ASSUME NEW g \in Workers, task'[g].at = "submit"
          PROVE  /\ petition[task'[g].row] = "none"
                 /\ \A f \in Workers \ {g} :
                       ~(task'[f].at = "submit" /\ task'[f].row = task'[g].row)
        BY <1>3, <2>4 DEF ApprovalInv, RowsMade
    <2> QED BY <2>1, <2>2, <2>3, <2>4 DEF RowsMade, O!Exists
<1> QED BY <1>1, <1>2, <1>4, <1>5 DEF ApprovalInv

LEMMA TaskReads ==
    ASSUME ApprovalInv, NEW h \in Workers,
           \/ O!SubmitRead(h) \/ O!OfficeStops(h) \/ O!AppointRead(h)
           \/ \E o \in O!Rows, decision \in O!Reviewed : O!ReviewRead(h, o, decision)
           \/ \E o \in O!Rows, u \in Deputies : O!AppointCheck(h, o, u) \/ O!AssignRead(h, o, u)
    PROVE  ApprovalInv'
<1>1. CASE O!SubmitRead(h)
    <2> DEFINE next == [O!Idle EXCEPT !.at = "create"]
    <2>1. next \in TaskStates /\ next.at = "create"
        BY DEF O!Idle, TaskStates
    <2>2. /\ task' = [task EXCEPT ![h] = next]
          /\ UNCHANGED <<body, petition, admin, slipped, granted>> /\ crossed' \subseteq O!Rows
        BY <1>1 DEF O!SubmitRead, O!Goto, ApprovalInv, O!TypeOK
    <2> HIDE DEF next
    <2> QED BY <2>1, <2>2, TaskTurns
<1>2. CASE O!OfficeStops(h)
    <2>1. O!Idle \in TaskStates /\ O!Idle.at = "idle"
        BY DEF O!Idle, TaskStates
    <2>2. /\ task' = [task EXCEPT ![h] = O!Idle]
          /\ UNCHANGED <<body, petition, admin, slipped, granted>> /\ crossed' \subseteq O!Rows
        BY <1>2 DEF O!OfficeStops, O!Goto, ApprovalInv, O!TypeOK
    <2> QED BY <2>1, <2>2, TaskTurns
<1>3. ASSUME NEW o \in O!Rows, NEW decision \in O!Reviewed, O!ReviewRead(h, o, decision)
      PROVE  ApprovalInv'
    <2> DEFINE next == [O!Idle EXCEPT !.at = "review", !.row = o, !.decision = decision]
    <2> DEFINE a == [O!Idle EXCEPT !.at = "review"]
               b == [a EXCEPT !.row = o]
    <2>1. a \in TaskStates /\ a.at = "review" /\ next = [b EXCEPT !.decision = decision]
        BY DEF O!Idle, TaskStates
    <2>2. task' = [task EXCEPT ![h] = next]
        BY <1>3 DEF O!ReviewRead, O!Goto
    <2>3. UNCHANGED <<body, petition, admin, slipped, granted>> /\ crossed' \subseteq O!Rows
        BY <1>3 DEF O!ReviewRead, ApprovalInv, O!TypeOK
    <2>4. O!Exists(o) /\ petition[o] # "none"
        BY <1>3 DEF O!ReviewRead, ApprovalInv, RowsMade
    <2> HIDE DEF next, a
    <2>5. b \in TaskStates /\ b.at = "review" /\ b.row = o
        BY <2>1 DEF TaskStates
    <2> HIDE DEF b
    <2>6. next \in TaskStates /\ next.at = "review" /\ next.row = o /\ next.decision = decision
        BY <2>1, <2>5 DEF TaskStates
    <2> QED BY <2>2, <2>3, <2>4, <2>6, TaskTurns
<1>4. ASSUME NEW o \in O!Rows, NEW u \in Deputies, O!AppointCheck(h, o, u)
      PROVE  ApprovalInv'
    <2> DEFINE next == [O!Idle EXCEPT !.at = "check", !.row = o, !.deputy = u]
    <2> DEFINE a == [O!Idle EXCEPT !.at = "check"]
               b == [a EXCEPT !.row = o]
    <2>1. next \in TaskStates /\ next.at = "check" /\ next.row = o /\ next.deputy = u
        <3>1. a \in TaskStates /\ a.at = "check" /\ next = [b EXCEPT !.deputy = u]
            BY DEF O!Idle, TaskStates
        <3> HIDE DEF next, a
        <3>2. b \in TaskStates /\ b.at = "check" /\ b.row = o
            BY <3>1 DEF TaskStates
        <3> HIDE DEF b
        <3> QED BY <3>1, <3>2 DEF TaskStates
    <2>2. task' = [task EXCEPT ![h] = next]
        BY <1>4 DEF O!AppointCheck, O!Goto
    <2>3. UNCHANGED <<body, petition, admin, slipped, granted>> /\ crossed' \subseteq O!Rows
        BY <1>4 DEF O!AppointCheck, ApprovalInv, O!TypeOK
    <2>4. o \in Exempt \/ petition[o] = "APPROVED"
        BY <1>4 DEF ApprovalInv, AccessApproved, O!AppointCheck
    <2> HIDE DEF next
    <2> QED BY <2>1, <2>2, <2>3, <2>4, TaskTurns
<1>5. ASSUME NEW o \in O!Rows, NEW u \in Deputies, O!AssignRead(h, o, u)
      PROVE  ApprovalInv'
    <2> DEFINE next == [O!Idle EXCEPT !.at = "assign", !.row = o, !.deputy = u]
    <2> DEFINE a == [O!Idle EXCEPT !.at = "assign"]
               b == [a EXCEPT !.row = o]
    <2>1. next \in TaskStates /\ next.at = "assign" /\ next.row = o /\ next.deputy = u
        <3>1. a \in TaskStates /\ a.at = "assign" /\ next = [b EXCEPT !.deputy = u]
            BY DEF O!Idle, TaskStates
        <3> HIDE DEF next, a
        <3>2. b \in TaskStates /\ b.at = "assign" /\ b.row = o
            BY <3>1 DEF TaskStates
        <3> HIDE DEF b
        <3> QED BY <3>1, <3>2 DEF TaskStates
    <2>2. task' = [task EXCEPT ![h] = next]
        BY <1>5 DEF O!AssignRead, O!Goto
    <2>3. UNCHANGED <<body, petition, admin, slipped, granted>> /\ crossed' \subseteq O!Rows
        BY <1>5 DEF O!AssignRead, ApprovalInv, O!TypeOK
    <2> HIDE DEF next
    <2> QED BY <2>1, <2>2, <2>3, TaskTurns
<1>6. CASE O!AppointRead(h)
    <2> DEFINE next == [task[h] EXCEPT !.at = "appoint"]
    <2>1. task[h] \in TaskStates /\ task[h].at = "check"
        BY <1>6 DEF O!AppointRead, ApprovalInv, O!TypeOK, TaskStates
    <2>2. /\ next \in TaskStates /\ next.at = "appoint"
          /\ next.row = task[h].row /\ next.deputy = task[h].deputy
        BY <2>1 DEF TaskStates
    <2>3. task' = [task EXCEPT ![h] = next]
        BY <1>6 DEF O!AppointRead
    <2>4. UNCHANGED <<body, petition, admin, slipped, granted>> /\ crossed' \subseteq O!Rows
        BY <1>6 DEF O!AppointRead, ApprovalInv, O!TypeOK
    <2>5. /\ task[h].row \in O!Rows /\ task[h].deputy \in Deputies
          /\ task[h].row \in Exempt \/ petition[task[h].row] = "APPROVED"
        BY <2>1 DEF ApprovalInv, RowsMade, AppointingApproved
    <2> HIDE DEF next
    <2> QED BY <2>2, <2>3, <2>4, <2>5, TaskTurns
<1> QED BY <1>1, <1>2, <1>3, <1>4, <1>5, <1>6

\* The name is free, and the row that takes it is new.
LEMMA OrganisationCreated ==
    ASSUME ApprovalInv, NEW h \in Workers, O!SubmitCreate(h)
    PROVE  ApprovalInv'
<1>1. CASE UNCHANGED <<body, admin>> /\ O!Goto(h, O!Idle)
    <2>1. UNCHANGED <<body, petition, admin, slipped, crossed, granted>>
        BY <1>1 DEF O!SubmitCreate
    <2>2. AccessApproved'
        BY <2>1 DEF ApprovalInv, AccessApproved, O!ActiveAdmins, Exempt
    <2>3. O!TypeOK'
        BY <1>1, <2>1 DEF ApprovalInv, O!TypeOK, O!Goto, O!Idle
    <2>4. RowsMade' /\ AppointingApproved'
        BY <1>1, <2>1 DEF ApprovalInv, O!TypeOK, RowsMade, O!Exists, AppointingApproved, Exempt, O!Goto, O!Idle
    <2> QED BY <2>2, <2>3, <2>4 DEF ApprovalInv
<1>2. ASSUME O!Holders = {}, NEW o \in O!Rows, ~O!Exists(o),
             body' = [body EXCEPT ![o] = [status |-> "DRAFT", deleted |-> FALSE]],
             admin' = [admin EXCEPT ![o][O!Founder] = "INACTIVE"],
             O!Goto(h, [O!Idle EXCEPT !.at = "submit", !.row = o])
      PROVE  ApprovalInv'
    <2>1. UNCHANGED <<petition, crossed, slipped, granted>>
        BY DEF O!SubmitCreate
    <2>2. petition[o] = "none"
        BY <1>2 DEF ApprovalInv, RowsMade
    <2>3. O!TypeOK'
        BY <1>2, <2>1 DEF ApprovalInv, O!TypeOK, O!Goto, O!Idle
    <2>4. \A p \in O!Rows : O!Exists(p) => O!Exists(p)' /\ p # o
        BY <1>2 DEF ApprovalInv, O!TypeOK, O!Exists
    <2>5. O!Exists(o)'
        BY <1>2 DEF ApprovalInv, O!TypeOK, O!Exists
    <2>6. RowsMade'
        BY <1>2, <2>1, <2>2, <2>4, <2>5 DEF ApprovalInv, O!TypeOK, RowsMade, O!Goto, O!Idle
    <2>7. AppointingApproved'
        BY <1>2, <2>1 DEF ApprovalInv, O!TypeOK, AppointingApproved, Exempt, O!Goto, O!Idle
    <2>8. \A p \in O!Rows : O!ActiveAdmins(p)' \subseteq O!ActiveAdmins(p)
        BY <1>2 DEF ApprovalInv, O!TypeOK, O!ActiveAdmins
    <2>9. AccessApproved'
        BY <2>1, <2>8 DEF ApprovalInv, AccessApproved, Exempt
    <2> QED BY <2>3, <2>6, <2>7, <2>9 DEF ApprovalInv
<1> QED BY <1>1, <1>2 DEF O!SubmitCreate

LEMMA RequestMade ==
    ASSUME ApprovalInv, NEW h \in Workers, O!SubmitRequest(h)
    PROVE  ApprovalInv'
<1> DEFINE o == task[h].row
<1>1. /\ UNCHANGED <<body, admin, crossed, slipped, granted>>
      /\ o \in O!Rows /\ O!Exists(o) /\ petition[o] = "none"
    BY DEF O!SubmitRequest, ApprovalInv, RowsMade
<1>2. \A p \in O!Rows : petition'[p] = IF p = o THEN "PENDING" ELSE petition[p]
    BY <1>1 DEF O!SubmitRequest, ApprovalInv, O!TypeOK
<1>3. O!TypeOK'
    BY <1>1 DEF O!SubmitRequest, ApprovalInv, O!TypeOK, O!Goto, O!Idle
<1>4. AccessApproved'
    BY <1>1, <1>2 DEF ApprovalInv, AccessApproved, O!ActiveAdmins, Exempt
<1>5. RowsMade'
    BY <1>1, <1>2 DEF O!SubmitRequest, ApprovalInv, O!TypeOK, RowsMade, O!Exists, O!Goto, O!Idle
<1>6. AppointingApproved'
    BY <1>1, <1>2 DEF O!SubmitRequest, ApprovalInv, O!TypeOK, RowsMade, AppointingApproved, Exempt, O!Goto, O!Idle
<1> QED BY <1>3, <1>4, <1>5, <1>6 DEF ApprovalInv

\* A rejection leaves nobody with access; appointments under way slip.
LEMMA ReviewMade ==
    ASSUME ApprovalInv, NEW h \in Workers, O!ReviewCommit(h)
    PROVE  ApprovalInv'
<1> DEFINE o == task[h].row
<1> DEFINE decision == task[h].decision
<1>1. o \in O!Rows /\ O!Exists(o) /\ decision \in O!Reviewed /\ UNCHANGED <<crossed, granted>>
    BY DEF O!ReviewCommit, ApprovalInv, RowsMade
<1>2. \A p \in O!Rows : petition'[p] = IF p = o THEN decision ELSE petition[p]
    BY <1>1 DEF O!ReviewCommit, ApprovalInv, O!TypeOK
<1>3. \A p \in O!Rows : O!Exists(p)' = O!Exists(p)
    BY <1>1 DEF O!ReviewCommit, ApprovalInv, O!TypeOK, O!Exists, O!Approved, O!Rejected
<1>4. slipped \subseteq slipped' /\ slipped' \subseteq O!Rows
    BY <1>1 DEF O!ReviewCommit, ApprovalInv, O!TypeOK
<1>5. O!Decided(o, decision) \in [AdminUsers -> {"none", "INACTIVE", "ACTIVE", "REVOKED"}]
    BY DEF O!Decided, AdminUsers
<1>6. O!TypeOK'
    <2>1. body' \in [O!Rows -> [status : {"none", "DRAFT", "ACTIVE", "ARCHIVED"}, deleted : BOOLEAN]]
        BY <1>1 DEF O!ReviewCommit, ApprovalInv, O!TypeOK, O!Approved, O!Rejected
    <2>2. petition' \in [O!Rows -> {"none", "PENDING"} \cup O!Reviewed]
        BY <1>1 DEF O!ReviewCommit, ApprovalInv, O!TypeOK
    <2>3. admin' \in [O!Rows -> [AdminUsers -> {"none", "INACTIVE", "ACTIVE", "REVOKED"}]]
        BY <1>1, <1>5 DEF O!ReviewCommit, ApprovalInv, O!TypeOK, AdminUsers
    <2>4. task' \in [Workers -> TaskStates]
        BY DEF O!ReviewCommit, ApprovalInv, O!TypeOK, O!Goto, O!Idle, TaskStates
    <2> QED BY <1>1, <1>4, <2>1, <2>2, <2>3, <2>4 DEF ApprovalInv, O!TypeOK, AdminUsers, TaskStates
<1>7. RowsMade'
    <2>1. \A p \in O!Rows : petition'[p] # "none" => O!Exists(p)'
        BY <1>1, <1>2, <1>3 DEF ApprovalInv, RowsMade
    <2>2. \A g \in Workers : task'[g] = IF g = h THEN O!Idle ELSE task[g]
        BY DEF O!ReviewCommit, O!Goto, ApprovalInv, O!TypeOK
    <2>3. \A g \in Workers : task[g].at = "submit" => task[g].row # o
        BY <1>1, <2>2 DEF O!ReviewCommit, ApprovalInv, RowsMade, O!TypeOK, O!Reviewed
    <2>4. ASSUME NEW g \in Workers \ {h}
          PROVE  /\ task[g].at \in {"submit", "review", "check", "appoint", "assign"} =>
                       task[g].row \in O!Rows
                 /\ task[g].at \in {"submit", "review"} => O!Exists(task[g].row)
                 /\ task[g].at = "review" =>
                       task[g].decision \in O!Reviewed /\ petition'[task[g].row] # "none"
                 /\ task[g].at \in {"check", "appoint", "assign"} => task[g].deputy \in Deputies
                 /\ task[g].at = "submit" =>
                       /\ petition'[task[g].row] = "none"
                       /\ \A f \in Workers \ {g} :
                             ~(task[f].at = "submit" /\ task[f].row = task[g].row)
        BY <1>1, <1>2, <2>3, <2>4 DEF ApprovalInv, RowsMade, O!Reviewed
    <2>5. \A g \in Workers : task'[g].at # "idle" => g # h /\ task'[g] = task[g]
        BY <2>2 DEF O!Idle
    <2> QED BY <1>3, <2>1, <2>4, <2>5 DEF RowsMade
<1>8. AppointingApproved'
    <2>1. \A g \in Workers : task'[g] = IF g = h THEN O!Idle ELSE task[g]
        BY DEF O!ReviewCommit, O!Goto, ApprovalInv, O!TypeOK
    <2>2. ASSUME NEW g \in Workers \ {h}, task[g].at \in {"check", "appoint"}, task[g].row = o
          PROVE  o \in slipped'
        BY <2>2, <1>1 DEF O!ReviewCommit, O!Others
    <2> QED BY <1>1, <1>2, <1>4, <2>1, <2>2
           DEF ApprovalInv, RowsMade, AppointingApproved, Exempt, O!Idle
<1>9. AccessApproved'
    <2>1. admin' = [admin EXCEPT ![o] = O!Decided(o, decision)] /\ admin \in [O!Rows -> [AdminUsers ->
                {"none", "INACTIVE", "ACTIVE", "REVOKED"}]]
        BY DEF O!ReviewCommit, ApprovalInv, O!TypeOK, AdminUsers
    <2>2. \A p \in O!Rows : admin'[p] = IF p = o THEN O!Decided(o, decision) ELSE admin[p]
        BY <2>1
    <2>3. \A p \in O!Rows \ {o} : O!ActiveAdmins(p)' = O!ActiveAdmins(p)
        BY <2>2 DEF O!ActiveAdmins
    <2>4. \A p \in O!Rows : p = o /\ decision # "APPROVED" => O!ActiveAdmins(p)' = {}
        BY <1>1, <2>2 DEF O!ActiveAdmins, O!Decided
    <2>5. ASSUME NEW p \in O!Rows, O!ActiveAdmins(p)' # {}
          PROVE  p \in Exempt' \/ petition'[p] = "APPROVED"
        BY <1>1, <1>2, <1>4, <2>3, <2>4, <2>5 DEF ApprovalInv, AccessApproved, Exempt
    <2> QED BY <2>5 DEF AccessApproved
<1> QED BY <1>6, <1>7, <1>8, <1>9 DEF ApprovalInv

\* An appointment is of an approved organisation; an assignment makes its
\* organisation an exception.
LEMMA AdminAppointed ==
    ASSUME ApprovalInv, NEW h \in Workers, O!AppointCommit(h) \/ O!AssignCommit(h)
    PROVE  ApprovalInv'
<1>1. PICK o \in O!Rows, u \in AdminUsers : o = task[h].row /\ u = task[h].deputy
    BY DEF O!AppointCommit, O!AssignCommit, ApprovalInv, RowsMade, AdminUsers
<1>2. /\ UNCHANGED <<body, petition, crossed, slipped>>
      /\ task' = [task EXCEPT ![h] = O!Idle]
      /\ admin' = [admin EXCEPT ![o][u] = "ACTIVE"]
      /\ granted' = granted \/ granted' = granted \cup {o}
    BY <1>1 DEF O!AppointCommit, O!AssignCommit, O!Goto
<1>3. o \in Exempt' \/ petition[o] = "APPROVED"
    BY <1>1 DEF O!AppointCommit, O!AssignCommit, ApprovalInv, AppointingApproved, Exempt
<1>4. Exempt \subseteq Exempt'
    BY <1>2 DEF Exempt
<1>5. O!TypeOK'
    <2>1. admin' \in [O!Rows -> [AdminUsers -> {"none", "INACTIVE", "ACTIVE", "REVOKED"}]]
        BY <1>1, <1>2 DEF ApprovalInv, O!TypeOK, AdminUsers
    <2>2. task' \in [Workers -> TaskStates]
        BY <1>2 DEF ApprovalInv, O!TypeOK, O!Idle, TaskStates
    <2>3. granted' \subseteq O!Rows
        BY <1>2 DEF ApprovalInv, O!TypeOK
    <2> QED BY <1>2, <2>1, <2>2, <2>3 DEF ApprovalInv, O!TypeOK, AdminUsers, TaskStates
<1>6. RowsMade'
    BY <1>2 DEF ApprovalInv, O!TypeOK, RowsMade, O!Exists, O!Idle
<1>7. AppointingApproved'
    BY <1>2, <1>4 DEF ApprovalInv, O!TypeOK, RowsMade, AppointingApproved, O!Idle
<1>8. \A p \in O!Rows \ {o} : O!ActiveAdmins(p)' = O!ActiveAdmins(p)
    BY <1>1, <1>2 DEF ApprovalInv, O!TypeOK, O!ActiveAdmins
<1>9. AccessApproved'
    BY <1>2, <1>3, <1>4, <1>8 DEF ApprovalInv, AccessApproved
<1> QED BY <1>5, <1>6, <1>7, <1>9 DEF ApprovalInv

\* Revoking takes access away from one user.
LEMMA AdminRevoked ==
    ASSUME ApprovalInv, NEW o \in O!Rows, NEW u \in AdminUsers, O!RevokeAdmin(o, u)
    PROVE  ApprovalInv'
<1>1. /\ UNCHANGED <<body, petition, task, crossed, slipped, granted>>
      /\ admin' = [admin EXCEPT ![o][u] = "REVOKED"]
    BY DEF O!RevokeAdmin
<1>2. O!TypeOK'
    BY <1>1 DEF ApprovalInv, O!TypeOK, AdminUsers
<1>3. RowsMade' /\ AppointingApproved'
    BY <1>1 DEF ApprovalInv, O!Exists, RowsMade, AppointingApproved, Exempt
<1>4. \A p \in O!Rows : O!ActiveAdmins(p)' \subseteq O!ActiveAdmins(p)
    BY <1>1 DEF ApprovalInv, O!TypeOK, O!ActiveAdmins, AdminUsers
<1>5. AccessApproved'
    BY <1>1, <1>4 DEF ApprovalInv, AccessApproved, Exempt
<1> QED BY <1>2, <1>3, <1>5 DEF ApprovalInv

LEMMA StatusChanges ==
    ASSUME ApprovalInv, NEW o \in O!Rows, O!Restand(o)
    PROVE  ApprovalInv'
<1>1. PICK s \in {"ACTIVE", "ARCHIVED"} : body' = [body EXCEPT ![o].status = s]
    BY DEF O!Restand
<1>2. UNCHANGED <<petition, admin, task, crossed, slipped, granted>> /\ O!Exists(o)
    BY DEF O!Restand
<1>3. \A p \in O!Rows : O!Exists(p)' = O!Exists(p)
    BY <1>1, <1>2 DEF ApprovalInv, O!TypeOK, O!Exists
<1>4. O!TypeOK'
    BY <1>1, <1>2 DEF ApprovalInv, O!TypeOK
<1>5. AccessApproved' /\ AppointingApproved'
    BY <1>2 DEF ApprovalInv, AccessApproved, O!ActiveAdmins, AppointingApproved, Exempt
<1>6. RowsMade'
    BY <1>2, <1>3 DEF ApprovalInv, RowsMade
<1> QED BY <1>4, <1>5, <1>6 DEF ApprovalInv

----------------------------------------------------------------------------
(* The invariant *)

LEMMA ApprovalStarts == O!Init => ApprovalInv
<1> SUFFICES ASSUME O!Init PROVE ApprovalInv
    OBVIOUS
<1>1. O!TypeOK
    BY DEF O!Init, O!TypeOK, O!Idle
<1>2. RowsMade /\ AppointingApproved
    BY DEF O!Init, RowsMade, AppointingApproved, O!Exists, O!Idle
<1>3. AccessApproved
    BY DEF O!Init, AccessApproved, O!ActiveAdmins
<1> QED BY <1>1, <1>2, <1>3 DEF ApprovalInv

LEMMA ApprovalInductive == ApprovalInv /\ [O!Next]_(O!vars) => ApprovalInv'
<1> SUFFICES ASSUME ApprovalInv, [O!Next]_(O!vars) PROVE ApprovalInv'
    OBVIOUS
<1>1. ASSUME NEW h \in Workers, O!OfficeStep(h)
      PROVE  ApprovalInv'
    BY <1>1, TaskReads, OrganisationCreated, RequestMade, ReviewMade, AdminAppointed DEF O!OfficeStep
<1>2. ASSUME NEW o \in O!Rows, O!Restand(o)
      PROVE  ApprovalInv'
    BY <1>2, StatusChanges
<1>3. ASSUME NEW o \in O!Rows, NEW u \in AdminUsers, O!RevokeAdmin(o, u)
      PROVE  ApprovalInv'
    BY <1>3, AdminRevoked
<1>4. CASE UNCHANGED O!vars
    <2>1. O!TypeOK'
        BY <1>4 DEF O!vars, ApprovalInv, O!TypeOK
    <2>2. RowsMade'
        BY <1>4 DEF O!vars, ApprovalInv, RowsMade, O!Exists
    <2>3. AccessApproved'
        BY <1>4 DEF O!vars, ApprovalInv, AccessApproved, O!ActiveAdmins, Exempt
    <2>4. AppointingApproved'
        BY <1>4 DEF O!vars, ApprovalInv, AppointingApproved, Exempt
    <2> QED BY <2>1, <2>2, <2>3, <2>4 DEF ApprovalInv
<1> QED BY <1>1, <1>2, <1>3, <1>4 DEF O!Next, AdminUsers

\* Every variable keeps its type (review, assignOrganizationAdmin).
THEOREM ApprovalsTypeCorrect == O!Spec => []O!TypeOK
<1>1. ApprovalInv => O!TypeOK
    BY DEF ApprovalInv
<1> QED BY <1>1, ApprovalStarts, ApprovalInductive, PTL DEF O!Spec

\* Only an approved organisation has administrators with access, unless one was
\* appointed while it was reviewed or assigned by a platform administrator
\* (review, assignOrganizationAdmin, assignAdminWithPermissions).
THEOREM AccessStaysApproved == O!Spec => []O!AccessIsApproved
<1>1. ApprovalInv => O!AccessIsApproved
    BY DEF ApprovalInv, AccessApproved, Exempt, O!AccessIsApproved
<1> QED BY <1>1, ApprovalStarts, ApprovalInductive, PTL DEF O!Spec

LEMMA ApprovalsSide == ServicesSpec => O!Spec
<1>1. ServicesInit => O!Init
    BY DEF ServicesInit
<1>2. [ServicesNext]_allvars => [O!Next]_(O!vars)
    BY DEF ServicesNext, allvars, electionVars, sessionVars, resetVars, activityVars,
           promotionVars, membershipVars, approvalVars, O!vars
<1> QED BY <1>1, <1>2, PTL DEF ServicesSpec, O!Spec

\* Access to an organisation is approved, with the same two exceptions, in the
\* services side by side (review, assignOrganizationAdmin,
\* assignAdminWithPermissions).
THEOREM AccessApprovedOnly == ServicesSpec => []AccessIsApproved
BY ApprovalsSide, AccessStaysApproved, PTL DEF AccessIsApproved
============================================================================
