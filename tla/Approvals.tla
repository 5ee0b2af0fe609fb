----------------------------- MODULE Approvals ------------------------------
(***************************************************************************)
(* Organisations that students submit, all under one name: the submission, *)
(* its review by platform administrators, and the administrators of the    *)
(* organisation, who may appoint others once it is approved.  A platform   *)
(* administrator assigns one to any organisation.                          *)
(*                                                                         *)
(* A submission makes the organisation in one transaction and the request  *)
(* for its approval after it.  A review reads the request before the       *)
(* transaction that writes the decision, and does not look at it again.    *)
(***************************************************************************)
EXTENDS Integers

CONSTANTS
    MaxRows, \* bound: organisations, 1..MaxRows in the order of creation
    Deputies, \* users who may be appointed
    Offices, \* handlers running at one time
    None     \* no organisation, no deputy, no decision

VARIABLES
    body,    \* each organisation: its status, whether it has been deleted
    request, \* the status of its approval request
    admin,   \* the status of each user as its administrator
    task,    \* what each handler is doing
    crossed, \* organisations two of whose reviews were under way at once
    slipped, \* organisations reviewed while an appointment was under way
    granted  \* organisations a platform administrator has assigned one to

vars == <<body, request, admin, task, crossed, slipped, granted>>

Rows == 1..MaxRows
Founder == "founder"
Reviewed == {"APPROVED", "REJECTED"}
Idle == [at |-> "idle", row |-> None, deputy |-> None, decision |-> None]

Exists(o) == body[o].status # "none"
Holders == {o \in Rows : Exists(o) /\ ~body[o].deleted}
ActiveAdmins(o) == {u \in {Founder} \cup Deputies : admin[o][u] = "ACTIVE"}
Goto(h, next) == task' = [task EXCEPT ![h] = next]
Others(h, points, o) ==
    {g \in Offices \ {h} : task[g].at \in points /\ task[g].row = o}

----------------------------------------------------------------------------
(* organization: a student submits one *)

\* No organisation has the name.
SubmitRead(h) ==
    /\ task[h].at = "idle"
    /\ Holders = {}
    /\ Goto(h, [Idle EXCEPT !.at = "create"])
    /\ UNCHANGED <<body, request, admin, crossed, slipped, granted>>

\* The organisation, its founder's membership and administrator's row and its
\* wallet.  The name is unique among those that are not deleted.
SubmitCreate(h) ==
    /\ task[h].at = "create"
    /\ \/ /\ Holders = {}
          /\ \E o \in Rows :
                /\ ~Exists(o) /\ \A p \in 1..(o - 1) : Exists(p)
                /\ body' = [body EXCEPT ![o] = [status |-> "DRAFT", deleted |-> FALSE]]
                /\ admin' = [admin EXCEPT ![o][Founder] = "INACTIVE"]
                /\ Goto(h, [Idle EXCEPT !.at = "submit", !.row = o])
       \/ Holders # {} /\ Goto(h, Idle) /\ UNCHANGED <<body, admin>>
    /\ UNCHANGED <<request, crossed, slipped, granted>>

\* In a statement of its own.
SubmitRequest(h) ==
    /\ task[h].at = "submit"
    /\ request' = [request EXCEPT ![task[h].row] = "PENDING"]
    /\ Goto(h, Idle)
    /\ UNCHANGED <<body, admin, crossed, slipped, granted>>

----------------------------------------------------------------------------
(* review *)

ReviewRead(h, o, decision) ==
    /\ task[h].at = "idle"
    /\ request[o] = "PENDING"
    /\ Goto(h, [Idle EXCEPT !.at = "review", !.row = o, !.decision = decision])
    /\ crossed' = IF Others(h, {"review"}, o) = {} THEN crossed ELSE crossed \cup {o}
    /\ UNCHANGED <<body, request, admin, slipped, granted>>

\* approvedState leaves the date of a deletion as it is.
Approved(o) == [body[o] EXCEPT !.status = "ACTIVE"]
Rejected == [status |-> "ARCHIVED", deleted |-> TRUE]

\* Mutant: a rejection revokes the row of the founder alone.
RevokesFounderOnly(o, decision) ==
    [u \in {Founder} \cup Deputies |->
        IF admin[o][u] = "none" THEN "none"
        ELSE IF decision = "APPROVED" THEN "ACTIVE"
        ELSE IF u = Founder THEN "REVOKED" ELSE admin[o][u]]

\* All its administrators follow the decision.
Decided(o, decision) ==
    [u \in {Founder} \cup Deputies |->
        IF admin[o][u] = "none" THEN "none"
        ELSE IF decision = "APPROVED" THEN "ACTIVE" ELSE "REVOKED"]

\* One transaction, and the row of the organisation is written first: reviews
\* of one organisation follow one another.  The index on the names of those not
\* deleted holds for this update too.
ReviewCommit(h) ==
    LET o == task[h].row
        decision == task[h].decision
        after == IF decision = "APPROVED" THEN Approved(o) ELSE Rejected
    IN  /\ task[h].at = "review"
        /\ after.deleted \/ Holders \subseteq {o}
        /\ body' = [body EXCEPT ![o] = after]
        /\ admin' = [admin EXCEPT ![o] = Decided(o, decision)]
        /\ request' = [request EXCEPT ![o] = decision]
        /\ slipped' = IF Others(h, {"check", "appoint"}, o) = {} THEN slipped
                      ELSE slipped \cup {o}
        /\ Goto(h, Idle)
        /\ UNCHANGED <<crossed, granted>>

----------------------------------------------------------------------------
(* The administrators (rbac.service), and what organizations.service does   *)
(* to the status (module Memberships)                                      *)

\* assignOrganizationAdmin: an active administrator appoints another.
AppointCheck(h, o, u) ==
    /\ task[h].at = "idle"
    /\ ActiveAdmins(o) # {}
    /\ Goto(h, [Idle EXCEPT !.at = "check", !.row = o, !.deputy = u])
    /\ UNCHANGED <<body, request, admin, crossed, slipped, granted>>

\* The organisation is read after that, and must be active.
AppointRead(h) ==
    /\ task[h].at = "check"
    /\ body[task[h].row].status = "ACTIVE"
    /\ task' = [task EXCEPT ![h].at = "appoint"]
    /\ UNCHANGED <<body, request, admin, crossed, slipped, granted>>

AppointCommit(h) ==
    /\ task[h].at = "appoint"
    /\ admin' = [admin EXCEPT ![task[h].row][task[h].deputy] = "ACTIVE"]
    /\ Goto(h, Idle)
    /\ UNCHANGED <<body, request, crossed, slipped, granted>>

\* assignAdminRole, assignAdminWithPermissions: a platform administrator assigns
\* a user who has no row yet, whatever the organisation's status.
AssignRead(h, o, u) ==
    /\ task[h].at = "idle"
    /\ Exists(o)
    /\ admin[o][u] = "none"
    /\ Goto(h, [Idle EXCEPT !.at = "assign", !.row = o, !.deputy = u])
    /\ UNCHANGED <<body, request, admin, crossed, slipped, granted>>

AssignCommit(h) ==
    /\ task[h].at = "assign"
    /\ admin' = [admin EXCEPT ![task[h].row][task[h].deputy] = "ACTIVE"]
    /\ granted' = granted \cup {task[h].row}
    /\ Goto(h, Idle)
    /\ UNCHANGED <<body, request, crossed, slipped>>

\* revokeAdminRole.
RevokeAdmin(o, u) ==
    /\ admin[o][u] \in {"INACTIVE", "ACTIVE"}
    /\ admin' = [admin EXCEPT ![o][u] = "REVOKED"]
    /\ UNCHANGED <<body, request, task, crossed, slipped, granted>>

\* activateOrganization, archiveOrganization.
Restand(o) ==
    /\ Exists(o)
    /\ \E s \in {"ACTIVE", "ARCHIVED"} \ {body[o].status} :
          body' = [body EXCEPT ![o].status = s]
    /\ UNCHANGED <<request, admin, task, crossed, slipped, granted>>

\* A handler fails or its process stops; an open transaction is rolled back.
OfficeStops(h) ==
    /\ task[h].at # "idle"
    /\ Goto(h, Idle)
    /\ UNCHANGED <<body, request, admin, crossed, slipped, granted>>

----------------------------------------------------------------------------
Init ==
    /\ body = [o \in Rows |-> [status |-> "none", deleted |-> FALSE]]
    /\ request = [o \in Rows |-> "none"]
    /\ admin = [o \in Rows |-> [u \in {Founder} \cup Deputies |-> "none"]]
    /\ task = [h \in Offices |-> Idle]
    /\ crossed = {}
    /\ slipped = {}
    /\ granted = {}

OfficeStep(h) ==
    \/ SubmitRead(h) \/ SubmitCreate(h) \/ SubmitRequest(h)
    \/ \E o \in Rows, decision \in Reviewed : ReviewRead(h, o, decision)
    \/ ReviewCommit(h)
    \/ \E o \in Rows, u \in Deputies : AppointCheck(h, o, u) \/ AssignRead(h, o, u)
    \/ AppointRead(h) \/ AppointCommit(h) \/ AssignCommit(h) \/ OfficeStops(h)

Next ==
    \/ \E h \in Offices : OfficeStep(h)
    \/ \E o \in Rows : Restand(o) \/ \E u \in {Founder} \cup Deputies : RevokeAdmin(o, u)

Spec == Init /\ [][Next]_vars

----------------------------------------------------------------------------
(* Properties *)

TypeOK ==
    /\ body \in [Rows -> [status : {"none", "DRAFT", "ACTIVE", "ARCHIVED"},
                          deleted : BOOLEAN]]
    /\ request \in [Rows -> {"none", "PENDING"} \cup Reviewed]
    /\ admin \in [Rows -> [{Founder} \cup Deputies ->
                     {"none", "INACTIVE", "ACTIVE", "REVOKED"}]]
    /\ task \in [Offices -> [at : {"idle", "create", "submit", "review", "check",
                                   "appoint", "assign"},
                             row : Rows \cup {None}, deputy : Deputies \cup {None},
                             decision : Reviewed \cup {None}]]
    /\ crossed \subseteq Rows
    /\ slipped \subseteq Rows
    /\ granted \subseteq Rows

\* Only an approved organisation has administrators with access, in whatever
\* order reviews, appointments and revocations come, unless one was appointed
\* while it was reviewed or assigned by a platform administrator (review,
\* assignOrganizationAdmin).
AccessIsApproved ==
    \A o \in Rows \ (slipped \cup granted) :
        ActiveAdmins(o) # {} => request[o] = "APPROVED"

\* Counterexample: only an approved organisation has administrators with access
\* (docs/self-service-organizations-frontend.md: an assignment "remains inactive
\* until platform approval").
AccessNeedsApproval ==
    \A o \in Rows : ActiveAdmins(o) # {} => request[o] = "APPROVED"

\* A decision stands unless two reviews of the request were under way at once
\* (review: already been reviewed).
DecisionStands ==
    [][\A o \in Rows : request[o] \in Reviewed /\ o \notin crossed
          => request'[o] = request[o]]_vars

\* Counterexample: a decision stands.
DecisionAlwaysStands ==
    [][\A o \in Rows : request[o] \in Reviewed => request'[o] = request[o]]_vars

\* Counterexample: a rejected organisation has no administrators with access
\* (docs/self-service-organizations-frontend.md: REVOKED on rejection).
RejectedHasNoAccess ==
    \A o \in Rows : request[o] = "REJECTED" => ActiveAdmins(o) = {}

\* Counterexample: an approved organisation is not deleted.
ApprovedIsAvailable ==
    \A o \in Rows : request[o] = "APPROVED" => ~body[o].deleted

\* Counterexample: once no handler is under way, an organisation that holds the
\* name has a request.
SubmissionHasRequest ==
    (\A h \in Offices : task[h].at = "idle") => \A o \in Holders : request[o] # "none"
=============================================================================
