---------------------------- MODULE Memberships ----------------------------
(***************************************************************************)
(* Academic organisations of one type (the departments, say), their        *)
(* student memberships and join requests, and their own status.            *)
(*                                                                         *)
(* A student may have one active membership among them.  It is looked for  *)
(* a few awaits before the membership is inserted or updated, and the      *)
(* organisation's status is overwritten from what was read at the start.   *)
(***************************************************************************)
EXTENDS Integers, FiniteSets

CONSTANTS
    Places,    \* pairs of an organisation and a student who may belong to it
    Organised, \* the organisations whose status changes; the rest stay active
    Orders,    \* the statuses officers give them
    Requested, \* places that have an old join request still to be reviewed
    Clerks,    \* handlers running at one time
    None       \* no place

VARIABLES
    standing,   \* the status of each organisation
    membership, \* the status of the membership row of each place
    request,    \* the status of the join request of each place
    clerk,      \* what each handler is doing
    doubled,    \* students two of whose activations have overlapped
    cut         \* places whose review failed half way

vars == <<standing, membership, request, clerk, doubled, cut>>

Organisations == {p[1] : p \in Places}
Members == {p[2] : p \in Places}
Standings == {"DRAFT", "PENDING_ACTIVATION", "ACTIVE", "INACTIVE", "SUSPENDED", "ARCHIVED"}

NoClerk == [at |-> "idle", task |-> "none", place |-> None, result |-> "ACTIVE",
            standing |-> "ACTIVE", stale |-> FALSE, ended |-> {}]

Goto(w, next) == clerk' = [clerk EXCEPT ![w] = next]
Point(w, point) == Goto(w, [clerk[w] EXCEPT !.at = point])

ActiveIn(o) == {p \in Places : p[1] = o /\ membership[p] = "ACTIVE"}
ActiveOf(u) == {p \in Places : p[2] = u /\ membership[p] = "ACTIVE"}

\* An onboarding has the row locked until it commits: a write to it waits.
Held(p) == \E w \in Clerks : p \in clerk[w].ended

\* Handlers that have made sure of p's student and not acted on it.
Activating(p) ==
    {w \in Clerks : /\ clerk[w].at \in {"insert", "write", "onboard"}
                    /\ clerk[w].result = "ACTIVE"
                    /\ clerk[w].place[2] = p[2]}

----------------------------------------------------------------------------
(* assertSingleAcademicOrganizationMembership *)

\* Mutant: a membership that waits for approval is in the way, an active is not.
ConflictOfPending(p) ==
    \E q \in Places : q[2] = p[2] /\ q # p /\ membership[q] = "PENDING"

Conflict(p) == \E q \in ActiveOf(p[2]) : q[1] # p[1]

\* What a refusal leads to: a review puts the request back.
Refused(w) ==
    IF clerk[w].task = "review" THEN [clerk[w] EXCEPT !.at = "revert"] ELSE NoClerk

Assert(w) ==
    LET p == clerk[w].place
        next == IF clerk[w].task = "update" THEN "write" ELSE "insert"
    IN  /\ clerk[w].at = "assert"
        /\ \/ /\ ~Conflict(p)
              /\ Point(w, next)
              /\ doubled' = IF Activating(p) # {} /\ clerk[w].result = "ACTIVE"
                              THEN doubled \cup {p[2]} ELSE doubled
           \/ Conflict(p) /\ Goto(w, Refused(w)) /\ UNCHANGED doubled
        /\ UNCHANGED <<standing, membership, request, cut>>

----------------------------------------------------------------------------
(* requestToJoin and addMember *)

\* Of the status that is read only matters whether it is DRAFT.
Draft(o) == IF standing[o] = "DRAFT" THEN "DRAFT" ELSE "ACTIVE"

\* Organisation, membership and request are read; a rejected request goes.
JoinRead(w, p) ==
    /\ clerk[w].at = "idle"
    /\ standing[p[1]] \in {"ACTIVE", "DRAFT"}
    /\ membership[p] = "none" /\ request[p] \in {"none", "REJECTED"}
    /\ request' = [request EXCEPT ![p] = "none"]
    /\ Goto(w, [NoClerk EXCEPT !.at = "assert", !.task = "join", !.place = p,
                    !.standing = standing[p[1]]])
    /\ UNCHANGED <<standing, membership, doubled, cut>>

\* An administrator adds the student to any organisation, active or not.
AddRead(w, p) ==
    /\ clerk[w].at = "idle"
    /\ membership[p] = "none"
    /\ \E s \in {"PENDING", "ACTIVE"} :
          Goto(w, [NoClerk EXCEPT !.at = "assert", !.task = "add", !.place = p,
                       !.result = s, !.standing = Draft(p[1])])
    /\ UNCHANGED <<standing, membership, request, doubled, cut>>

\* There is one row for each place.
Insert(w) ==
    LET p == clerk[w].place
        next == IF clerk[w].task = "join" THEN "approve" ELSE "count"
    IN  /\ clerk[w].at = "insert"
        /\ \/ /\ membership[p] = "none"
              /\ membership' = [membership EXCEPT ![p] = clerk[w].result]
              /\ Point(w, next)
           \/ membership[p] # "none" /\ Goto(w, Refused(w)) /\ UNCHANGED membership
        /\ UNCHANGED <<standing, request, doubled, cut>>

JoinApprove(w) ==
    /\ clerk[w].at = "approve"
    /\ request' = [request EXCEPT ![clerk[w].place] = "APPROVED"]
    /\ Point(w, "count")
    /\ UNCHANGED <<standing, membership, doubled, cut>>

\* Mutant: any organisation waits for activation with its first member.
FirstOfAny(w) == Cardinality(ActiveIn(clerk[w].place[1])) = 1

\* The first active member of what was a draft when it was read.
FirstMember(w) ==
    /\ clerk[w].standing = "DRAFT"
    /\ Cardinality(ActiveIn(clerk[w].place[1])) = 1

Count(w) ==
    /\ clerk[w].at = "count"
    /\ Goto(w, IF FirstMember(w)
                 THEN [clerk[w] EXCEPT !.at = "standing", !.standing = "PENDING_ACTIVATION"]
                 ELSE NoClerk)
    /\ UNCHANGED <<standing, membership, request, doubled, cut>>

----------------------------------------------------------------------------
(* reviewJoinRequest and cancelJoinRequest *)

ReviewRead(w, p) ==
    /\ clerk[w].at = "idle"
    /\ request[p] = "PENDING"
    /\ \E point \in {"accept", "reject", "cancel"} :
          Goto(w, [NoClerk EXCEPT !.at = point, !.task = "review", !.place = p,
                       !.standing = Draft(p[1])])
    /\ UNCHANGED <<standing, membership, request, doubled, cut>>

\* The request is approved before the membership is made.
ReviewAccept(w) ==
    /\ clerk[w].at = "accept"
    /\ request[clerk[w].place] # "none"
    /\ request' = [request EXCEPT ![clerk[w].place] = "APPROVED"]
    /\ Point(w, "assert")
    /\ UNCHANGED <<standing, membership, doubled, cut>>

ReviewReject(w) ==
    /\ clerk[w].at = "reject"
    /\ request[clerk[w].place] # "none"
    /\ request' = [request EXCEPT ![clerk[w].place] = "REJECTED"]
    /\ Goto(w, NoClerk)
    /\ UNCHANGED <<standing, membership, doubled, cut>>

CancelDelete(w) ==
    /\ clerk[w].at = "cancel"
    /\ request[clerk[w].place] # "none"
    /\ request' = [request EXCEPT ![clerk[w].place] = "none"]
    /\ Goto(w, NoClerk)
    /\ UNCHANGED <<standing, membership, doubled, cut>>

\* A query that fails after the approval, once the membership is made too, is
\* caught.
ReviewFails(w) ==
    /\ clerk[w].task = "review"
    /\ clerk[w].at \in {"assert", "insert", "count", "standing"}
    /\ Point(w, "revert")
    /\ UNCHANGED <<standing, membership, request, doubled, cut>>

\* Mutant: the request stays approved when the membership cannot be made.
Unreverted(w) == request

\* What went wrong after the approval puts the request back.
Reverted(w) ==
    IF request[clerk[w].place] = "none" THEN request
    ELSE [request EXCEPT ![clerk[w].place] = "PENDING"]

ReviewRevert(w) ==
    /\ clerk[w].at = "revert"
    /\ request' = Reverted(w)
    /\ Goto(w, NoClerk)
    /\ UNCHANGED <<standing, membership, doubled, cut>>

----------------------------------------------------------------------------
(* updateMember, removeMember and the memberships made by onboarding *)

UpdateRead(w, p) ==
    /\ clerk[w].at = "idle"
    /\ membership[p] # "none"
    /\ \/ Goto(w, [NoClerk EXCEPT !.at = "assert", !.task = "update", !.place = p])
       \/ Goto(w, [NoClerk EXCEPT !.at = "write", !.task = "update", !.place = p,
                       !.result = "PENDING"])
    /\ UNCHANGED <<standing, membership, request, doubled, cut>>

UpdateWrite(w) ==
    /\ clerk[w].at = "write"
    /\ ~Held(clerk[w].place)
    /\ membership' = [membership EXCEPT ![clerk[w].place] = clerk[w].result]
    /\ Goto(w, NoClerk)
    /\ UNCHANGED <<standing, request, doubled, cut>>

RemoveMember(p) ==
    /\ membership[p] \in {"PENDING", "ACTIVE"}
    /\ ~Held(p)
    /\ membership' = [membership EXCEPT ![p] = "LEFT"]
    /\ UNCHANGED <<standing, request, clerk, doubled, cut>>

\* autoJoinInstitutionalOrganizationsInTransaction, for an active organisation:
\* the active memberships found are ended, and locked; one inserted after that
\* is not found.  Onboardings of one student wait for each other at the profile.
OnboardLeave(w, p) ==
    /\ clerk[w].at = "idle"
    /\ standing[p[1]] = "ACTIVE"
    /\ \A v \in Clerks : clerk[v].at = "onboard" => clerk[v].place[2] # p[2]
    /\ Goto(w, [NoClerk EXCEPT !.at = "onboard", !.task = "onboard", !.place = p,
                    !.ended = ActiveOf(p[2])])
    /\ doubled' = IF Activating(p) # {} THEN doubled \cup {p[2]} ELSE doubled
    /\ UNCHANGED <<standing, membership, request, cut>>

\* This membership is active and its request approved, whatever they were.
OnboardCommit(w) ==
    LET p == clerk[w].place
    IN  /\ clerk[w].at = "onboard"
        /\ membership' = [q \in Places |-> IF q = p THEN "ACTIVE"
                             ELSE IF q \in clerk[w].ended THEN "LEFT" ELSE membership[q]]
        /\ request' = [request EXCEPT ![p] = "APPROVED"]
        /\ Goto(w, NoClerk)
        /\ UNCHANGED <<standing, doubled, cut>>

----------------------------------------------------------------------------
(* The status of an organisation: updateOrganization, activateOrganization *)
(* and archiveOrganization read it, and overwrite it                       *)

\* validateStatusTransition.
Transitions ==
    [DRAFT |-> {"PENDING_ACTIVATION", "INACTIVE"},
     PENDING_ACTIVATION |-> {"ACTIVE", "INACTIVE", "DRAFT"},
     ACTIVE |-> {"INACTIVE", "SUSPENDED", "ARCHIVED"},
     INACTIVE |-> {"ACTIVE", "ARCHIVED"},
     SUSPENDED |-> {"ACTIVE", "ARCHIVED"},
     ARCHIVED |-> {}]

\* Mutant: the new status is not looked up in the table.
AllowedAll(o) == Standings \ {standing[o]}

Allowed(o) == Transitions[standing[o]]

\* Any organisation but an active one may be activated, if it has an active
\* member, and any but an archived one archived.
StandingRead(w, o) ==
    /\ clerk[w].at = "idle"
    /\ o \in Organised
    /\ \E s \in Orders :
          /\ \/ s \in Allowed(o)
             \/ s = "ACTIVE" /\ standing[o] # s /\ ActiveIn(o) # {}
             \/ s = "ARCHIVED" /\ standing[o] # s
          /\ Goto(w, [NoClerk EXCEPT !.at = "standing", !.task = "status",
                          !.place = CHOOSE p \in Places : p[1] = o, !.standing = s])
    /\ UNCHANGED <<standing, membership, request, doubled, cut>>

\* Other handlers that may write the status have read what is no longer true.
StandingWrite(w) ==
    LET o == clerk[w].place[1]
    IN  /\ clerk[w].at = "standing"
        /\ standing' = [standing EXCEPT ![o] = clerk[w].standing]
        /\ clerk' = [v \in Clerks |->
               IF v = w THEN NoClerk
               ELSE IF (clerk[v].at = "standing" \/ clerk[v].standing = "DRAFT")
                         /\ clerk[v].place[1] = o
                 THEN [clerk[v] EXCEPT !.stale = TRUE] ELSE clerk[v]]
        /\ UNCHANGED <<membership, request, doubled, cut>>

\* A handler fails or its process stops.
ClerkStops(w) ==
    /\ clerk[w].at # "idle"
    /\ Goto(w, NoClerk)
    /\ cut' = IF clerk[w].task = "review" THEN cut \cup {clerk[w].place} ELSE cut
    /\ UNCHANGED <<standing, membership, request, doubled>>

----------------------------------------------------------------------------
Init ==
    /\ standing = [o \in Organisations |-> IF o \in Organised THEN "DRAFT" ELSE "ACTIVE"]
    /\ membership = [p \in Places |-> "none"]
    /\ request = [p \in Places |-> IF p \in Requested THEN "PENDING" ELSE "none"]
    /\ clerk = [w \in Clerks |-> NoClerk]
    /\ doubled = {}
    /\ cut = {}

ClerkStep(w) ==
    \/ \E p \in Places :
          \/ JoinRead(w, p) \/ AddRead(w, p) \/ ReviewRead(w, p) \/ UpdateRead(w, p)
          \/ OnboardLeave(w, p)
    \/ \E o \in Organisations : StandingRead(w, o)
    \/ Assert(w) \/ Insert(w) \/ JoinApprove(w) \/ Count(w)
    \/ ReviewAccept(w) \/ ReviewReject(w) \/ CancelDelete(w) \/ ReviewFails(w)
    \/ ReviewRevert(w)
    \/ UpdateWrite(w) \/ OnboardCommit(w) \/ StandingWrite(w) \/ ClerkStops(w)

Next ==
    \/ \E w \in Clerks : ClerkStep(w)
    \/ \E p \in Places : RemoveMember(p)

Spec == Init /\ [][Next]_vars

----------------------------------------------------------------------------
(* Properties *)

TypeOK ==
    /\ standing \in [Organisations -> Standings]
    /\ membership \in [Places -> {"none", "PENDING", "ACTIVE", "LEFT"}]
    /\ request \in [Places -> {"none", "PENDING", "APPROVED", "REJECTED"}]
    /\ clerk \in [Clerks ->
           [at : {"idle", "assert", "insert", "approve", "count", "standing",
                  "accept", "reject", "cancel", "revert", "write", "onboard"},
            task : {"none", "join", "add", "review", "update", "onboard", "status"},
            place : Places \cup {None}, result : {"PENDING", "ACTIVE"},
            standing : Standings, stale : BOOLEAN, ended : SUBSET Places]]
    /\ doubled \subseteq Members
    /\ cut \subseteq Places

\* A student has one active academic membership at most, unless two handlers
\* had both made sure of it before either acted
\* (assertSingleAcademicOrganizationMembership and what follows it).
OneAcademicMembership ==
    \A u \in Members \ doubled : Cardinality(ActiveOf(u)) <= 1

\* An approved request has its membership, once the review is over and if it
\* was not cut short: a membership that cannot be made puts the request back
\* (reviewJoinRequest, requestToJoin, onboarding).
ApprovedIsMember ==
    \A p \in Places \ cut :
        request[p] = "APPROVED" /\ membership[p] = "none"
          => \E w \in Clerks : /\ clerk[w].task = "review" /\ clerk[w].place = p
                               /\ clerk[w].at \in {"assert", "insert", "revert"}

\* The status of an organisation changes as the transition table allows, or to
\* be activated or archived, unless it has changed since the handler read it:
\* a join in particular never takes an active organisation back
\* (validateStatusTransition, requestToJoin, addMember).
StandingFollowsTable ==
    [][\A o \in Organisations : standing'[o] # standing[o] =>
          \/ standing'[o] \in Transitions[standing[o]] \cup {"ACTIVE", "ARCHIVED"}
          \/ \E w \in Clerks : /\ clerk[w].at = "standing" /\ clerk'[w].at = "idle"
                               /\ clerk[w].place[1] = o /\ clerk[w].stale]_vars

\* Counterexample: a student never has two active academic memberships
\* (requestToJoin: a student can only have one active membership at a time).
NeverTwoMemberships == \A u \in Members : Cardinality(ActiveOf(u)) <= 1

\* Counterexample: an archived organisation stays archived
\* (validateStatusTransition allows nothing else).
ArchivedStays ==
    [][\A o \in Organisations : standing[o] = "ARCHIVED" => standing'[o] = "ARCHIVED"]_vars

\* Counterexample: once no handler is at work, an organisation with active
\* members is no draft.
MembersLeaveDraft ==
    \A o \in Organisations :
        (\A w \in Clerks : clerk[w].at = "idle") /\ standing[o] = "DRAFT"
          => ActiveIn(o) = {}

\* Counterexample: nobody with a membership has a request still to be reviewed.
MembersHaveNoRequest ==
    \A p \in Places : request[p] = "PENDING" => membership[p] = "none"
=============================================================================
