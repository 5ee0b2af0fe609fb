------------------------------ MODULE Services ------------------------------
(***************************************************************************)
(* The modules about accounts and campus life side by side: the initial    *)
(* state chooses those that run, and the others never move.  A run of all  *)
(* of them one by one visits the sum of their states; their properties are *)
(* stated here for the runs and the proofs alike.                          *)
(***************************************************************************)
EXTENDS Elections

CONSTANTS
    Parts,   \* the modules an instance runs
    Workers, \* the handlers of each
    \* of Sessions and PasswordResets
    Clients, Account, Application, MaxSessions, MaxTime, MaxEvents, MaxLinks,
    \* of Registrations: users who register for the activity
    People, Capacities,
    \* of Promotions
    Students, MaxLevel, MaxYear, MaxChanges,
    \* of Memberships
    Places, Organised, Orders, Requested,
    \* of Approvals
    MaxOrganisations, Deputies

\* Browsers send what the application is built for; rows, links and years are
\* counted from one.
ASSUME SignInAssumption ==
    /\ MaxSessions \in Nat \ {0} /\ MaxTime \in Nat /\ MaxEvents \in Nat
    /\ None \notin Clients /\ \A c \in Clients : Account[c] # None
    /\ \A c \in Clients :
          Application[c] \in {"USER", "ORGANIZATION_ADMIN", "PLATFORM_ADMIN"}

ASSUME SeatsAssumption == IsFiniteSet(People) /\ Capacities \subseteq Nat

ASSUME PromotionAssumption ==
    MaxYear \in Nat \ {0} /\ MaxLevel \in Nat \ {0} /\ MaxChanges \in Nat

\* A place is the pair of its organisation and its student; the orders are
\* statuses.
ASSUME PlacesAssumption ==
    /\ \A p \in Places : p = <<p[1], p[2]>>
    /\ Orders \subseteq {"DRAFT", "PENDING_ACTIVATION", "ACTIVE", "INACTIVE",
                         "SUSPENDED", "ARCHIVED"}

AllParts == {"elections", "sessions", "resets", "registrations", "promotions",
             "memberships", "approvals"}

VARIABLES
    part,
    session, jar, password, call, reset, clock, disturbed, unlisted, mishaps, events,
    link, uses, handler, abreast,
    activity, registration, attendance, desk, unplanned, largest,
    calendar, student, record, promoted, office, raced, edited, reopened, changes,
    standing, membership, request, clerk, doubled, cut,
    body, petition, admin, task, crossed, slipped, granted

electionVars == <<status, members, candidates, votes, official, poll, crowded>>
sessionVars == <<session, jar, password, call, reset, clock, disturbed, unlisted,
                 mishaps, events>>
resetVars == <<link, uses, handler, abreast>>
activityVars == <<activity, registration, attendance, desk, unplanned, largest>>
promotionVars == <<calendar, student, record, promoted, office, raced, edited,
                   reopened, changes>>
membershipVars == <<standing, membership, request, clerk, doubled, cut>>
approvalVars == <<body, petition, admin, task, crossed, slipped, granted>>
allvars == <<part, electionVars, sessionVars, resetVars, activityVars,
             promotionVars, membershipVars, approvalVars>>

----------------------------------------------------------------------------
(* The instances; their handlers are the same workers. *)

S == INSTANCE Sessions WITH MaxRows <- MaxSessions, SignInWorkers <- Workers
R == INSTANCE PasswordResets WITH Requests <- Workers
A == INSTANCE Registrations WITH Attendees <- People, Desks <- Workers
P == INSTANCE Promotions WITH Registrars <- Workers
M == INSTANCE Memberships WITH Clerks <- Workers
O == INSTANCE Approvals WITH
        MaxRows <- MaxOrganisations, Offices <- Workers, request <- petition

----------------------------------------------------------------------------
ServicesInit ==
    /\ part \in Parts
    /\ Init /\ S!Init /\ R!Init /\ A!Init /\ P!Init /\ M!Init /\ O!Init
    \* an activity and a calendar that never move are one of those they may be
    /\ part = "registrations"
         \/ (activity.status = "DRAFT" /\ activity.free /\ activity.limit = None)
    /\ part = "promotions" \/ \A y \in P!Years : ~calendar[y].exists

ServicesNext ==
    \/ /\ part = "elections" /\ Next
       /\ UNCHANGED <<part, sessionVars, resetVars, activityVars,
                      promotionVars, membershipVars, approvalVars>>
    \/ /\ part = "sessions" /\ S!Next
       /\ UNCHANGED <<part, electionVars, resetVars, activityVars,
                      promotionVars, membershipVars, approvalVars>>
    \/ /\ part = "resets" /\ R!Next
       /\ UNCHANGED <<part, electionVars, sessionVars, activityVars,
                      promotionVars, membershipVars, approvalVars>>
    \/ /\ part = "registrations" /\ A!Next
       /\ UNCHANGED <<part, electionVars, sessionVars, resetVars,
                      promotionVars, membershipVars, approvalVars>>
    \/ /\ part = "promotions" /\ P!Next
       /\ UNCHANGED <<part, electionVars, sessionVars, resetVars,
                      activityVars, membershipVars, approvalVars>>
    \/ /\ part = "memberships" /\ M!Next
       /\ UNCHANGED <<part, electionVars, sessionVars, resetVars,
                      activityVars, promotionVars, approvalVars>>
    \/ /\ part = "approvals" /\ O!Next
       /\ UNCHANGED <<part, electionVars, sessionVars, resetVars,
                      activityVars, promotionVars, membershipVars>>

ServicesSpec == ServicesInit /\ [][ServicesNext]_allvars

----------------------------------------------------------------------------
(* The properties of the modules; those of Elections have their own names. *)

ServicesTypeOK ==
    /\ part = "elections" => TypeOK
    /\ part = "sessions" => S!TypeOK
    /\ part = "resets" => R!TypeOK
    /\ part = "registrations" => A!TypeOK
    /\ part = "promotions" => P!TypeOK
    /\ part = "memberships" => M!TypeOK
    /\ part = "approvals" => O!TypeOK

BrowserKeepsSession == S!BrowserKeepsSession
ResetEndsSessions == S!ResetEndsSessions
RevokedForGood == S!RevokedForGood
ResetEndsAll == S!ResetEndsAll
LogoutIsScoped == S!LogoutIsScoped
LogoutIsOwn == S!LogoutIsOwn
SessionHasPassword == S!SessionHasPassword
TabsKeepSession == S!TabsKeepSession

LinkUsedOnce == R!LinkUsedOnce
OneOpenLink == R!OneOpenLink
NewestLinkOnly == R!NewestLinkOnly

SeatsAreCounted == A!SeatsAreCounted
AttendeesWereConfirmed == A!AttendeesWereConfirmed
DeletionSparesRegistrations == A!DeletionSparesRegistrations
NeverOverbooked == A!NeverOverbooked
CancelledMayReturn == A!CancelledMayReturn
AttendeesAreConfirmed == A!AttendeesAreConfirmed

OneCurrentSession == P!OneCurrentSession
PromotedOnce == P!PromotedOnce
ProfileFollowsRecord == P!ProfileFollowsRecord
NeverTwoCurrent == P!NeverTwoCurrent
EveryoneMoves == P!EveryoneMoves

OneAcademicMembership == M!OneAcademicMembership
ApprovedIsMember == M!ApprovedIsMember
StandingFollowsTable == M!StandingFollowsTable
NeverTwoMemberships == M!NeverTwoMemberships
ArchivedStays == M!ArchivedStays
MembersLeaveDraft == M!MembersLeaveDraft
MembersHaveNoRequest == M!MembersHaveNoRequest

AccessIsApproved == O!AccessIsApproved
AccessNeedsApproval == O!AccessNeedsApproval
DecisionStands == O!DecisionStands
DecisionAlwaysStands == O!DecisionAlwaysStands
RejectedHasNoAccess == O!RejectedHasNoAccess
ApprovedIsAvailable == O!ApprovedIsAvailable
SubmissionHasRequest == O!SubmissionHasRequest
=============================================================================
