----------------------------- MODULE Elections ------------------------------
(***************************************************************************)
(* One election of an organisation: its status, the nominations for its    *)
(* positions and the ballots of the members.                               *)
(*                                                                         *)
(* Every handler reads the election first and acts on what it read, a few  *)
(* awaits later: an officer overwrites the status, a nomination inserts a  *)
(* candidate, and a ballot inserts votes in a transaction that looks at    *)
(* the voter's own votes again but not at the election.                    *)
(***************************************************************************)
EXTENDS Integers, FiniteSets

CONSTANTS
    Voters,        \* users who may vote
    Movers,        \* users who join and leave the organisation meanwhile
    Candidacies,   \* who may stand for what: records of a user and a position
    MaxCandidates, \* candidates a position may have
    Officials,     \* handlers of officers and nominations running at one time
    Polls,         \* ballots being cast at one time
    None           \* no candidacy, no voter

VARIABLES
    status,     \* of the election
    members,    \* the active members of the organisation
    candidates, \* the candidate rows
    votes,      \* the vote rows
    official,   \* the handlers of officers and nominations
    poll,       \* the ballots being cast
    crowded     \* voters with two ballots, and positions with two nominations,
                \* that were in progress at once

vars == <<status, members, candidates, votes, official, poll, crowded>>

Statuses == {"DRAFT", "NOMINATION", "ACTIVE", "COMPLETED", "CANCELLED"}
Positions == {c.position : c \in Candidacies}
Users == Voters \cup Movers \cup {c.user : c \in Candidacies}
Vote == [voter : Voters, candidate : Candidacies]

NoOfficial == [at |-> "idle", candidate |-> None]
NoPoll == [at |-> "idle", voter |-> None, ballot |-> {}]

For(p) == {c \in candidates : c.position = p}
VotesOf(v) == {x \in votes : x.voter = v}
Nominating(p) ==
    \E o \in Officials : official[o].at = "nominate" /\ official[o].candidate.position = p
Voting(v) == \E b \in Polls : poll[b].at # "idle" /\ poll[b].voter = v

----------------------------------------------------------------------------
(* Officers: the status is read, and later overwritten *)

Take(o, point) == /\ official[o].at = "idle"
                  /\ official' = [official EXCEPT ![o] = [NoOfficial EXCEPT !.at = point]]
                  /\ UNCHANGED <<status, members, candidates, votes, poll, crowded>>

StartRead(o) ==
    /\ status \notin {"ACTIVE", "COMPLETED"}
    /\ candidates # {}
    /\ Take(o, "start")

EndRead(o) ==
    /\ status # "COMPLETED"
    /\ Take(o, "end")

\* Mutant: a completed election may be updated.
UpdateReadUnlessActive(o) ==
    /\ status # "ACTIVE"
    /\ Take(o, "update")

UpdateRead(o) ==
    /\ status \notin {"ACTIVE", "COMPLETED"}
    /\ Take(o, "update")

Write(o, s) ==
    /\ status' = s
    /\ official' = [official EXCEPT ![o] = NoOfficial]
    /\ UNCHANGED <<members, candidates, votes, poll, crowded>>

StartWrite(o) ==
    /\ official[o].at = "start"
    /\ Write(o, "ACTIVE")

EndWrite(o) ==
    /\ official[o].at = "end"
    /\ Write(o, "COMPLETED")

\* An update may set any status.
UpdateWrite(o) ==
    /\ official[o].at = "update"
    /\ \E s \in Statuses : Write(o, s)

----------------------------------------------------------------------------
(* nominateCandidate *)

\* Mutant: the number of candidates is not looked at.
NominateUncounted(o, c) ==
    /\ official[o].at = "idle"
    /\ status \in {"DRAFT", "NOMINATION"}
    /\ c.user \in members
    /\ c \notin candidates
    /\ official' = [official EXCEPT ![o] = [at |-> "nominate", candidate |-> c]]
    /\ crowded' = IF Nominating(c.position) THEN crowded \cup {c.position} ELSE crowded
    /\ UNCHANGED <<status, members, candidates, votes, poll>>

\* Status, earlier nomination, number of candidates and membership are checked.
NominateRead(o, c) ==
    /\ official[o].at = "idle"
    /\ status \in {"DRAFT", "NOMINATION"}
    /\ c.user \in members
    /\ c \notin candidates
    /\ Cardinality(For(c.position)) < MaxCandidates
    /\ official' = [official EXCEPT ![o] = [at |-> "nominate", candidate |-> c]]
    /\ crowded' = IF Nominating(c.position) THEN crowded \cup {c.position} ELSE crowded
    /\ UNCHANGED <<status, members, candidates, votes, poll>>

\* The row is inserted; a second one of the same user for the same position
\* breaks the unique index and changes nothing.
NominateInsert(o) ==
    /\ official[o].at = "nominate"
    /\ candidates' = candidates \cup {official[o].candidate}
    /\ official' = [official EXCEPT ![o] = NoOfficial]
    /\ UNCHANGED <<status, members, votes, poll, crowded>>

----------------------------------------------------------------------------
(* castVote *)

\* Mutant: the transaction does not see the votes it has inserted.
AnyBallot(ballot) == ballot # {}

\* A ballot with two candidates for a position is refused by its transaction.
ValidBallot(ballot) ==
    /\ ballot # {}
    /\ \A c, d \in ballot : c.position = d.position => c = d

\* The election is read with its candidates; whether its endDate has passed,
\* which refuses the ballot, is left open.  Approval is not looked at.
BallotRead(b, v, ballot) ==
    /\ poll[b].at = "idle"
    /\ status = "ACTIVE"
    /\ ballot \subseteq candidates /\ ValidBallot(ballot)
    /\ poll' = [poll EXCEPT ![b] = [at |-> "check", voter |-> v, ballot |-> ballot]]
    /\ crowded' = IF Voting(v) THEN crowded \cup {v} ELSE crowded
    /\ UNCHANGED <<status, members, candidates, votes, official>>

\* Mutant: earlier votes are not looked for.
MayVoteAgain(v) == v \in members

\* The voter is a member and has no vote in this election.
MayVote(v) == v \in members /\ VotesOf(v) = {}

BallotCheck(b) ==
    /\ poll[b].at = "check"
    /\ poll' = [poll EXCEPT ![b] =
           IF MayVote(poll[b].voter) THEN [@ EXCEPT !.at = "position"] ELSE NoPoll]
    /\ UNCHANGED <<status, members, candidates, votes, official, crowded>>

\* In the transaction: no vote of the voter for a position of the ballot.
PositionsFree(v, ballot) ==
    \A x \in VotesOf(v), c \in ballot : x.candidate.position # c.position

BallotPositions(b) ==
    /\ poll[b].at = "position"
    /\ poll' = [poll EXCEPT ![b] =
           IF PositionsFree(poll[b].voter, poll[b].ballot)
             THEN [@ EXCEPT !.at = "insert"] ELSE NoPoll]
    /\ UNCHANGED <<status, members, candidates, votes, official, crowded>>

NewVotes(v, ballot) == {[voter |-> v, candidate |-> c] : c \in ballot}

\* The votes are inserted, all of them or, if the voter has voted for one of
\* the candidates meanwhile (unique index), none.
BallotInsert(b) ==
    LET new == NewVotes(poll[b].voter, poll[b].ballot)
    IN  /\ poll[b].at = "insert"
        /\ votes' = IF new \cap votes = {} THEN votes \cup new ELSE votes
        /\ poll' = [poll EXCEPT ![b] = NoPoll]
        /\ UNCHANGED <<status, members, candidates, official, crowded>>

----------------------------------------------------------------------------
(* Members, failures *)

\* Members are added and leave (organizations.service).
Join(u) ==
    /\ u \notin members
    /\ members' = members \cup {u}
    /\ UNCHANGED <<status, candidates, votes, official, poll, crowded>>

Leave(u) ==
    /\ u \in members
    /\ members' = members \ {u}
    /\ UNCHANGED <<status, candidates, votes, official, poll, crowded>>

\* A handler fails or its process stops; an open transaction is rolled back.
OfficialStops(o) ==
    /\ official[o].at # "idle"
    /\ official' = [official EXCEPT ![o] = NoOfficial]
    /\ UNCHANGED <<status, members, candidates, votes, poll, crowded>>

PollStops(b) ==
    /\ poll[b].at # "idle"
    /\ poll' = [poll EXCEPT ![b] = NoPoll]
    /\ UNCHANGED <<status, members, candidates, votes, official, crowded>>

----------------------------------------------------------------------------
\* createElection, usually as a draft.
Init ==
    /\ status = "DRAFT"
    /\ members = Users
    /\ candidates = {}
    /\ votes = {}
    /\ official = [o \in Officials |-> NoOfficial]
    /\ poll = [b \in Polls |-> NoPoll]
    /\ crowded = {}

OfficialStep(o) ==
    \/ StartRead(o) \/ StartWrite(o) \/ EndRead(o) \/ EndWrite(o)
    \/ UpdateRead(o) \/ UpdateWrite(o)
    \/ \E c \in Candidacies : NominateRead(o, c)
    \/ NominateInsert(o) \/ OfficialStops(o)

PollStep(b) ==
    \/ \E v \in Voters, ballot \in SUBSET candidates : BallotRead(b, v, ballot)
    \/ BallotCheck(b) \/ BallotPositions(b) \/ BallotInsert(b) \/ PollStops(b)

Next ==
    \/ \E o \in Officials : OfficialStep(o)
    \/ \E b \in Polls : PollStep(b)
    \/ \E u \in Movers : Join(u) \/ Leave(u)

Spec == Init /\ [][Next]_vars

----------------------------------------------------------------------------
(* Properties *)

TypeOK ==
    /\ status \in Statuses
    /\ members \subseteq Users
    /\ candidates \subseteq Candidacies
    /\ votes \subseteq Vote
    /\ official \in [Officials ->
           [at : {"idle", "start", "end", "update", "nominate"},
            candidate : Candidacies \cup {None}]]
    /\ poll \in [Polls -> [at : {"idle", "check", "position", "insert"},
                           voter : Voters \cup {None}, ballot : SUBSET Candidacies]]
    /\ crowded \subseteq Voters \cup Positions

\* A voter whose ballots never overlap has one vote for a position at most,
\* and every vote is for a candidate (castVote).
OneVotePerPosition ==
    /\ \A x \in votes : x.candidate \in candidates
    /\ \A x, y \in votes :
          x.voter = y.voter /\ x.candidate.position = y.candidate.position
            => x = y \/ x.voter \in crowded

\* A voter whose ballots never overlap casts one ballot: no votes are added to
\* those there are, not even for other positions (castVote).
OneBallot ==
    [][\A v \in Voters \ crowded' :
          VotesOf(v) # {} => VotesOf(v)' = VotesOf(v)]_vars

\* A position whose nominations never overlap has MaxCandidates candidates at
\* most (nominateCandidate counts them before it inserts one).
CandidatesLimited ==
    \A p \in Positions \ crowded : Cardinality(For(p)) <= MaxCandidates

\* Once an election is completed and whatever had read it before is through,
\* it stays completed and its candidates and votes stay the same.
Settled ==
    /\ status = "COMPLETED"
    /\ \A o \in Officials : official[o].at \in {"idle", "end"}
    /\ \A b \in Polls : poll[b].at = "idle"
ResultsAreFinal ==
    [][Settled => Settled' /\ UNCHANGED <<candidates, votes>>]_vars

\* Counterexample: a completed election is not opened again.
CompletedIsFinal ==
    [][status = "COMPLETED" => status' = "COMPLETED"]_vars

\* Counterexample: no vote is added to a completed election.
NoVoteAfterEnd ==
    [][status = "COMPLETED" => votes' = votes]_vars

\* Counterexample: a voter has one vote for a position (castVote: "You have
\* already voted for position").
OneVoteAlways ==
    \A x, y \in votes :
        x.voter = y.voter /\ x.candidate.position = y.candidate.position => x = y
=============================================================================
