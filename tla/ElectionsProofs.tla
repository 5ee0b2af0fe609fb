--------------------------- MODULE ElectionsProofs ---------------------------
(***************************************************************************)
(* Proofs about Elections, for any voters, candidacies and handlers: the   *)
(* types, one vote per position and one ballot for a voter whose ballots   *)
(* do not overlap, and the results of a completed election.                *)
(***************************************************************************)
EXTENDS Elections, TLAPS

\* A handler that nominates holds a candidacy; one that casts a ballot holds a
\* voter, and a valid ballot of candidates.
Holding ==
    /\ \A o \in Officials :
          official[o].at = "nominate" => official[o].candidate \in Candidacies
    /\ \A b \in Polls :
          poll[b].at # "idle" =>
             /\ poll[b].voter \in Voters
             /\ poll[b].ballot \subseteq candidates
             /\ ValidBallot(poll[b].ballot)

\* Two ballots of one voter that are in progress at once have been noticed.
Noticed ==
    \A b, d \in Polls :
        b # d /\ poll[b].at # "idle" /\ poll[d].at # "idle"
              /\ poll[b].voter = poll[d].voter
            => poll[b].voter \in crowded

\* A ballot that is past the first check finds no vote of its voter, unless
\* the voter has two ballots.
Fresh ==
    \A b \in Polls :
        poll[b].at \in {"position", "insert"} =>
            poll[b].voter \in crowded \/ VotesOf(poll[b].voter) = {}

IInv == TypeOK /\ Holding /\ Noticed /\ Fresh /\ OneVotePerPosition

\* Initially there is nothing.
LEMMA Start == Init => IInv
BY DEF Init, IInv, TypeOK, Holding, Noticed, Fresh, OneVotePerPosition, NoOfficial,
       NoPoll, Users, Statuses, Vote

----------------------------------------------------------------------------
(* Frames: what the steps of an officer and of a ballot leave alone *)

\* An officer, a nomination: neither votes nor ballots change, and candidates
\* and crowded only grow.
LEMMA OfficialFrame ==
    ASSUME TypeOK, Holding, NEW o \in Officials, OfficialStep(o)
    PROVE  /\ UNCHANGED <<members, votes, poll>>
           /\ candidates \subseteq candidates' /\ crowded \subseteq crowded'
           /\ candidates' \subseteq Candidacies /\ crowded' \subseteq Voters \cup Positions
BY DEF OfficialStep, StartRead, EndRead, UpdateRead, Take, StartWrite, EndWrite,
       UpdateWrite, Write, NominateRead, NominateInsert, OfficialStops, TypeOK, Holding,
       Positions

\* The handlers of officers keep their type, and what they hold.
LEMMA OfficialTypes ==
    ASSUME TypeOK, Holding, NEW o \in Officials, OfficialStep(o)
    PROVE  /\ status' \in Statuses
           /\ official' \in [Officials ->
                 [at : {"idle", "start", "end", "update", "nominate"},
                  candidate : Candidacies \cup {None}]]
           /\ \A u \in Officials :
                 official'[u].at = "nominate" => official'[u].candidate \in Candidacies
<1> USE DEF TypeOK, Holding, NoOfficial
<1>1. CASE StartRead(o) \/ EndRead(o) \/ UpdateRead(o)
      BY <1>1 DEF StartRead, EndRead, UpdateRead, Take
<1>2. CASE StartWrite(o) \/ EndWrite(o) \/ UpdateWrite(o)
      BY <1>2 DEF StartWrite, EndWrite, UpdateWrite, Write, Statuses
<1>3. CASE \E c \in Candidacies : NominateRead(o, c)
      BY <1>3 DEF NominateRead
<1>4. CASE NominateInsert(o) \/ OfficialStops(o)
      BY <1>4 DEF NominateInsert, OfficialStops
<1>5. QED
      BY <1>1, <1>2, <1>3, <1>4 DEF OfficialStep

----------------------------------------------------------------------------
(* What a ballot does to the handlers *)

\* One ballot moves, to where its step takes it.
LEMMA PollMoves ==
    ASSUME TypeOK, Holding, NEW b \in Polls, PollStep(b)
    PROVE  /\ UNCHANGED <<status, members, candidates, official>>
           /\ crowded \subseteq crowded'
           /\ crowded' \subseteq Voters \cup Positions
           /\ poll' \in [Polls -> [at : {"idle", "check", "position", "insert"},
                                   voter : Voters \cup {None}, ballot : SUBSET Candidacies]]
           /\ \A d \in Polls : d # b => poll'[d] = poll[d]
           /\ \/ poll'[b] = NoPoll
              \/ /\ poll[b].at # "idle"
                 /\ poll'[b].voter = poll[b].voter /\ poll'[b].ballot = poll[b].ballot
              \/ /\ poll[b].at = "idle" /\ poll'[b].at = "check"
                 /\ poll'[b].voter \in Voters
                 /\ poll'[b].ballot \subseteq candidates
                 /\ ValidBallot(poll'[b].ballot)
                 /\ Voting(poll'[b].voter) => poll'[b].voter \in crowded'
<1> USE DEF TypeOK, Holding, NoPoll
<1>1. CASE \E v \in Voters, ballot \in SUBSET candidates : BallotRead(b, v, ballot)
  <2>1. PICK v \in Voters, ballot \in SUBSET candidates : BallotRead(b, v, ballot)
        BY <1>1
  <2>2. poll'[b] = [at |-> "check", voter |-> v, ballot |-> ballot]
        BY <2>1 DEF BallotRead
  <2>3. QED
        BY <2>1, <2>2 DEF BallotRead
<1>2. CASE BallotCheck(b)
      BY <1>2 DEF BallotCheck
<1>3. CASE BallotPositions(b)
      BY <1>3 DEF BallotPositions
<1>4. CASE BallotInsert(b)
      BY <1>4 DEF BallotInsert
<1>5. CASE PollStops(b)
      BY <1>5 DEF PollStops
<1>6. QED
      BY <1>1, <1>2, <1>3, <1>4, <1>5 DEF PollStep

\* Only the insertion of a ballot adds votes: those of its candidates.
LEMMA PollVotes ==
    ASSUME TypeOK, NEW b \in Polls, PollStep(b)
    PROVE  \/ votes' = votes
           \/ /\ poll[b].at = "insert" /\ poll'[b] = NoPoll
              /\ votes' = votes \cup NewVotes(poll[b].voter, poll[b].ballot)
              /\ crowded' = crowded
BY DEF PollStep, BallotRead, BallotCheck, BallotPositions, BallotInsert, PollStops, TypeOK

\* A ballot is past the first check after it has found no vote.
LEMMA PollChecked ==
    ASSUME TypeOK, NEW b \in Polls, PollStep(b), poll'[b].at \in {"position", "insert"}
    PROVE  /\ votes' = votes /\ crowded' = crowded
           /\ poll'[b].voter = poll[b].voter
           /\ \/ poll[b].at = "position"
              \/ VotesOf(poll[b].voter) = {}
<1> USE DEF TypeOK, NoPoll
<1>1. CASE \E v \in Voters, ballot \in SUBSET candidates : BallotRead(b, v, ballot)
      BY <1>1 DEF BallotRead
<1>2. CASE BallotCheck(b)
      BY <1>2 DEF BallotCheck, MayVote
<1>3. CASE BallotPositions(b)
      BY <1>3 DEF BallotPositions
<1>4. CASE BallotInsert(b) \/ PollStops(b)
      BY <1>4 DEF BallotInsert, PollStops
<1>5. QED
      BY <1>1, <1>2, <1>3, <1>4 DEF PollStep

----------------------------------------------------------------------------
(* The invariant *)

\* Members come and go without touching the rest.
LEMMA MemberFrame ==
    ASSUME TypeOK, NEW u \in Movers, Join(u) \/ Leave(u)
    PROVE  /\ UNCHANGED <<status, candidates, votes, official, poll, crowded>>
           /\ members' \subseteq Users
BY DEF Join, Leave, TypeOK, Users

\* What a step of an officer or a nomination leaves of the invariant.
LEMMA OfficialKeeps ==
    ASSUME IInv, NEW o \in Officials, OfficialStep(o)
    PROVE  IInv'
<1> USE DEF IInv
<1>1. /\ UNCHANGED <<members, votes, poll>>
      /\ candidates \subseteq candidates' /\ crowded \subseteq crowded'
      /\ candidates' \subseteq Candidacies /\ crowded' \subseteq Voters \cup Positions
      BY OfficialFrame
<1>2. TypeOK'
      BY <1>1, OfficialTypes DEF TypeOK
<1>3. Holding'
      BY <1>1, OfficialTypes DEF Holding
<1>4. Noticed' /\ Fresh'
      BY <1>1 DEF Noticed, Fresh, VotesOf
<1>5. OneVotePerPosition'
      BY <1>1 DEF OneVotePerPosition
<1>6. QED
      BY <1>2, <1>3, <1>4, <1>5

\* A ballot keeps the types and what the handlers hold.
LEMMA PollTypes ==
    ASSUME IInv, NEW b \in Polls, PollStep(b)
    PROVE  TypeOK' /\ Holding'
<1> USE DEF IInv
<1>1. poll[b].at # "idle" => NewVotes(poll[b].voter, poll[b].ballot) \subseteq Vote
      BY DEF Holding, NewVotes, Vote, TypeOK
<1>2. votes' \subseteq Vote
      BY <1>1, PollVotes DEF TypeOK
<1>3. TypeOK'
      BY <1>2, PollMoves DEF TypeOK
<1>4. ASSUME NEW d \in Polls, poll'[d].at # "idle"
      PROVE  /\ poll'[d].voter \in Voters
             /\ poll'[d].ballot \subseteq candidates
             /\ ValidBallot(poll'[d].ballot)
  <2>1. CASE d = b
        BY <2>1, <1>4, PollMoves DEF Holding, NoPoll
  <2>2. CASE d # b
        BY <2>2, <1>4, PollMoves DEF Holding
  <2>3. QED
        BY <2>1, <2>2
<1>5. UNCHANGED <<official, candidates>>
      BY PollMoves
<1>6. Holding'
      BY <1>4, <1>5 DEF Holding
<1>7. QED
      BY <1>3, <1>6

\* Two ballots of one voter are noticed when the second one starts.
LEMMA PollNoticed ==
    ASSUME IInv, NEW b \in Polls, PollStep(b)
    PROVE  Noticed'
<1> USE DEF IInv
<1>1. SUFFICES ASSUME NEW c \in Polls, NEW d \in Polls, c # d, d # b,
                      poll'[c].at # "idle", poll'[d].at # "idle",
                      poll'[c].voter = poll'[d].voter
               PROVE  poll'[c].voter \in crowded'
      BY DEF Noticed
<1>2. poll'[d] = poll[d]
      BY <1>1, PollMoves
<1>3. CASE c # b
      BY <1>1, <1>2, <1>3, PollMoves DEF Noticed
<1>4. CASE c = b /\ poll[b].at # "idle"
      BY <1>1, <1>2, <1>4, PollMoves DEF Noticed, NoPoll
<1>5. CASE c = b /\ poll[b].at = "idle"
      BY <1>1, <1>2, <1>5, PollMoves DEF Voting, NoPoll
<1>6. QED
      BY <1>3, <1>4, <1>5

\* Votes that are new belong to the voter whose ballot has been inserted.
LEMMA PollOthers ==
    ASSUME IInv, NEW b \in Polls, PollStep(b), NEW v,
           VotesOf(v)' # VotesOf(v)
    PROVE  /\ poll[b].at = "insert" /\ v = poll[b].voter
           /\ votes' = votes \cup NewVotes(v, poll[b].ballot)
           /\ crowded' = crowded
BY PollVotes DEF IInv, VotesOf, NewVotes

\* A ballot past the first check finds no vote, unless its voter has two.
LEMMA PollFresh ==
    ASSUME IInv, NEW b \in Polls, PollStep(b)
    PROVE  Fresh'
<1> USE DEF IInv
<1>1. SUFFICES ASSUME NEW d \in Polls, poll'[d].at \in {"position", "insert"},
                      poll'[d].voter \notin crowded'
               PROVE  \A x \in votes' : x.voter # poll'[d].voter
      BY DEF Fresh, VotesOf
<1>2. CASE d = b
  <2>1. /\ votes' = votes /\ crowded' = crowded /\ poll'[b].voter = poll[b].voter
        /\ poll[b].at = "position" \/ VotesOf(poll[b].voter) = {}
        BY <1>1, <1>2, PollChecked
  <2>2. VotesOf(poll[b].voter) = {}
        BY <1>1, <1>2, <2>1 DEF Fresh
  <2>3. QED
        BY <1>2, <2>1, <2>2 DEF VotesOf
<1>3. CASE d # b
  <2>1. poll'[d] = poll[d] /\ crowded \subseteq crowded'
        BY <1>3, PollMoves
  <2>2. VotesOf(poll[d].voter) = {}
        BY <1>1, <2>1 DEF Fresh
  <2>3. ASSUME NEW x \in votes', x.voter = poll[d].voter
        PROVE  FALSE
    <3>1. x \notin votes
          BY <2>2, <2>3 DEF VotesOf
    <3>2. poll[b].at = "insert" /\ poll[d].voter = poll[b].voter
          BY <2>3, <3>1, PollVotes DEF NewVotes
    <3>3. poll[d].voter \in crowded
          BY <1>1, <1>3, <2>1, <3>2 DEF Noticed
    <3>4. QED
          BY <1>1, <2>1, <3>3
  <2>4. poll'[d].voter = poll[d].voter
        BY <2>1
  <2>5. QED
        BY <2>3, <2>4
<1>4. QED
      BY <1>2, <1>3

\* A ballot of a voter without votes gives one vote for a position.
LEMMA PollOneVote ==
    ASSUME IInv, NEW b \in Polls, PollStep(b)
    PROVE  OneVotePerPosition'
<1> USE DEF IInv
<1>1. CASE votes' = votes
      BY <1>1, PollMoves DEF OneVotePerPosition
<1>2. CASE votes' # votes
  <2> DEFINE v == poll[b].voter
  <2>1. /\ poll[b].at = "insert" /\ votes' = votes \cup NewVotes(v, poll[b].ballot)
        /\ crowded' = crowded
        BY <1>2, PollVotes
  <2>2. poll[b].ballot \subseteq candidates /\ ValidBallot(poll[b].ballot)
        BY <2>1 DEF Holding
  <2>3. v \in crowded \/ VotesOf(v) = {}
        BY <2>1 DEF Fresh
  <2>4. candidates' = candidates
        BY PollMoves
  <2>5. \A x \in votes' : x.candidate \in candidates'
        BY <2>1, <2>2, <2>4 DEF OneVotePerPosition, NewVotes
  <2>6. ASSUME NEW x \in votes', NEW y \in votes', x.voter = y.voter,
               x.candidate.position = y.candidate.position, x.voter \notin crowded'
        PROVE  x = y
    <3>1. CASE x.voter # v
          BY <3>1, <2>1, <2>6 DEF OneVotePerPosition, NewVotes
    <3>2. CASE x.voter = v
      <4>1. x \in NewVotes(v, poll[b].ballot) /\ y \in NewVotes(v, poll[b].ballot)
            BY <3>2, <2>1, <2>3, <2>6 DEF VotesOf
      <4>2. QED
            BY <4>1, <2>2, <2>6 DEF NewVotes, ValidBallot
    <3>3. QED
          BY <3>1, <3>2
  <2>7. QED
        BY <2>5, <2>6 DEF OneVotePerPosition
<1>3. QED
      BY <1>1, <1>2

\* The invariant holds, whatever the handlers do.
LEMMA Invariant == Spec => []IInv
<1>1. IInv /\ [Next]_vars => IInv'
  <2>1. SUFFICES ASSUME IInv, [Next]_vars PROVE IInv'
        OBVIOUS
  <2>2. CASE \E o \in Officials : OfficialStep(o)
        BY <2>1, <2>2, OfficialKeeps
  <2>3. CASE \E b \in Polls : PollStep(b)
        BY <2>1, <2>3, PollTypes, PollNoticed, PollFresh, PollOneVote DEF IInv
  <2>4. CASE \E u \in Movers : Join(u) \/ Leave(u)
        BY <2>1, <2>4, MemberFrame
        DEF IInv, TypeOK, Holding, Noticed, Fresh, OneVotePerPosition, VotesOf
  <2>5. CASE UNCHANGED vars
        BY <2>1, <2>5
        DEF IInv, vars, TypeOK, Holding, Noticed, Fresh, OneVotePerPosition, VotesOf
  <2>6. QED
        BY <2>1, <2>2, <2>3, <2>4, <2>5 DEF Next
<1>2. QED
      BY Start, <1>1, PTL DEF Spec

----------------------------------------------------------------------------
\* Every variable of an election keeps its type: nominations and votes are of
\* candidacies and voters there are (nominateCandidate, castVote).
THEOREM TypeCorrect == Spec => []TypeOK
BY Invariant, PTL DEF IInv

\* castVote: although the checks before the insertion may be out of date, a
\* voter whose ballots do not overlap has one vote for each position.
THEOREM SingleVotes == Spec => []OneVotePerPosition
BY Invariant, PTL DEF IInv

\* castVote: such a voter casts one ballot, and no votes are added to it.
THEOREM SingleBallot == Spec => OneBallot
<1>1. IInv /\ [Next]_vars =>
        [\A v \in Voters \ crowded' : VotesOf(v) # {} => VotesOf(v)' = VotesOf(v)]_vars
  <2>1. SUFFICES ASSUME IInv, [Next]_vars, NEW v \in Voters \ crowded',
                        VotesOf(v) # {}, VotesOf(v)' # VotesOf(v)
                 PROVE  FALSE
        OBVIOUS
  <2>2. CASE \E b \in Polls : PollStep(b)
    <3>1. PICK b \in Polls : PollStep(b)
          BY <2>2
    <3>2. /\ poll[b].at = "insert" /\ v = poll[b].voter /\ crowded' = crowded
          BY <2>1, <3>1, PollOthers
    <3>3. QED
          BY <2>1, <3>2 DEF IInv, Fresh
  <2>3. CASE ~\E b \in Polls : PollStep(b)
    <3>1. votes' = votes
          BY <2>1, <2>3, OfficialFrame, MemberFrame DEF IInv, Next, vars
    <3>2. QED
          BY <2>1, <3>1 DEF VotesOf
  <2>4. QED
        BY <2>2, <2>3
<1>2. QED
      BY Invariant, <1>1, PTL DEF Spec, OneBallot

\* endElection: when an election is completed and what had read it before is
\* through, it stays completed and no candidate or vote is added.
THEOREM FinalResults == Spec => ResultsAreFinal
<1>1. TypeOK /\ [Next]_vars =>
        [Settled => Settled' /\ UNCHANGED <<candidates, votes>>]_vars
  <2>1. SUFFICES ASSUME TypeOK, [Next]_vars, Settled
                 PROVE  Settled' /\ UNCHANGED <<candidates, votes>>
        OBVIOUS
  <2>2. CASE \E o \in Officials : OfficialStep(o)
    <3>1. PICK o \in Officials : OfficialStep(o)
          BY <2>2
    <3>2. CASE EndRead(o) \/ EndWrite(o) \/ OfficialStops(o)
          BY <2>1, <3>2
          DEF EndRead, EndWrite, OfficialStops, Settled, TypeOK, Write, Take, NoOfficial
    <3>3. CASE ~(EndRead(o) \/ EndWrite(o) \/ OfficialStops(o))
          BY <2>1, <3>1, <3>3
          DEF OfficialStep, StartRead, StartWrite, UpdateRead, UpdateWrite, NominateRead,
              NominateInsert, Settled
    <3>4. QED
          BY <3>2, <3>3
  <2>3. CASE \E b \in Polls : PollStep(b)
        BY <2>1, <2>3
        DEF PollStep, BallotRead, BallotCheck, BallotPositions, BallotInsert, PollStops, Settled
  <2>4. CASE \E u \in Movers : Join(u) \/ Leave(u)
        BY <2>1, <2>4, MemberFrame DEF Settled
  <2>5. CASE UNCHANGED vars
        BY <2>1, <2>5 DEF vars, Settled
  <2>6. QED
        BY <2>1, <2>2, <2>3, <2>4, <2>5 DEF Next
<1>2. QED
      BY TypeCorrect, <1>1, PTL DEF Spec, ResultsAreFinal
=============================================================================
