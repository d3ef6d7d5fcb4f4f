-------------------------- MODULE QuorumRound_proofs --------------------------
(***************************************************************************)
(* What resolve_claims returns over the mesh, for any number of peers, any *)
(* contests and whichever vote threads stall: votes it collected were cast *)
(* in that contest by more than half of the peers, and voting never puts   *)
(* another drone first than the auction does.                              *)
(***************************************************************************)
EXTENDS QuorumRound, Auction_proofs

\* The lead does not depend on the fallbacks: a loser never leads a split.
LEMMA LeadFixed ==
  \A S, pick : Lead(S, pick) = LeadOf(S)
BY DEF Lead, LeadOf, SeatOf

\* Where all votes agree with the decision there is no other majority.
LEMMA MajorityOfOne ==
  ASSUME NEW votes, NEW lead, \A v \in votes : v.choice = lead
  PROVE  Majority(votes, lead) = lead
<1> DEFINE choices == {v.choice : v \in votes}
           top == {c \in choices : \A d \in choices : For(d, votes) <= For(c, votes)}
<1>1. \A c \in top : c = lead
  OBVIOUS
<1>2. CASE Cardinality(top) = 1
  <2>1. top # {}
    BY <1>2, FS_EmptySet
  <2>2. (CHOOSE c \in top : TRUE) \in top
    BY <2>1
  <2>3. QED
    BY <1>1, <1>2, <2>2 DEF Majority
<1>3. CASE Cardinality(top) # 1
  BY <1>3 DEF Majority
<1>4. QED
  BY <1>2, <1>3

\* The initiator of a contest is one of the peers.
LEMMA InitiatorIsPeer ==
  ASSUME NEW S \in Contests
  PROVE  Initiator(S) \in Peer
<1>1. S # {} /\ S \in SUBSET Claim
  BY QuorumRoundAssumption
<1>2. Claimants(S) \in SUBSET Peer /\ Claimants(S) # {}
  BY <1>1 DEF Claimants, Claim, Peer
<1>3. Claimants(S) \in SUBSET Nat
  BY <1>2, AuctionAssumption DEF Peer
<1>4. \E d \in Claimants(S) : \A e \in Claimants(S) : d <= e
  BY <1>2, <1>3, LeastNat
<1>5. QED
  BY <1>2, <1>4 DEF Initiator

\* A set of votes that differ in their voters has as many voters as votes, and
\* a quorum of them is more than half of the peers.
LEMMA QuorumOfVoters ==
  ASSUME NEW votes,
         \A v \in votes : v.voter \in Peer,
         \A v, w \in votes : v.voter = w.voter => v = w,
         Cardinality(votes) >= Quorum
  PROVE  2 * Cardinality({v.voter : v \in votes}) > Cardinality(Peer)
<1> DEFINE voters == {v.voter : v \in votes}
           f == [v \in votes |-> v.voter]
<1>1. IsFiniteSet(Peer) /\ Cardinality(Peer) \in Nat
  BY QuorumRoundAssumption, FS_CardinalityType
<1>2. IsFiniteSet(voters) /\ Cardinality(voters) \in Nat
  <2>1. voters \in SUBSET Peer
    OBVIOUS
  <2>2. QED
    BY <1>1, <2>1, FS_Subset, FS_CardinalityType
<1>3. f \in Injection(votes, voters)
  BY DEF Injection, IsInjective
<1>4. IsFiniteSet(votes) /\ Cardinality(votes) <= Cardinality(voters)
  BY <1>2, <1>3, FS_Injection
<1>5. Cardinality(votes) \in Nat
  BY <1>4, FS_CardinalityType
<1>6. Cardinality(voters) >= Cardinality(Peer) \div 2 + 1
  BY <1>1, <1>2, <1>4, <1>5 DEF Quorum
<1> HIDE DEF voters
<1>7. 2 * Cardinality(voters) > Cardinality(Peer)
  BY <1>1, <1>2, <1>6
<1>8. QED
  BY <1>7 DEF voters

-----------------------------------------------------------------------------
Busy == stage \in {"joining", "collecting"}

\* Votes are records of a voter and a contest begun; the votes of one contest
\* agree, and those of the present one name its lead.
CastInv ==
  /\ \A v \in cast : /\ v = [type |-> "vote", id |-> v.id, voter |-> v.voter,
                             choice |-> v.choice]
                     /\ v.voter \in Peer
                     /\ v.id \in Nat
                     /\ v.id <= round
  /\ \A v, w \in cast : v.id = w.id => v.choice = w.choice
  /\ Busy => \A v \in cast : v.id = round => v.choice = LeadOf(claims)

\* Wherever a vote is, a thread cast it.
PathInv ==
  /\ inbox \in [Peer -> SUBSET (cast \cup Announcement)]
  /\ ballots \subseteq {v \in cast : v.id = round}
  /\ Busy => received \subseteq {v \in cast : v.id = round}

\* The program counter, and what holds where it stands.
StageInv ==
  /\ round \in Nat
  /\ stage \in {"idle", "joining", "collecting", "raised"}
  /\ ~Busy => ballots = {}
  /\ Busy => initiator \in Peer

RoundInv == CastInv /\ PathInv /\ StageInv /\ RealQuorum /\ LeadStands

-----------------------------------------------------------------------------
LEMMA InitRound == Init => RoundInv
BY DEF Init, RoundInv, CastInv, PathInv, StageInv, RealQuorum, LeadStands, Busy

\* A single claim adds an outcome with the auction's own lead, not "voted".
LEMMA SingleStep == RoundInv /\ ResolveSingle => RoundInv'
<1> SUFFICES ASSUME RoundInv, ResolveSingle PROVE RoundInv'
  OBVIOUS
<1> USE DEF RoundInv
<1>1. ~Busy /\ ~Busy'
  BY DEF ResolveSingle, Busy
<1>2. round \in Nat /\ round' = round + 1
  BY DEF ResolveSingle, NextRound, StageInv
<1>3. CastInv'
  BY <1>1, <1>2 DEF ResolveSingle, CastInv
<1>4. ballots = {}
  BY <1>1 DEF StageInv
<1>5. PathInv'
  BY <1>1, <1>4 DEF ResolveSingle, PathInv
<1>6. StageInv'
  BY <1>1, <1>2, <1>4 DEF ResolveSingle, StageInv
<1>7. PICK S \in Contests : outcomes' = outcomes \cup
        {[id |-> NextRound, claims |-> S, initiator |-> Initiator(S),
          kind |-> "direct", votes |-> Fabricated(NextRound, S), lead |-> LeadOf(S)]}
  BY DEF ResolveSingle
<1>8. UNCHANGED cast
  BY DEF ResolveSingle
<1>9. RealQuorum'
  BY <1>7, <1>8 DEF RealQuorum
<1>10. LeadStands'
  BY <1>7 DEF LeadStands
<1>11. QED
  BY <1>3, <1>5, <1>6, <1>9, <1>10

\* A new contest has no vote yet: its number is above every vote's.
LEMMA AnnounceStep == RoundInv /\ Announce => RoundInv'
<1> SUFFICES ASSUME RoundInv, Announce PROVE RoundInv'
  OBVIOUS
<1> USE DEF RoundInv
<1>1. round \in Nat /\ round' = round + 1 /\ Busy' /\ stage' = "joining"
  BY DEF Announce, NextRound, StageInv, Busy
<1>2. CastInv'
  BY <1>1 DEF Announce, CastInv
<1>3. PathInv'
  <2>1. round' \in RoundNo
    BY <1>1, QuorumRoundAssumption DEF Announce, NextRound, RoundNo
  <2>2. [type |-> "contest", id |-> NextRound] \in Announcement
    BY <2>1 DEF Announcement, Announce
  <2>3. inbox' \in [Peer -> SUBSET (cast' \cup Announcement)]
    BY <2>2 DEF Announce, PathInv
  <2>4. QED
    BY <2>3 DEF Announce, PathInv
<1>4. StageInv'
  <2>1. initiator' \in Peer
    BY InitiatorIsPeer DEF Announce
  <2>2. QED
    BY <1>1, <2>1 DEF Announce, StageInv
<1>5. RealQuorum' /\ LeadStands'
  BY DEF Announce, RealQuorum, LeadStands
<1>6. QED
  BY <1>2, <1>3, <1>4, <1>5

\* A poll only takes messages away.
LEMMA PollStep ==
  ASSUME NEW k \in RoundNo, NEW p \in Peer, RoundInv, ThreadPoll(k, p)
  PROVE  RoundInv'
<1> USE DEF RoundInv
<1>1. inbox' \in [Peer -> SUBSET (cast' \cup Announcement)]
  BY DEF ThreadPoll, PathInv
<1>2. UNCHANGED <<round, stage, claims, initiator, ballots, received, seen, cast, outcomes>>
  BY DEF ThreadPoll
<1>3. QED
  BY <1>1, <1>2
     DEF CastInv, PathInv, StageInv, RealQuorum, LeadStands, Busy

\* A vote in time names the lead of the contest, whatever fallbacks its voter's
\* map suggests.
LEMMA VoteStep ==
  ASSUME NEW k \in RoundNo, NEW p \in Peer, RoundInv, ThreadVote(k, p)
  PROVE  RoundInv'
<1> USE DEF RoundInv
<1>0. UNCHANGED <<round, stage, claims, initiator, inbox, received, seen, outcomes>>
  BY DEF ThreadVote
<1>1. CASE UNCHANGED <<ballots, cast>>
  BY <1>0, <1>1
     DEF CastInv, PathInv, StageInv, RealQuorum, LeadStands, Busy
<1>2. CASE ~UNCHANGED <<ballots, cast>>
  <2>1. k = round /\ stage = "joining"
    BY <1>2 DEF ThreadVote
  <2>2. PICK pick : /\ ballots' = ballots \cup
                         {[type |-> "vote", id |-> k, voter |-> p,
                           choice |-> Ballot(claims, pick)]}
                    /\ cast' = cast \cup
                         {[type |-> "vote", id |-> k, voter |-> p,
                           choice |-> Ballot(claims, pick)]}
    BY <2>1 DEF ThreadVote
  <2> DEFINE new == [type |-> "vote", id |-> round, voter |-> p,
                     choice |-> LeadOf(claims)]
  <2>3. Ballot(claims, pick) = LeadOf(claims)
    BY LeadFixed DEF Ballot
  <2>4. ballots' = ballots \cup {new} /\ cast' = cast \cup {new}
    BY <2>1, <2>2, <2>3
  <2>5. /\ Busy /\ Busy'
        /\ round \in Nat
        /\ new.id = round /\ new.voter = p /\ new.choice = LeadOf(claims)
    BY <1>0, <2>1 DEF Busy, StageInv
  <2>6. CastInv'
    BY <1>0, <2>4, <2>5 DEF CastInv
  <2>7. PathInv'
    <3>1. inbox' \in [Peer -> SUBSET (cast' \cup Announcement)]
      BY <1>0, <2>4 DEF PathInv
    <3> HIDE DEF new
    <3>2. QED
      BY <1>0, <2>4, <2>5, <3>1 DEF PathInv
  <2>8. StageInv'
    BY <1>0, <2>5 DEF StageInv, Busy
  <2>9. RealQuorum' /\ LeadStands'
    BY <1>0, <2>4 DEF RealQuorum, LeadStands
  <2>10. QED
    BY <2>6, <2>7, <2>8, <2>9
<1>3. QED
  BY <1>1, <1>2

\* The join and the publication move votes along their path.
LEMMA JoinStep == RoundInv /\ (Join \/ PublishVote) => RoundInv'
<1> SUFFICES ASSUME RoundInv, Join \/ PublishVote PROVE RoundInv'
  OBVIOUS
<1> USE DEF RoundInv
<1>1. CASE Join
  BY <1>1 DEF Join, CastInv, PathInv, StageInv, RealQuorum, LeadStands, Busy
<1>2. CASE PublishVote
  <2>1. PICK v \in ballots : /\ ballots' = ballots \ {v}
                             /\ inbox' = [p \in Peer |-> inbox[p] \cup {v}]
    BY <1>2 DEF PublishVote
  <2>2. UNCHANGED <<round, stage, claims, initiator, received, cast, outcomes>> /\ Busy
    BY <1>2 DEF PublishVote, Busy
  <2>3. inbox' \in [Peer -> SUBSET (cast' \cup Announcement)]
    BY <2>1, <2>2 DEF PathInv
  <2>4. ballots' \subseteq ballots
    BY <2>1
  <2>5. QED
    BY <2>2, <2>3, <2>4
       DEF CastInv, PathInv, StageInv, RealQuorum, LeadStands, Busy
<1>3. QED
  BY <1>1, <1>2

\* What the initiator collects are votes of this contest.
LEMMA CollectStep == RoundInv /\ Collect => RoundInv'
<1> SUFFICES ASSUME RoundInv, Collect PROVE RoundInv'
  OBVIOUS
<1> USE DEF RoundInv
<1>1. /\ UNCHANGED <<round, stage, claims, initiator, ballots, cast, outcomes>>
      /\ Busy /\ initiator \in Peer
  BY DEF Collect, Collecting, Busy, StageInv
<1>2. Waiting \subseteq {v \in cast : v.id = round}
  <2>1. \A m \in Announcement : m.type = "contest"
    BY DEF Announcement
  <2>2. inbox[initiator] \subseteq cast \cup Announcement
    BY <1>1 DEF PathInv
  <2>3. QED
    BY <2>1, <2>2 DEF Waiting
<1>3. received' \subseteq {v \in cast : v.id = round}
  BY <1>1, <1>2 DEF Collect, PathInv
<1>4. inbox' \in [Peer -> SUBSET (cast' \cup Announcement)]
  BY <1>1 DEF Collect, PathInv
<1>5. QED
  BY <1>1, <1>3, <1>4
     DEF CastInv, PathInv, StageInv, RealQuorum, LeadStands, Busy

\* Every return keeps the votes where they are; what is left to show is that
\* the new outcome is sound.
LEMMA ReturnStep ==
  ASSUME NEW kind, NEW votes, NEW lead,
         RoundInv, Collecting, Return(kind, votes, lead),
         lead = LeadOf(claims),
         kind = "voted" => /\ 2 * Cardinality({v.voter : v \in votes}) > Cardinality(Peer)
                           /\ votes \subseteq {v \in cast : v.id = round}
  PROVE  RoundInv'
<1> USE DEF RoundInv
<1>1. /\ UNCHANGED <<round, claims, initiator, thread, ballots, inbox, received, seen, cast>>
      /\ stage' \in {"idle", "raised"}
      /\ ballots = {}
      /\ ~Busy'
  BY DEF Return, Collecting, Busy
<1>2. CastInv' /\ PathInv' /\ StageInv'
  BY <1>1 DEF CastInv, PathInv, StageInv
<1> DEFINE new == [id |-> round, claims |-> claims, initiator |-> initiator,
                   kind |-> kind, votes |-> votes, lead |-> lead]
           Real(o) == o.kind = "voted" =>
                        /\ 2 * Cardinality({v.voter : v \in o.votes}) > Cardinality(Peer)
                        /\ o.votes \subseteq {v \in cast : v.id = o.id}
<1>3. outcomes' = outcomes \cup {new}
  BY DEF Return
<1>4. RealQuorum'
  <2>1. \A o \in outcomes : Real(o)
    BY DEF RealQuorum
  <2>2. new.id = round /\ new.kind = kind /\ new.votes = votes
    OBVIOUS
  <2>3. Real(new)
    <3> HIDE DEF new
    <3>1. QED
      BY <2>2
  <2>4. \A o \in outcomes' : Real(o)
    BY <1>3, <2>1, <2>3
  <2>5. QED
    BY <1>1, <2>4 DEF RealQuorum
<1>5. LeadStands'
  BY <1>3 DEF LeadStands
<1>6. QED
  BY <1>2, <1>4, <1>5

\* The three ways resolve_claims leaves a contest.
LEMMA LeaveStep == RoundInv /\ (ReturnVoted \/ ReturnFabricated \/ Raise) => RoundInv'
<1> SUFFICES ASSUME RoundInv, ReturnVoted \/ ReturnFabricated \/ Raise PROVE RoundInv'
  OBVIOUS
<1>1. CASE ReturnVoted
  <2>1. Collecting /\ Busy
    BY <1>1 DEF ReturnVoted, Collecting, Busy
  <2>2. /\ received \subseteq {v \in cast : v.id = round}
        /\ \A v \in received : v.choice = LeadOf(claims)
    BY <2>1 DEF RoundInv, PathInv, CastInv
  <2>3. Majority(received, LeadOf(claims)) = LeadOf(claims)
    BY <2>2, MajorityOfOne
  <2>4. Return("voted", received, LeadOf(claims))
    BY <1>1, <2>3 DEF ReturnVoted
  <2>5. 2 * Cardinality({v.voter : v \in received}) > Cardinality(Peer)
    <3>1. \A v \in received : v.voter \in Peer
      BY <2>2 DEF RoundInv, CastInv
    <3>2. \A v, w \in received : v.voter = w.voter => v = w
      BY <2>2 DEF RoundInv, CastInv
    <3>3. Cardinality(received) >= Quorum
      BY <1>1 DEF ReturnVoted
    <3>4. QED
      BY <3>1, <3>2, <3>3, QuorumOfVoters
  <2>6. QED
    BY <2>1, <2>2, <2>4, <2>5, ReturnStep
<1>2. CASE ReturnFabricated
  <2>1. Return("fabricated", Fabricated(round, claims), LeadOf(claims)) /\ Collecting
    BY <1>2 DEF ReturnFabricated
  <2>2. QED
    BY <2>1, ReturnStep
<1>3. CASE Raise
  <2>1. Return("raised", {}, LeadOf(claims)) /\ Collecting
    BY <1>3 DEF Raise
  <2>2. QED
    BY <2>1, ReturnStep
<1>4. QED
  BY <1>1, <1>2, <1>3

LEMMA NextRoundInv == RoundInv /\ [Next]_vars => RoundInv'
<1> SUFFICES ASSUME RoundInv, [Next]_vars PROVE RoundInv'
  OBVIOUS
<1>1. CASE UNCHANGED vars
  BY <1>1 DEF vars, RoundInv, CastInv, PathInv, StageInv, RealQuorum, LeadStands, Busy
<1>2. CASE ResolveSingle
  BY <1>2, SingleStep
<1>3. CASE Announce
  BY <1>3, AnnounceStep
<1>4. CASE Main
  BY <1>4, JoinStep, CollectStep, LeaveStep DEF Main
<1>5. CASE \E p \in Peer : Voter(p)
  BY <1>5, PollStep, VoteStep DEF Voter
<1>6. QED
  BY <1>1, <1>2, <1>3, <1>4, <1>5 DEF Next

LEMMA RoundInvariant == Spec => []RoundInv
BY InitRound, NextRoundInv, PTL DEF Spec

-----------------------------------------------------------------------------
\* The votes a contest is returned with as collected were cast in it, by more
\* than half of the peers, whatever stalled threads and left-over votes do to
\* the inboxes.
THEOREM QuorumsAreReal == Spec => []RealQuorum
<1>1. RoundInv => RealQuorum
  BY DEF RoundInv
<1>2. QED
  BY <1>1, RoundInvariant, PTL

\* No vote moves another drone to the head of the assignments: the branch of
\* resolve_claims that reorders them on a majority is dead.
THEOREM LeadsStand == Spec => []LeadStands
<1>1. RoundInv => LeadStands
  BY DEF RoundInv
<1>2. QED
  BY <1>1, RoundInvariant, PTL
-----------------------------------------------------------------------------
(***************************************************************************)
(* Types.  Votes and outcomes name the lead of a contest, and a contest has *)
(* one: among finitely many claims one comes before all others.            *)
(***************************************************************************)
LEMMA FirstIsClaim ==
  ASSUME NEW S \in Contests
  PROVE  First(S) \in S
<1>1. S # {} /\ S \in SUBSET Claim /\ IsFiniteSet(S)
  BY QuorumRoundAssumption
<1> DEFINE Before(c) == {d \in S : Precedes(d, c)}
           Sizes == {Cardinality(Before(c)) : c \in S}
<1>2. \A c \in S : IsFiniteSet(Before(c)) /\ Cardinality(Before(c)) \in Nat
  BY <1>1, FS_Subset, FS_CardinalityType
<1>3. PICK n \in Sizes : \A k \in Sizes : n <= k
  <2>1. Sizes \in SUBSET Nat
    BY <1>2
  <2>2. Sizes # {}
    BY <1>1
  <2> HIDE DEF Sizes
  <2>3. QED
    BY <2>1, <2>2, LeastNat
<1>4. PICK c \in S : n = Cardinality(Before(c))
  BY <1>3
<1>5. Before(c) = {}
  <2> SUFFICES ASSUME NEW d \in Before(c) PROVE FALSE
    OBVIOUS
  <2>1. Before(d) \subseteq Before(c) /\ d \notin Before(d)
    BY <1>1, PrecedesStrict
  <2>2. d \in S /\ Before(d) # Before(c)
    BY <2>1
  <2> HIDE DEF Before
  <2>3. Cardinality(Before(d)) < Cardinality(Before(c))
    BY <1>2, <2>1, <2>2, FS_Subset
  <2>4. Cardinality(Before(d)) \in Sizes
    BY <2>2
  <2>5. QED
    BY <1>2, <1>3, <1>4, <2>2, <2>3, <2>4
<1>6. Rank(c, S) = 0
  BY <1>5, FS_EmptySet DEF Rank
<1>7. QED
  BY <1>4, <1>6 DEF First

LEMMA LeadType ==
  ASSUME NEW S \in Contests
  PROVE  LeadOf(S) \in Peer \cup {Split}
<1>1. First(S) \in S /\ S \in SUBSET Claim
  BY FirstIsClaim, QuorumRoundAssumption
<1>2. First(S).drone \in Peer
  BY <1>1 DEF Claim, Peer
<1>3. QED
  BY <1>2 DEF LeadOf, Lead

\* The votes resolve_claims makes up are well typed too.
LEMMA FabricatedType ==
  ASSUME NEW k \in RoundNo, NEW S \in Contests
  PROVE  Fabricated(k, S) \subseteq Vote
BY LeadType DEF Fabricated, Vote

LEMMA OutcomeType ==
  ASSUME NEW k \in RoundNo, NEW S \in Contests, NEW q \in Peer,
         NEW kind \in {"direct", "voted", "fabricated", "raised"},
         NEW votes \in SUBSET Vote
  PROVE  [id |-> k, claims |-> S, initiator |-> q, kind |-> kind, votes |-> votes,
          lead |-> LeadOf(S)] \in Outcome
BY LeadType DEF Outcome

TypeInv ==
  /\ TypeOK
  /\ Busy => claims \in Contests /\ round \in RoundNo

LEMMA InitRoundType == Init => TypeInv
BY QuorumRoundAssumption DEF Init, TypeInv, TypeOK, Busy, RoundNo, ThreadState

LEMMA NewRoundNo ==
  ASSUME TypeInv, round < MaxRound
  PROVE  NextRound \in RoundNo /\ NextRound \in 0 .. MaxRound
BY QuorumRoundAssumption DEF TypeInv, TypeOK, NextRound, RoundNo

LEMMA SingleType == TypeInv /\ ResolveSingle /\ UNCHANGED stalling => TypeInv'
<1> SUFFICES ASSUME TypeInv, ResolveSingle, UNCHANGED stalling PROVE TypeInv'
  OBVIOUS
<1>1. NextRound \in RoundNo /\ round' \in 0 .. MaxRound
  BY NewRoundNo DEF ResolveSingle
<1>2. PICK S \in Contests : outcomes' = outcomes \cup
        {[id |-> NextRound, claims |-> S, initiator |-> Initiator(S),
          kind |-> "direct", votes |-> Fabricated(NextRound, S), lead |-> LeadOf(S)]}
  BY DEF ResolveSingle
<1>3. outcomes' \subseteq Outcome
  <2>1. Initiator(S) \in Peer /\ Fabricated(NextRound, S) \in SUBSET Vote
    BY <1>1, InitiatorIsPeer, FabricatedType
  <2>2. QED
    BY <1>1, <1>2, <2>1, OutcomeType DEF TypeInv, TypeOK
<1>4. UNCHANGED <<stage, claims, initiator, thread, ballots, inbox, received, seen, cast>>
      /\ ~Busy'
  BY DEF ResolveSingle, Busy
<1>5. QED
  BY <1>1, <1>3, <1>4 DEF TypeInv, TypeOK

LEMMA AnnounceType == TypeInv /\ Announce /\ UNCHANGED stalling => TypeInv'
<1> SUFFICES ASSUME TypeInv, Announce, UNCHANGED stalling PROVE TypeInv'
  OBVIOUS
<1>1. round' = NextRound /\ NextRound \in RoundNo /\ round' \in 0 .. MaxRound
  BY NewRoundNo DEF Announce
<1>2. claims' \in Contests /\ initiator' \in Peer
  BY InitiatorIsPeer DEF Announce
<1>3. thread' \in [RoundNo -> [Peer -> ThreadState]]
  BY <1>1 DEF Announce, TypeInv, TypeOK, ThreadState
<1>4. inbox' \in [Peer -> SUBSET (Vote \cup Announcement)]
  <2>1. [type |-> "contest", id |-> NextRound] \in Announcement
    BY <1>1 DEF Announcement
  <2>2. QED
    BY <2>1 DEF Announce, TypeInv, TypeOK
<1>5. /\ stage' = "joining" /\ ballots' = {} /\ received' = {}
      /\ UNCHANGED <<seen, cast, outcomes>>
  BY DEF Announce
<1>6. QED
  BY <1>1, <1>2, <1>3, <1>4, <1>5 DEF TypeInv, TypeOK

LEMMA VoterType ==
  ASSUME TypeInv, UNCHANGED stalling, NEW p \in Peer, Voter(p)
  PROVE  TypeInv'
<1>1. PICK k \in RoundNo : ThreadPoll(k, p) \/ ThreadVote(k, p)
  BY DEF Voter
<1>2. CASE ThreadPoll(k, p)
  <2>1. thread' \in [RoundNo -> [Peer -> ThreadState]]
    BY <1>2 DEF ThreadPoll, TypeInv, TypeOK, ThreadState
  <2>2. inbox' \in [Peer -> SUBSET (Vote \cup Announcement)]
    BY <1>2 DEF ThreadPoll, TypeInv, TypeOK
  <2>3. QED
    BY <1>2, <2>1, <2>2 DEF ThreadPoll, TypeInv, TypeOK, Busy
<1>3. CASE ThreadVote(k, p)
  <2>1. thread' \in [RoundNo -> [Peer -> ThreadState]]
    BY <1>3 DEF ThreadVote, TypeInv, TypeOK, ThreadState
  <2>2. ballots' \subseteq Vote /\ cast' \subseteq Vote
    <3>1. CASE k = round /\ stage = "joining"
      <4>1. PICK pick : LET v == [type |-> "vote", id |-> k, voter |-> p,
                                  choice |-> Ballot(claims, pick)]
                        IN  /\ ballots' = ballots \cup {v}
                            /\ cast' = cast \cup {v}
        BY <1>3, <3>1 DEF ThreadVote
      <4>2. Ballot(claims, pick) \in Peer \cup {Split}
        BY <3>1, LeadFixed, LeadType DEF TypeInv, Busy, Ballot
      <4>3. [type |-> "vote", id |-> k, voter |-> p,
             choice |-> Ballot(claims, pick)] \in Vote
        BY <4>2 DEF Vote
      <4>4. QED
        BY <4>1, <4>3 DEF TypeInv, TypeOK
    <3>2. CASE ~(k = round /\ stage = "joining")
      BY <1>3, <3>2 DEF ThreadVote, TypeInv, TypeOK
    <3>3. QED
      BY <3>1, <3>2
  <2>3. UNCHANGED <<round, stage, claims, initiator, inbox, received, seen, outcomes>>
    BY <1>3 DEF ThreadVote
  <2>4. QED
    BY <2>1, <2>2, <2>3 DEF TypeInv, TypeOK, Busy
<1>4. QED
  BY <1>1, <1>2, <1>3

LEMMA MainType ==
  ASSUME RoundInv, TypeInv, UNCHANGED stalling, Main
  PROVE  TypeInv'
<1>1. CASE Join
  BY <1>1 DEF Join, TypeInv, TypeOK, Busy
<1>2. CASE PublishVote
  <2>1. /\ ballots' \subseteq Vote
        /\ inbox' \in [Peer -> SUBSET (Vote \cup Announcement)]
    BY <1>2 DEF PublishVote, TypeInv, TypeOK
  <2>2. UNCHANGED <<round, stage, claims, initiator, thread, received, seen, cast, outcomes>>
    BY <1>2 DEF PublishVote
  <2>3. QED
    BY <2>1, <2>2 DEF TypeInv, TypeOK, Busy
<1>3. CASE Collect
  <2>1. initiator \in Peer /\ inbox \in [Peer -> SUBSET (Vote \cup Announcement)]
    BY <1>3 DEF Collect, Collecting, RoundInv, StageInv, Busy, TypeInv, TypeOK
  <2>2. Waiting \subseteq Vote
    BY <2>1 DEF Waiting, Announcement
  <2>3. \A v \in Waiting : <<v.id, v.voter>> \in RoundNo \X Peer
    BY <2>2 DEF Vote
  <2>4. inbox' \in [Peer -> SUBSET (Vote \cup Announcement)]
    BY <1>3, <2>1 DEF Collect
  <2>5. received' \subseteq Vote /\ seen' \subseteq RoundNo \X Peer
    BY <1>3, <2>2, <2>3 DEF Collect, TypeInv, TypeOK
  <2>6. UNCHANGED <<round, stage, claims, initiator, thread, ballots, cast, outcomes>>
    BY <1>3 DEF Collect
  <2>7. QED
    BY <2>4, <2>5, <2>6 DEF TypeInv, TypeOK, Busy
<1>4. ASSUME NEW kind \in {"voted", "fabricated", "raised"}, NEW votes \in SUBSET Vote,
             Collecting, Return(kind, votes, LeadOf(claims))
      PROVE  TypeInv'
  <2>1. claims \in Contests /\ round \in RoundNo /\ initiator \in Peer
    BY <1>4 DEF Collecting, RoundInv, StageInv, Busy, TypeInv
  <2>2. outcomes' \subseteq Outcome
    BY <1>4, <2>1, OutcomeType DEF Return, TypeInv, TypeOK
  <2>3. /\ stage' \in {"idle", "raised"}
        /\ UNCHANGED <<round, claims, initiator, thread, ballots, inbox, received, seen, cast>>
    BY <1>4 DEF Return
  <2>4. QED
    BY <2>2, <2>3 DEF TypeInv, TypeOK, Busy
<1>5. CASE ReturnVoted
  <2>1. Collecting /\ \A v \in received : v.choice = LeadOf(claims)
    BY <1>5 DEF ReturnVoted, Collecting, Busy, RoundInv, PathInv, CastInv
  <2>2. Return("voted", received, LeadOf(claims))
    BY <1>5, <2>1, MajorityOfOne DEF ReturnVoted
  <2>3. QED
    BY <1>4, <2>1, <2>2 DEF TypeInv, TypeOK
<1>6. CASE ReturnFabricated
  <2>1. Collecting /\ claims \in Contests /\ round \in RoundNo
    BY <1>6 DEF ReturnFabricated, Collecting, Busy, TypeInv
  <2>2. Fabricated(round, claims) \in SUBSET Vote
    BY <2>1, FabricatedType
  <2>3. QED
    BY <1>4, <1>6, <2>1, <2>2 DEF ReturnFabricated
<1>7. CASE Raise
  BY <1>4, <1>7 DEF Raise
<1>8. QED
  BY <1>1, <1>2, <1>3, <1>5, <1>6, <1>7 DEF Main

LEMMA TypeInvariant == Spec => []TypeInv
<1>1. RoundInv /\ TypeInv /\ [Next]_vars => TypeInv'
  <2> SUFFICES ASSUME RoundInv, TypeInv, [Next]_vars PROVE TypeInv'
    OBVIOUS
  <2>1. CASE Next
    BY <2>1, SingleType, AnnounceType, VoterType, MainType DEF Next
  <2>2. CASE UNCHANGED vars
    BY <2>2 DEF vars, TypeInv, TypeOK, Busy
  <2>3. QED
    BY <2>1, <2>2
<1>2. QED
  BY <1>1, InitRoundType, RoundInvariant, PTL DEF Spec

\* The types of a round, in particular that every vote and every outcome names
\* the split or a peer.
THEOREM RoundTypeCorrect == Spec => []TypeOK
<1>1. TypeInv => TypeOK
  BY DEF TypeInv
<1>2. QED
  BY <1>1, TypeInvariant, PTL
-----------------------------------------------------------------------------
(***************************************************************************)
(* The steady peers, whose threads do not stall.  Each votes in time in    *)
(* every contest, because only its own threads empty its inbox and none of *)
(* an earlier contest is left; and as long as the initiator is steady its  *)
(* vote stays in sight: not yet published, in the initiator's inbox, or    *)
(* collected.                                                              *)
(***************************************************************************)
Steady == Peer \ stalling

Has(p, votes) == \E v \in votes : v.voter = p

Call == [type |-> "contest", id |-> round]

\* No thread of a steady peer outlives its contest.
NoneLeft ==
  \A p \in Steady, k \in RoundNo :
    k # round \/ stage # "joining" => thread[k][p] \in {"none", "done"}

\* Where the vote of a steady peer is before the snapshot ...
InTime ==
  stage = "joining" => \A p \in Steady :
    \/ thread[round][p] = "polling" /\ Call \in inbox[p]
    \/ thread[round][p] = "voting"
    \/ thread[round][p] = "done" /\ Has(p, ballots)

\* ... and after it.
InSight ==
  stage = "collecting" /\ initiator \in Steady =>
    \A p \in Steady : Has(p, ballots) \/ Has(p, Waiting) \/ Has(p, received)

\* A voter seen in this contest has a vote among those received in it.
SeenReceived ==
  /\ \A k \in RoundNo, p \in Peer : <<k, p>> \in seen => k <= round
  /\ Busy => \A p \in Peer : <<round, p>> \in seen => Has(p, received)

SteadyInv ==
  /\ RoundInv /\ TypeInv
  /\ NoneLeft /\ InTime /\ InSight /\ SeenReceived
  /\ Busy => Cardinality(claims) > 1
  /\ MinorityStallHarmless

\* One steady vote each is a quorum when the others are a minority.
LEMMA SteadyQuorum ==
  ASSUME SteadyInv, Collecting, Waiting = {}, initiator \in Steady,
         Cardinality(stalling) <= Cardinality(Peer) - Quorum
  PROVE  Cardinality(received) >= Quorum
<1>1. \A p \in Steady : Has(p, received)
  BY DEF SteadyInv, InSight, Collecting, Has
<1>2. /\ \A v \in received : v.voter \in Peer
      /\ \A v, w \in received : v.voter = w.voter => v = w
  <2>1. received \subseteq {v \in cast : v.id = round}
    BY DEF SteadyInv, RoundInv, PathInv, Busy, Collecting
  <2>2. QED
    BY <2>1 DEF SteadyInv, RoundInv, CastInv
<1>3. /\ IsFiniteSet(Peer) /\ Cardinality(Peer) \in Nat /\ stalling \in SUBSET Peer
      /\ IsFiniteSet(stalling) /\ Cardinality(stalling) \in Nat
  BY QuorumRoundAssumption, FS_CardinalityType, FS_Subset DEF SteadyInv, TypeInv, TypeOK
<1>4. IsFiniteSet(received) /\ Cardinality(received) \in Nat
  <2> DEFINE f == [v \in received |-> v.voter]
  <2>1. f \in Injection(received, Peer)
    BY <1>2 DEF Injection, IsInjective
  <2>2. QED
    BY <1>3, <2>1, FS_Injection, FS_CardinalityType
<1>5. Cardinality(Steady) = Cardinality(Peer) - Cardinality(stalling)
  <2>1. Peer \cap stalling = stalling
    BY <1>3
  <2>2. QED
    BY <1>3, <2>1, FS_Difference DEF Steady
<1>6. Cardinality(Steady) <= Cardinality(received)
  <2> DEFINE g == [p \in Steady |-> CHOOSE v \in received : v.voter = p]
  <2>1. \A p \in Steady : g[p] \in received /\ g[p].voter = p
    BY <1>1 DEF Has
  <2> HIDE DEF g
  <2>2. g \in [Steady -> received]
    BY <2>1 DEF g
  <2>3. g \in Injection(Steady, received)
    BY <2>1, <2>2 DEF Injection, IsInjective
  <2>4. QED
    BY <1>4, <2>3, FS_Injection
<1>7. Quorum \in Nat
  BY <1>3 DEF Quorum
<1>8. QED
  BY <1>3, <1>4, <1>5, <1>6, <1>7

LEMMA InitSteady == Init => SteadyInv
<1> SUFFICES ASSUME Init PROVE SteadyInv
  OBVIOUS
<1>1. RoundInv /\ TypeInv
  BY InitRound, InitRoundType
<1>2. NoneLeft
  BY DEF Init, NoneLeft, Steady
<1>3. InTime /\ InSight /\ SeenReceived /\ MinorityStallHarmless /\ ~Busy
  BY DEF Init, InTime, InSight, SeenReceived, MinorityStallHarmless, Busy
<1>4. QED
  BY <1>1, <1>2, <1>3 DEF SteadyInv

\* What is to show of every step, the two invariants before being there.
LEMMA SingleSteady ==
  ASSUME SteadyInv, ResolveSingle, UNCHANGED stalling
  PROVE  /\ NoneLeft' /\ InTime' /\ InSight' /\ SeenReceived'
         /\ Busy' => Cardinality(claims') > 1
         /\ MinorityStallHarmless'
<1>1. /\ round' = round + 1 /\ round \in Nat /\ stage = "idle" /\ stage' = "idle"
      /\ UNCHANGED <<claims, initiator, thread, ballots, inbox, received, seen, stalling>>
  BY DEF ResolveSingle, NextRound, SteadyInv, RoundInv, StageInv
<1>2. NoneLeft'
  BY <1>1 DEF SteadyInv, NoneLeft, Steady
<1>3. SeenReceived'
  <2>1. \A k \in RoundNo, p \in Peer : <<k, p>> \in seen => k <= round
    BY DEF SteadyInv, SeenReceived
  <2>2. \A k \in RoundNo : k \in Nat
    BY DEF RoundNo
  <2>3. \A k \in RoundNo, p \in Peer : <<k, p>> \in seen' => k <= round'
    BY <1>1, <2>1, <2>2
  <2>4. ~Busy'
    BY <1>1 DEF Busy
  <2>5. QED
    BY <2>3, <2>4 DEF SeenReceived
<1>4. MinorityStallHarmless'
  <2>1. PICK S \in Contests :
          /\ Cardinality(S) = 1
          /\ outcomes' = outcomes \cup
               {[id |-> NextRound, claims |-> S, initiator |-> Initiator(S),
                 kind |-> "direct", votes |-> Fabricated(NextRound, S), lead |-> LeadOf(S)]}
    BY DEF ResolveSingle
  <2>2. \A o \in outcomes' : o \in outcomes \/ ~(Cardinality(o.claims) > 1)
    BY <2>1
  <2>3. QED
    BY <1>1, <2>2 DEF SteadyInv, MinorityStallHarmless, Quorum
<1>5. QED
  BY <1>1, <1>2, <1>3, <1>4 DEF InTime, InSight, Busy

LEMMA AnnounceSteady ==
  ASSUME SteadyInv, Announce, UNCHANGED stalling
  PROVE  /\ NoneLeft' /\ InTime' /\ InSight' /\ SeenReceived'
         /\ Busy' => Cardinality(claims') > 1
         /\ MinorityStallHarmless'
<1>1. /\ round' = round + 1 /\ round \in Nat /\ stage = "idle" /\ stage' = "joining"
      /\ thread' = [thread EXCEPT ![round'] = [p \in Peer |-> "polling"]]
      /\ inbox' = [p \in Peer |-> inbox[p] \cup {[type |-> "contest", id |-> round']}]
      /\ UNCHANGED <<seen, outcomes, stalling>>
      /\ Cardinality(claims') > 1
  BY DEF Announce, NextRound, SteadyInv, RoundInv, StageInv
<1>2. thread \in [RoundNo -> [Peer -> ThreadState]] /\ round' \in RoundNo
  <2>1. NextRound \in RoundNo
    BY NewRoundNo DEF Announce, SteadyInv
  <2>2. QED
    BY <2>1 DEF Announce, SteadyInv, TypeInv, TypeOK
<1>3. NoneLeft'
  <2> SUFFICES ASSUME NEW p \in Steady, NEW k \in RoundNo, k # round'
               PROVE  thread'[k][p] \in {"none", "done"}
    BY <1>1 DEF NoneLeft, Steady
  <2>1. thread'[k] = thread[k]
    BY <1>1, <1>2
  <2>2. QED
    BY <1>1, <2>1 DEF SteadyInv, NoneLeft
<1>4. InTime'
  BY <1>1, <1>2 DEF InTime, Steady, Call
<1>5. SeenReceived'
  <2>1. \A k \in RoundNo, p \in Peer : <<k, p>> \in seen => k <= round
    BY DEF SteadyInv, SeenReceived
  <2>2. \A k \in RoundNo : k \in Nat
    BY DEF RoundNo
  <2>3. ASSUME NEW p \in Peer, <<round', p>> \in seen' PROVE FALSE
    BY <1>1, <1>2, <2>1, <2>3
  <2>4. QED
    BY <1>1, <2>1, <2>2, <2>3 DEF SeenReceived
<1>6. MinorityStallHarmless'
  BY <1>1 DEF SteadyInv, MinorityStallHarmless, Quorum
<1>7. QED
  BY <1>1, <1>3, <1>4, <1>5, <1>6 DEF InSight

\* A stalling peer's late thread empties no inbox but its own.
LEMMA PollSteady ==
  ASSUME SteadyInv, UNCHANGED stalling, NEW k \in RoundNo, NEW q \in Peer, ThreadPoll(k, q)
  PROVE  /\ NoneLeft' /\ InTime' /\ InSight' /\ SeenReceived'
         /\ Busy' => Cardinality(claims') > 1
         /\ MinorityStallHarmless'
<1>1. /\ thread[k][q] = "polling"
      /\ UNCHANGED <<round, stage, claims, initiator, ballots, received, seen, outcomes>>
      /\ inbox' = [inbox EXCEPT ![q] = {}]
      /\ thread' = [thread EXCEPT ![k][q] =
                      IF [type |-> "contest", id |-> k] \in inbox[q] THEN "voting" ELSE "done"]
  BY DEF ThreadPoll
<1>2. /\ thread \in [RoundNo -> [Peer -> ThreadState]]
      /\ inbox \in [Peer -> SUBSET (Vote \cup Announcement)]
  BY DEF SteadyInv, TypeInv, TypeOK
<1>3. q \in Steady => k = round /\ stage = "joining"
  BY <1>1 DEF SteadyInv, NoneLeft
<1>4. \A p \in Steady \ {q} : inbox'[p] = inbox[p] /\ \A i \in RoundNo : thread'[i][p] = thread[i][p]
  BY <1>1, <1>2 DEF Steady
<1>5. \A i \in RoundNo \ {k} : thread'[i] = thread[i]
  BY <1>1, <1>2
<1>6. NoneLeft'
  <2> SUFFICES ASSUME NEW p \in Steady, NEW i \in RoundNo, i # round \/ stage # "joining"
               PROVE  thread'[i][p] \in {"none", "done"}
    BY <1>1 DEF NoneLeft, Steady
  <2>1. thread'[i][p] = thread[i][p]
    BY <1>3, <1>4, <1>5
  <2>2. QED
    BY <2>1 DEF SteadyInv, NoneLeft
<1>7. InTime'
  <2> SUFFICES ASSUME stage = "joining", NEW p \in Steady
               PROVE  \/ thread'[round][p] = "polling" /\ Call \in inbox'[p]
                      \/ thread'[round][p] = "voting"
                      \/ thread'[round][p] = "done" /\ Has(p, ballots)
    BY <1>1 DEF InTime, Steady, Call, Has
  <2>0. round \in RoundNo
    BY DEF SteadyInv, TypeInv, Busy
  <2>1. CASE p # q
    BY <1>4, <2>0, <2>1 DEF SteadyInv, InTime
  <2>2. CASE p = q
    <3>1. k = round /\ Call \in inbox[q]
      BY <1>1, <1>3, <2>2 DEF SteadyInv, InTime
    <3>2. thread'[round][q] = "voting"
      BY <1>1, <1>2, <2>0, <3>1 DEF Call
    <3>3. QED
      BY <2>2, <3>2
  <2>3. QED
    BY <2>1, <2>2
<1>8. InSight'
  <2> SUFFICES ASSUME stage = "collecting", initiator \in Steady
               PROVE  Waiting' = Waiting
    BY <1>1 DEF SteadyInv, InSight, Steady, Has
  <2>1. q # initiator
    BY <1>3
  <2>2. QED
    BY <1>1, <1>4, <2>1 DEF Waiting
<1>9. SeenReceived' /\ MinorityStallHarmless' /\ (Busy' => Cardinality(claims') > 1)
  BY <1>1 DEF SteadyInv, SeenReceived, MinorityStallHarmless, Quorum, Busy, Has
<1>10. QED
  BY <1>6, <1>7, <1>8, <1>9

LEMMA VoteSteady ==
  ASSUME SteadyInv, UNCHANGED stalling, NEW k \in RoundNo, NEW q \in Peer, ThreadVote(k, q)
  PROVE  /\ NoneLeft' /\ InTime' /\ InSight' /\ SeenReceived'
         /\ Busy' => Cardinality(claims') > 1
         /\ MinorityStallHarmless'
<1>1. /\ thread[k][q] = "voting"
      /\ UNCHANGED <<round, stage, claims, initiator, inbox, received, seen, outcomes>>
      /\ thread' = [thread EXCEPT ![k][q] = "done"]
  BY DEF ThreadVote
<1>2. thread \in [RoundNo -> [Peer -> ThreadState]]
  BY DEF SteadyInv, TypeInv, TypeOK
<1>3. ballots \subseteq ballots' /\ (k = round /\ stage = "joining" => Has(q, ballots'))
  <2>1. CASE k = round /\ stage = "joining"
    <3>1. PICK v : ballots' = ballots \cup {v} /\ v.voter = q
      <4>1. \E pick \in Fallbacks(claims, {First(claims).cell}) :
              ballots' = ballots \cup {[type |-> "vote", id |-> k, voter |-> q,
                                        choice |-> Ballot(claims, pick)]}
        BY <2>1 DEF ThreadVote
      <4>2. PICK choice : ballots' = ballots \cup {[type |-> "vote", id |-> k, voter |-> q,
                                                     choice |-> choice]}
        BY <4>1
      <4>3. [type |-> "vote", id |-> k, voter |-> q, choice |-> choice].voter = q
        OBVIOUS
      <4>4. QED
        BY <4>2, <4>3
    <3>2. v \in ballots'
      BY <3>1
    <3>3. \E w \in ballots' : w.voter = q
      BY <3>1, <3>2
    <3>4. ballots \subseteq ballots'
      BY <3>1
    <3>5. QED
      BY <3>3, <3>4 DEF Has
  <2>2. CASE ~(k = round /\ stage = "joining")
    BY <2>2 DEF ThreadVote
  <2>3. QED
    BY <2>1, <2>2
<1>4. \A i \in RoundNo, p \in Peer :
        thread'[i][p] = thread[i][p] \/ (i = k /\ p = q /\ thread'[i][p] = "done")
  BY <1>1, <1>2
<1>5. NoneLeft'
  BY <1>1, <1>4 DEF SteadyInv, NoneLeft, Steady
<1>6. InTime'
  <2> SUFFICES ASSUME stage = "joining", NEW p \in Steady
               PROVE  \/ thread'[round][p] = "polling" /\ Call \in inbox[p]
                      \/ thread'[round][p] = "voting"
                      \/ thread'[round][p] = "done" /\ Has(p, ballots')
    BY <1>1 DEF InTime, Steady, Call, Has
  <2>0. round \in RoundNo /\ p \in Peer
    BY DEF SteadyInv, TypeInv, Busy, Steady
  <2>1. CASE thread'[round][p] = thread[round][p]
    BY <1>3, <2>1 DEF SteadyInv, InTime, Has
  <2>2. CASE thread'[round][p] # thread[round][p]
    BY <1>3, <1>4, <2>0, <2>2
  <2>3. QED
    BY <2>1, <2>2
<1>7. InSight'
  <2> SUFFICES ASSUME stage = "collecting"
               PROVE  Waiting' = Waiting /\ ballots \subseteq ballots'
    BY <1>1 DEF SteadyInv, InSight, Steady, Has
  <2>1. QED
    BY <1>1, <1>3 DEF Waiting
<1>8. SeenReceived' /\ MinorityStallHarmless' /\ (Busy' => Cardinality(claims') > 1)
  BY <1>1 DEF SteadyInv, SeenReceived, MinorityStallHarmless, Quorum, Busy, Has
<1>9. QED
  BY <1>5, <1>6, <1>7, <1>8

\* The snapshot has the vote of every steady peer, since their joins succeed.
LEMMA JoinSteady ==
  ASSUME SteadyInv, UNCHANGED stalling, Join
  PROVE  /\ NoneLeft' /\ InTime' /\ InSight' /\ SeenReceived'
         /\ Busy' => Cardinality(claims') > 1
         /\ MinorityStallHarmless'
<1>1. /\ stage = "joining" /\ stage' = "collecting"
      /\ \A p \in Steady : thread[round][p] = "done"
      /\ UNCHANGED <<round, claims, initiator, thread, ballots, inbox, received, seen, outcomes>>
  BY DEF Join, Steady
<1>2. \A p \in Steady : Has(p, ballots)
  BY <1>1 DEF SteadyInv, InTime
<1>3. NoneLeft' /\ InTime' /\ InSight'
  BY <1>1, <1>2 DEF SteadyInv, NoneLeft, InTime, InSight, Steady, Has
<1>4. SeenReceived' /\ MinorityStallHarmless' /\ (Busy' => Cardinality(claims') > 1)
  BY <1>1 DEF SteadyInv, SeenReceived, MinorityStallHarmless, Quorum, Busy, Has
<1>5. QED
  BY <1>3, <1>4

\* A published vote waits in the initiator's inbox.
LEMMA PublishSteady ==
  ASSUME SteadyInv, UNCHANGED stalling, PublishVote
  PROVE  /\ NoneLeft' /\ InTime' /\ InSight' /\ SeenReceived'
         /\ Busy' => Cardinality(claims') > 1
         /\ MinorityStallHarmless'
<1>1. PICK v \in ballots : /\ ballots' = ballots \ {v}
                           /\ inbox' = [p \in Peer |-> inbox[p] \cup {v}]
  BY DEF PublishVote
<1>2. /\ stage = "collecting"
      /\ UNCHANGED <<round, stage, claims, initiator, thread, received, seen, outcomes>>
  BY DEF PublishVote
<1>3. v.type = "vote" /\ v.id = round
  <2>1. v \in cast /\ v.id = round
    BY DEF SteadyInv, RoundInv, PathInv
  <2>2. v = [type |-> "vote", id |-> v.id, voter |-> v.voter, choice |-> v.choice]
    BY <2>1 DEF SteadyInv, RoundInv, CastInv
  <2>3. QED
    BY <2>1, <2>2
<1>4. initiator \in Peer => Waiting' = Waiting \cup {v}
  BY <1>1, <1>2, <1>3 DEF Waiting
<1>5. InSight'
  <2> SUFFICES ASSUME initiator \in Steady, NEW p \in Steady
               PROVE  Has(p, ballots') \/ Has(p, Waiting') \/ Has(p, received)
    BY <1>2 DEF InSight, Steady, Has
  <2>1. Has(p, ballots) \/ Has(p, Waiting) \/ Has(p, received)
    BY <1>2 DEF SteadyInv, InSight
  <2>2. Waiting' = Waiting \cup {v}
    BY <1>4 DEF Steady
  <2>3. QED
    BY <1>1, <2>1, <2>2 DEF Has
<1>6. NoneLeft' /\ InTime'
  BY <1>2 DEF SteadyInv, NoneLeft, InTime, Steady
<1>7. SeenReceived' /\ MinorityStallHarmless' /\ (Busy' => Cardinality(claims') > 1)
  BY <1>2 DEF SteadyInv, SeenReceived, MinorityStallHarmless, Quorum, Busy, Has
<1>8. QED
  BY <1>5, <1>6, <1>7

\* A vote that is not counted is one of a voter counted before.
LEMMA CollectSteady ==
  ASSUME SteadyInv, UNCHANGED stalling, Collect
  PROVE  /\ NoneLeft' /\ InTime' /\ InSight' /\ SeenReceived'
         /\ Busy' => Cardinality(claims') > 1
         /\ MinorityStallHarmless'
<1>1. /\ stage = "collecting" /\ round \in RoundNo
      /\ received' = received \cup {v \in Waiting : <<v.id, v.voter>> \notin seen}
      /\ seen' = seen \cup {<<v.id, v.voter>> : v \in Waiting}
      /\ UNCHANGED <<round, stage, claims, initiator, thread, ballots, outcomes>>
  BY DEF Collect, Collecting, SteadyInv, TypeInv, Busy
<1>2. \A v \in Waiting : v.id = round /\ v.voter \in Peer
  <2>1. inbox[initiator] \subseteq Vote \cup Announcement
    BY <1>1 DEF SteadyInv, RoundInv, StageInv, Busy, TypeInv, TypeOK
  <2>2. QED
    BY <2>1 DEF Waiting, Vote, Announcement
<1>3. \A v \in Waiting : Has(v.voter, received')
  <2> SUFFICES ASSUME NEW v \in Waiting PROVE Has(v.voter, received')
    OBVIOUS
  <2>1. CASE <<v.id, v.voter>> \in seen
    <3>1. Has(v.voter, received)
      BY <1>1, <1>2, <2>1 DEF SteadyInv, SeenReceived, Busy
    <3>2. QED
      BY <1>1, <3>1 DEF Has
  <2>2. CASE <<v.id, v.voter>> \notin seen
    BY <1>1, <2>2 DEF Has
  <2>3. QED
    BY <2>1, <2>2
<1>4. \A p : Has(p, received) => Has(p, received')
  BY <1>1 DEF Has
<1>5. InSight'
  <2> SUFFICES ASSUME initiator \in Steady, NEW p \in Steady
               PROVE  Has(p, ballots) \/ Has(p, received')
    BY <1>1 DEF InSight, Steady, Has
  <2>1. Has(p, ballots) \/ Has(p, Waiting) \/ Has(p, received)
    BY <1>1 DEF SteadyInv, InSight
  <2>2. Has(p, Waiting) => Has(p, received')
    BY <1>3 DEF Has
  <2>3. QED
    BY <1>4, <2>1, <2>2
<1>6. SeenReceived'
  <2>1. ASSUME NEW j \in RoundNo, NEW p \in Peer, <<j, p>> \in seen'
        PROVE  j <= round /\ (j = round => Has(p, received'))
    <3>1. CASE <<j, p>> \in seen
      BY <1>1, <1>4, <3>1 DEF SteadyInv, SeenReceived, Busy
    <3>2. CASE \E v \in Waiting : <<j, p>> = <<v.id, v.voter>>
      <4>1. PICK v \in Waiting : j = v.id /\ p = v.voter
        BY <3>2
      <4>2. j = round /\ round \in Nat
        BY <1>2, <4>1 DEF SteadyInv, RoundInv, StageInv
      <4>3. QED
        BY <1>3, <4>1, <4>2
    <3>3. QED
      BY <1>1, <2>1, <3>1, <3>2
  <2>2. QED
    BY <1>1, <2>1 DEF SeenReceived
<1>7. NoneLeft' /\ InTime' /\ MinorityStallHarmless' /\ (Busy' => Cardinality(claims') > 1)
  BY <1>1 DEF SteadyInv, NoneLeft, InTime, Steady, MinorityStallHarmless, Quorum, Busy
<1>8. QED
  BY <1>5, <1>6, <1>7

\* Short of a quorum resolve_claims returns only if a majority, or the
\* initiator, stalls.
LEMMA LeaveSteady ==
  ASSUME SteadyInv, UNCHANGED stalling, ReturnVoted \/ ReturnFabricated \/ Raise
  PROVE  /\ NoneLeft' /\ InTime' /\ InSight' /\ SeenReceived'
         /\ Busy' => Cardinality(claims') > 1
         /\ MinorityStallHarmless'
<1>1. PICK kind, votes, lead : Return(kind, votes, lead) /\ (ReturnVoted => kind = "voted")
  <2>1. CASE ReturnVoted
    <3>1. PICK lead : Return("voted", received, lead)
      BY <2>1 DEF ReturnVoted
    <3>2. QED
      BY <3>1
  <2>2. CASE ~ReturnVoted
    BY <2>2 DEF ReturnFabricated, Raise
  <2>3. QED
    BY <2>1, <2>2
<1>2. /\ Collecting /\ stage = "collecting" /\ stage' \in {"idle", "raised"}
      /\ UNCHANGED <<round, claims, initiator, thread, ballots, inbox, received, seen>>
      /\ outcomes' = outcomes \cup {[id |-> round, claims |-> claims, initiator |-> initiator,
                                     kind |-> kind, votes |-> votes, lead |-> lead]}
  BY <1>1 DEF ReturnVoted, ReturnFabricated, Raise, Return, Collecting
<1>3. NoneLeft' /\ InTime' /\ InSight' /\ SeenReceived' /\ ~Busy'
  BY <1>2 DEF SteadyInv, NoneLeft, InTime, InSight, SeenReceived, Steady, Busy
<1>4. ASSUME initiator \notin stalling,
             Cardinality(stalling) <= Cardinality(Peer) - Quorum
      PROVE  kind = "voted"
  <2>1. initiator \in Steady
    BY <1>2, <1>4 DEF SteadyInv, RoundInv, StageInv, Busy, Steady
  <2>2. CASE ReturnVoted
    BY <1>1, <2>2
  <2>3. CASE ReturnFabricated \/ Raise
    <3>1. Waiting = {} /\ (Cardinality(received) \in 1 .. Quorum - 1 \/ received = {})
      BY <2>3 DEF ReturnFabricated, Raise
    <3>2. Cardinality(received) >= Quorum
      BY <1>2, <1>4, <2>1, <3>1, SteadyQuorum
    <3>3. Quorum \in Nat /\ Quorum >= 1
      <4>1. Cardinality(Peer) \in Nat
        BY QuorumRoundAssumption, FS_CardinalityType
      <4>2. QED
        BY <4>1 DEF Quorum
    <3>4. QED
      BY <3>1, <3>2, <3>3, FS_EmptySet
  <2>4. QED
    BY <2>2, <2>3
<1>5. MinorityStallHarmless'
  <2>1. UNCHANGED Quorum
    BY DEF Quorum
  <2> SUFFICES ASSUME NEW o \in outcomes', Cardinality(o.claims) > 1, o.initiator \notin stalling,
                      Cardinality(stalling) <= Cardinality(Peer) - Quorum
               PROVE  o.kind = "voted"
    BY <2>1 DEF MinorityStallHarmless
  <2>2. CASE o \in outcomes
    BY <2>2 DEF SteadyInv, MinorityStallHarmless
  <2>3. CASE o \notin outcomes
    <3>1. o.initiator = initiator /\ o.kind = kind
      BY <1>2, <2>3
    <3>2. QED
      BY <1>4, <3>1
  <2>4. QED
    BY <2>2, <2>3
<1>6. QED
  BY <1>3, <1>5

\* A minority of stalling voters never costs a contest its real quorum, for any
\* peers, contests and number of rounds, unless the initiator is among them.
THEOREM MinorityStallsAreHarmless == Spec => []MinorityStallHarmless
<1>1. SteadyInv /\ RoundInv' /\ TypeInv' /\ [Next]_vars => SteadyInv'
  <2> SUFFICES ASSUME SteadyInv, RoundInv', TypeInv', [Next]_vars PROVE SteadyInv'
    OBVIOUS
  <2>1. CASE Next
    <3>1. UNCHANGED stalling
      BY <2>1 DEF Next
    <3>2. CASE ResolveSingle
      BY <3>1, <3>2, SingleSteady DEF SteadyInv
    <3>3. CASE Announce
      BY <3>1, <3>3, AnnounceSteady DEF SteadyInv
    <3>4. CASE Main
      BY <3>1, <3>4, JoinSteady, PublishSteady, CollectSteady, LeaveSteady
         DEF Main, SteadyInv
    <3>5. CASE \E p \in Peer : Voter(p)
      BY <3>1, <3>5, PollSteady, VoteSteady DEF Voter, SteadyInv
    <3>6. QED
      BY <2>1, <3>2, <3>3, <3>4, <3>5 DEF Next
  <2>2. CASE UNCHANGED vars
    BY <2>2 DEF vars, SteadyInv, NoneLeft, InTime, InSight, SeenReceived, Steady, Has, Call,
                Waiting, MinorityStallHarmless, Quorum, Busy
  <2>3. QED
    BY <2>1, <2>2
<1>2. SteadyInv => MinorityStallHarmless
  BY DEF SteadyInv
<1>3. QED
  BY <1>1, <1>2, InitSteady, RoundInvariant, TypeInvariant, PTL DEF Spec
=============================================================================
