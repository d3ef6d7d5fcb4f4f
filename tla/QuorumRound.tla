----------------------------- MODULE QuorumRound -----------------------------
(***************************************************************************)
(* core/consensus.py with a mesh, as simulation/stub.py runs it: the       *)
(* resolver announces a contest to every peer's inbox, one thread per peer *)
(* polls the inbox and votes, the joins time out, the votes in by then are *)
(* published, and the initiator collects them until a quorum or the        *)
(* deadline.  A thread that overran its join lives on and may still empty  *)
(* its inbox: of the next contest, or of the votes the initiator waits for.*)
(*                                                                         *)
(* Abstractions: an inbox holds the announcements and votes in it, without *)
(* order; results, which nobody in here reads, are left out of it; the     *)
(* message cap and the 2000 remembered votes are not reached.              *)
(***************************************************************************)
EXTENDS Auction

CONSTANTS
  Contests,   \* the claim sets, each on one cell, that may be resolved
  MayStall,   \* sets of peers whose vote threads may overrun the join timeout
  MaxRound    \* bound on the contests of a run

Peer == Drone

ASSUME QuorumRoundAssumption ==
  /\ IsFiniteSet(Peer) /\ Peer # {}
  /\ Contests \subseteq SUBSET Claim
  /\ \A S \in Contests : S # {} /\ IsFiniteSet(S) /\ \A c, d \in S : c.cell = d.cell
  /\ MayStall \subseteq SUBSET Peer
  /\ MaxRound \in Nat

VARIABLES
  stalling,   \* the peers whose threads may overrun in this run
  round,      \* _round_id
  stage,      \* where resolve_claims is
  claims,     \* its claims
  initiator,  \* its initiator
  thread,     \* thread[k][p]: the vote thread of peer p in contest k
  ballots,    \* local_votes of this contest, and then the snapshot to publish
  inbox,      \* the mesh inbox "consensus::<peer>"
  received,   \* votes collected by the initiator
  seen,       \* _seen_votes
  cast,       \* history: every vote a thread cast in time
  outcomes    \* history: what resolve_claims returned or raised

vars == <<stalling, round, stage, claims, initiator, thread, ballots, inbox, received, seen,
          cast, outcomes>>

Split == None
RoundNo == 1 .. MaxRound
Vote == [type : {"vote"}, id : RoundNo, voter : Peer, choice : Peer \cup {Split}]
Announcement == [type : {"contest"}, id : RoundNo]
ThreadState == {"none", "polling", "voting", "done"}
Outcome == [id : RoundNo, claims : Contests, initiator : Peer,
            kind : {"direct", "voted", "fabricated", "raised"},
            votes : SUBSET Vote, lead : Peer \cup {Split}]

\* Every variable keeps its type; the rounds of resolve_claims are numbered from
\* 1 and every vote names the contest, a peer and a claimant or the split.
TypeOK ==
  /\ stalling \in MayStall
  /\ round \in 0 .. MaxRound
  /\ stage \in {"idle", "joining", "collecting", "raised"}
  /\ claims \in Contests \cup {{}}
  /\ initiator \in Peer \cup {None}
  /\ thread \in [RoundNo -> [Peer -> ThreadState]]
  /\ ballots \subseteq Vote
  /\ inbox \in [Peer -> SUBSET (Vote \cup Announcement)]
  /\ received \subseteq Vote
  /\ seen \subseteq RoundNo \X Peer
  /\ cast \subseteq Vote
  /\ outcomes \subseteq Outcome

-----------------------------------------------------------------------------
NextRound_Stuck == round

NextRound == round + 1

Quorum_Half == Cardinality(Peer) \div 2

Quorum == Cardinality(Peer) \div 2 + 1

First(S) == CHOOSE c \in S : Rank(c, S) = 0

\* What decision.assignments[0] is voted as.
Lead(S, pick) ==
  IF SeatOf(First(S), S, pick).kind = "left" THEN Split ELSE First(S).drone

\* The claims are grouped in the order of the drones, and the first one asks.
Initiator(S) == CHOOSE d \in Claimants(S) : \A e \in Claimants(S) : d <= e

Ballot_Nearest(S, pick) ==
  LET nearest == CHOOSE c \in S : \A d \in S : c.dist <= d.dist
  IN  IF Tied(S) THEN Split ELSE nearest.drone

\* A voter resolves the same claims on its own map: its fallbacks may differ.
Ballot(S, pick) == Lead(S, pick)

\* The lead is the same with any fallbacks.
LeadOf(S) == Lead(S, [c \in Losers(S) |-> None])

\* _fallback_votes: one vote per peer, nobody asked.
Fabricated(k, S) ==
  {[type |-> "vote", id |-> k, voter |-> p, choice |-> LeadOf(S)] : p \in Peer}

For(c, votes) == Cardinality({v \in votes : v.choice = c})

\* _majority_choice: the most frequent choice; ties go to the decision's lead.
Majority(votes, lead) ==
  LET choices == {v.choice : v \in votes}
      top == {c \in choices : \A d \in choices : For(d, votes) <= For(c, votes)}
  IN  IF Cardinality(top) = 1 THEN CHOOSE c \in top : TRUE ELSE lead

-----------------------------------------------------------------------------
Init ==
  /\ stalling \in MayStall
  /\ round = 0
  /\ stage = "idle"
  /\ claims = {}
  /\ initiator = None
  /\ thread = [k \in RoundNo |-> [p \in Peer |-> "none"]]
  /\ ballots = {}
  /\ inbox = [p \in Peer |-> {}]
  /\ received = {}
  /\ seen = {}
  /\ cast = {}
  /\ outcomes = {}

\* A single claim is decided on the spot, with fabricated votes.
ResolveSingle ==
  /\ stage = "idle"
  /\ round < MaxRound
  /\ round' = NextRound
  /\ \E S \in Contests :
       /\ Cardinality(S) = 1
       /\ outcomes' = outcomes \cup
            {[id |-> NextRound, claims |-> S, initiator |-> Initiator(S),
              kind |-> "direct", votes |-> Fabricated(NextRound, S), lead |-> LeadOf(S)]}
  /\ UNCHANGED <<stage, claims, initiator, thread, ballots, inbox, received, seen, cast>>

\* Announce the contest to every inbox and start the vote threads.
Announce ==
  /\ stage = "idle"
  /\ round < MaxRound
  /\ round' = NextRound
  /\ stage' = "joining"
  /\ \E S \in Contests :
       /\ Cardinality(S) > 1
       /\ claims' = S
       /\ initiator' = Initiator(S)
  /\ inbox' = [p \in Peer |-> inbox[p] \cup {[type |-> "contest", id |-> NextRound]}]
  /\ thread' = [thread EXCEPT ![NextRound] = [p \in Peer |-> "polling"]]
  /\ ballots' = {}
  /\ received' = {}
  /\ UNCHANGED <<seen, cast, outcomes>>

-----------------------------------------------------------------------------
\* _vote: the thread takes everything in the inbox, and goes on only if the
\* announcement of its own contest was in there.
ThreadPoll(k, p) ==
  /\ thread[k][p] = "polling"
  /\ inbox' = [inbox EXCEPT ![p] = {}]
  /\ thread' = [thread EXCEPT ![k][p] =
                  IF [type |-> "contest", id |-> k] \in inbox[p] THEN "voting" ELSE "done"]
  /\ UNCHANGED <<round, stage, claims, initiator, ballots, received, seen, cast, outcomes>>

\* The vote is appended to local_votes; after the snapshot nobody reads it.
ThreadVote(k, p) ==
  /\ thread[k][p] = "voting"
  /\ thread' = [thread EXCEPT ![k][p] = "done"]
  /\ IF k = round /\ stage = "joining"
       THEN \E pick \in Fallbacks(claims, {First(claims).cell}) :
              LET v == [type |-> "vote", id |-> k, voter |-> p,
                        choice |-> Ballot(claims, pick)]
              IN  /\ ballots' = ballots \cup {v}
                  /\ cast' = cast \cup {v}
       ELSE UNCHANGED <<ballots, cast>>
  /\ UNCHANGED <<round, stage, claims, initiator, inbox, received, seen, outcomes>>

Join_NoWait ==
  /\ stage = "joining"
  /\ stage' = "collecting"
  /\ UNCHANGED <<round, claims, initiator, thread, ballots, inbox, received, seen,
                 cast, outcomes>>

Join_NoTimeout ==
  /\ stage = "joining"
  /\ \A p \in Peer : thread[round][p] = "done"
  /\ stage' = "collecting"
  /\ UNCHANGED <<round, claims, initiator, thread, ballots, inbox, received, seen,
                 cast, outcomes>>

\* Every thread was joined or its join timed out: the snapshot is taken.
Join ==
  /\ stage = "joining"
  /\ \A p \in Peer \ stalling : thread[round][p] = "done"
  /\ stage' = "collecting"
  /\ UNCHANGED <<round, claims, initiator, thread, ballots, inbox, received, seen,
                 cast, outcomes>>

\* The votes of the snapshot are published one by one, to every inbox.
PublishVote ==
  /\ stage = "collecting"
  /\ \E v \in ballots :
       /\ ballots' = ballots \ {v}
       /\ inbox' = [p \in Peer |-> inbox[p] \cup {v}]
  /\ UNCHANGED <<round, stage, claims, initiator, thread, received, seen, cast, outcomes>>

-----------------------------------------------------------------------------
Collecting == stage = "collecting" /\ ballots = {}

Waiting == {v \in inbox[initiator] : v.type = "vote" /\ v.id = round}

\* _collect_quorum_votes, one poll: this contest's votes leave the initiator's
\* inbox, and count unless that voter was seen in this contest before.
Collect ==
  /\ Collecting
  /\ Cardinality(received) < Quorum
  /\ Waiting # {}
  /\ inbox' = [inbox EXCEPT ![initiator] = @ \ Waiting]
  /\ received' = received \cup {v \in Waiting : <<v.id, v.voter>> \notin seen}
  /\ seen' = seen \cup {<<v.id, v.voter>> : v \in Waiting}
  /\ UNCHANGED <<round, stage, claims, initiator, thread, ballots, cast, outcomes>>

\* resolve_claims returns or raises: with the votes of a quorum; short of it
\* with votes of its own making; without any vote, not at all.
Return(kind, votes, lead) ==
  /\ stage' = IF kind = "raised" THEN "raised" ELSE "idle"
  /\ outcomes' = outcomes \cup {[id |-> round, claims |-> claims, initiator |-> initiator,
                                 kind |-> kind, votes |-> votes, lead |-> lead]}
  /\ UNCHANGED <<round, claims, initiator, thread, ballots, inbox, received, seen, cast>>

\* A majority for another drone than the lead puts that drone first.
ReturnVoted ==
  /\ Collecting
  /\ Cardinality(received) >= Quorum
  /\ LET choice == Majority(received, LeadOf(claims))
     IN  Return("voted", received,
                IF choice # Split /\ choice \in Claimants(claims) THEN choice
                                                                  ELSE LeadOf(claims))

\* The deadline passed with the inbox empty of votes.
ReturnFabricated ==
  /\ Collecting
  /\ Cardinality(received) \in 1 .. Quorum - 1
  /\ Waiting = {}
  /\ Return("fabricated", Fabricated(round, claims), LeadOf(claims))

Raise ==
  /\ Collecting
  /\ received = {}
  /\ Waiting = {}
  /\ Return("raised", {}, LeadOf(claims))

-----------------------------------------------------------------------------
Main == \/ Join
        \/ PublishVote
        \/ Collect
        \/ ReturnVoted
        \/ ReturnFabricated
        \/ Raise

Voter(p) == \E k \in RoundNo : ThreadPoll(k, p) \/ ThreadVote(k, p)

Next ==
  /\ \/ ResolveSingle
     \/ Announce
     \/ Main
     \/ \E p \in Peer : Voter(p)
  /\ UNCHANGED stalling

\* The calling thread runs, and so does every voter that does not stall.
Spec ==
  /\ Init
  /\ [][Next]_vars
  /\ WF_vars(Main /\ UNCHANGED stalling)
  /\ \A p \in Peer : WF_vars(p \notin stalling /\ Voter(p) /\ UNCHANGED stalling)
-----------------------------------------------------------------------------
\* A round returned with collected votes rests on more than half of the peers,
\* each of which cast that vote in that contest, although late threads empty
\* inboxes and old votes stay in them (_collect_quorum_votes).
RealQuorum ==
  \A o \in outcomes : o.kind = "voted" =>
    /\ 2 * Cardinality({v.voter : v \in o.votes}) > Cardinality(Peer)
    /\ o.votes \subseteq {v \in cast : v.id = o.id}

\* Voting never changes who leads the assignments: the voters' own maps change
\* only fallbacks, so the branch that reorders on a majority is never taken.
LeadStands ==
  \A o \in outcomes : o.lead = LeadOf(o.claims)

\* A minority of stalling voters, the initiator not among them, never costs a
\* contest its real quorum: neither in the contest they overrun nor in a later
\* one whose announcement their late poll takes away.
MinorityStallHarmless ==
  \A o \in outcomes :
    /\ Cardinality(o.claims) > 1
    /\ o.initiator \notin stalling
    /\ Cardinality(stalling) <= Cardinality(Peer) - Quorum
    => o.kind = "voted"

\* resolve_claims ends, whichever vote threads hang: no join or wait of it is
\* without a timeout.
ResolveEnds == stage = "joining" ~> stage \in {"idle", "raised"}

\* The votes a contested round is published with were cast by the peers they
\* name.
VotesWereCast ==
  \A o \in outcomes : Cardinality(o.claims) > 1 => o.votes \subseteq cast
=============================================================================
