----------------------------- MODULE RosContest -----------------------------
(***************************************************************************)
(* The contests of the ROS 2 drones, drone_node.py: every drone claims its *)
(* target in every tick, every node keeps the claimants of each cell, and  *)
(* the smallest claimant's node publishes who stays and who moves one cell *)
(* to the right.  All drones are launched with the same target.            *)
(*                                                                         *)
(* Abstractions.  Only the row of the target, since a fallback stays in it.*)
(* A claim arrives before its drone's next one, perhaps after the drone was*)
(* given another target; a result arrives before the next tick of a drone  *)
(* it names.  A claim's time is left out: a tick may trim any claimant that*)
(* no longer claims the cell, and none that does (30 s against a claim in  *)
(* every tick).  Round numbers, which nobody reads, telemetry, survivor    *)
(* messages and the control of the tick length are left out; 256 claimed   *)
(* cells do not occur in one row of the grid.                              *)
(*                                                                         *)
(* The names that every specification has carry a prefix, because the      *)
(* proofs share a module with those about LiveControl.                     *)
(***************************************************************************)
EXTENDS Integers, FiniteSets

CONSTANTS
  Drone,     \* the drones, in the order of their ids
  Start,     \* x of the launch parameter target
  Edge,      \* grid - 1
  MayFail,   \* drones launched with fail_at
  None       \* no contest yet

ASSUME RosContestAssumption ==
  /\ Drone \subseteq Nat /\ IsFiniteSet(Drone)
  /\ Start \in Nat /\ Edge \in Nat /\ Start <= Edge
  /\ MayFail \subseteq Drone

Cell == 0 .. Edge
\* The largest drone decides nothing: what its node knows is left out.
Node == {d \in Drone : \E e \in Drone : d < e}

Contest == [cell : Cell, contenders : SUBSET Drone]

ASSUME NoneAssumption == None \notin Contest \cup Cell

VARIABLES
  target,    \* _target
  failed,    \* _failed
  claims,    \* _claims: claims[d][c], the claimants of c that d knows
  last,      \* _last_result_contest_id
  sent,      \* the cell of each drone's latest claim
  resultsIn  \* results on their way to the drones they name

rosVars == <<target, failed, claims, last, sent, resultsIn>>

\* Every variable keeps its type: no result sends a drone off the grid.
RosTypeOK ==
  /\ target \in [Drone -> Cell]
  /\ failed \subseteq MayFail
  /\ claims \in [Node -> [Cell -> SUBSET Drone]]
  /\ last \in [Node -> Contest \cup {None}]
  /\ sent \in [Drone -> Cell \cup {None}]
  /\ resultsIn \in [Drone -> SUBSET Contest]

-----------------------------------------------------------------------------
Wins_Largest(d, S) == d \in S /\ \A e \in S : e <= d

Wins(d, S) == d \in S /\ \A e \in S : d <= e

\* The cell to the left, not stopped at the edge.
Fallback_Left(c) == c - 1

\* The cell to the right, or the cell itself at the edge.
Fallback(c) == IF c < Edge THEN c + 1 ELSE Edge

RosInit ==
  /\ target = [d \in Drone |-> Start]
  /\ failed = {}
  /\ claims = [d \in Node |-> [c \in Cell |-> {}]]
  /\ last = [d \in Node |-> None]
  /\ sent = [d \in Drone |-> None]
  /\ resultsIn = [d \in Drone |-> {}]

\* Claimants in d's map that have stopped claiming the cell.
Outdated(d, c) == {e \in claims[d][c] : e \in failed \/ target[e] # c}

\* _tick: claim the target on every node, the own one included, and trim.
Tick(d) ==
  /\ d \notin failed /\ resultsIn[d] = {}
  /\ sent' = [sent EXCEPT ![d] = target[d]]
  /\ \/ d \notin Node /\ UNCHANGED claims
     \/ /\ d \in Node
        /\ \E c \in Cell : \E gone \in SUBSET Outdated(d, c) :
             claims' = [claims EXCEPT ![d][c] = @ \ gone]
  /\ UNCHANGED <<target, failed, last, resultsIn>>

\* The tick after fail_at: silent from now on, but the callbacks still run.
Fail(d) ==
  /\ d \in MayFail \ failed
  /\ failed' = failed \cup {d}
  /\ UNCHANGED <<target, claims, last, sent, resultsIn>>

\* _derive_contest_id
ContestOf(c, S) == [cell |-> c, contenders |-> S]

\* Only the smallest of at least two claimants decides, ...
Decides(d, S) == Cardinality(S) > 1 /\ Wins(d, S)

\* _on_claim: ... and only a contest other than its last one.
OnClaim(d, e, c) ==
  LET S == claims[d][c] \cup {e}
      contest == ContestOf(c, S)
  IN  /\ c = sent[e]
      /\ claims' = [claims EXCEPT ![d][c] = S]
      /\ IF Decides(d, S) /\ contest # last[d]
           THEN /\ last' = [last EXCEPT ![d] = contest]
                /\ resultsIn' = [f \in Drone |->
                     resultsIn[f] \cup {r \in {[cell |-> c, contenders |-> S]} : f \in S}]
           ELSE UNCHANGED <<last, resultsIn>>
      /\ UNCHANGED <<target, failed, sent>>

\* _on_consensus_result: the assignment that names this drone.
OnResult(d, r) ==
  /\ resultsIn' = [resultsIn EXCEPT ![d] = @ \ {r}]
  /\ target' = [target EXCEPT ![d] = IF Wins(d, r.contenders) THEN r.cell
                                                              ELSE Fallback(r.cell)]
  /\ UNCHANGED <<failed, claims, last, sent>>

RosNext ==
  \E d \in Drone :
    \/ Tick(d)
    \/ Fail(d)
    \/ d \in Node /\ \E e \in Drone, c \in Cell : OnClaim(d, e, c)
    \/ \E r \in resultsIn[d] : OnResult(d, r)

RosSpec == RosInit /\ [][RosNext]_rosVars

-----------------------------------------------------------------------------
Rank(d) == Cardinality({e \in Drone : e < d})

\* A drone is pushed no further than the smaller drones can push it, each by one
\* cell, whatever claims are trimmed or late and whoever decides twice: the
\* swarm spreads over no more cells than it has drones.
PushedByRank == \A d \in Drone : target[d] <= Start + Rank(d)
=============================================================================
