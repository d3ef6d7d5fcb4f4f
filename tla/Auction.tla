------------------------------ MODULE Auction ------------------------------
(***************************************************************************)
(* auction/protocol.py: who gets a contested cell.                         *)
(*                                                                         *)
(* resolve_conflict ranks the claims on one cell by timestamp, distance to *)
(* the cell and drone id.  The first claim wins it, unless the first two   *)
(* tie on timestamp and distance: then each gets one half.  Every other    *)
(* claim is sent to another cell, picked by the zone selector among the    *)
(* cells that are neither claimed nor already handed out.                  *)
(*                                                                         *)
(* Abstractions: a distance is a natural number, so isclose() is equality; *)
(* the certainty map and the selector (core/selector.py) are reduced to    *)
(* what they return, any one cell that is not excluded.  A claim id names  *)
(* its drone, cell and time, so a claim is its own id.                     *)
(***************************************************************************)
EXTENDS Naturals, FiniteSets

CONSTANTS
  Drone,   \* drone ids, ordered as the tie-break orders them
  Cell,    \* grid cells, ordered as sorted() orders them
  Dist,    \* distances from a drone to a cell
  None     \* no cell, no drone

ASSUME AuctionAssumption ==
  /\ Drone \subseteq Nat
  /\ Cell \subseteq Nat
  /\ Dist \subseteq Nat
  /\ None \notin Cell
  /\ None \notin Drone

Claim == [drone : Drone, cell : Cell, ts : Nat, dist : Dist]

Kind == {"winner", "left", "right", "fallback", "idle"}
Seat == [cell : Cell, kind : Kind]

\* The sort key (timestamp_ms, dist(position, cell), drone_id).
Precedes(a, b) ==
  \/ a.ts < b.ts
  \/ a.ts = b.ts /\ a.dist < b.dist
  \/ a.ts = b.ts /\ a.dist = b.dist /\ a.drone < b.drone

Rank(c, S) == Cardinality({d \in S : Precedes(d, c)})

\* winner and runner_up tie: the cell is split between them.
Tied(S) ==
  \E a, b \in S : /\ Rank(a, S) = 0
                  /\ Rank(b, S) = 1
                  /\ a.ts = b.ts
                  /\ a.dist = b.dist

Losers(S) == {c \in S : Rank(c, S) > (IF Tied(S) THEN 1 ELSE 0)}

\* Cells left for loser c: not reserved, not picked for a loser ranked before it.
FreeFor(c, S, pick, reserved) ==
  Cell \ (reserved \cup {pick[d] : d \in {e \in Losers(S) : Precedes(e, c)}})

\* What _fallback_assignments may pick: None stands for "idle".
Fallbacks(S, reserved) ==
  {pick \in [Losers(S) -> Cell \cup {None}] :
     \A c \in Losers(S) :
        LET free == FreeFor(c, S, pick, reserved)
        IN  IF free = {} THEN pick[c] = None ELSE pick[c] \in free}

\* The ZoneAssignment of claim c of a contest S.
SeatOf(c, S, pick) ==
  IF c \in Losers(S)
    THEN IF pick[c] = None THEN [cell |-> c.cell, kind |-> "idle"]
                           ELSE [cell |-> pick[c], kind |-> "fallback"]
    ELSE [cell |-> c.cell,
          kind |-> IF ~Tied(S) THEN "winner"
                   ELSE IF Rank(c, S) = 0 THEN "left" ELSE "right"]

\* Assignments are applied in rank order, so a drone with several claims in
\* one contest keeps the seat of its last one.
LastClaim(d, S) ==
  CHOOSE c \in S : /\ c.drone = d
                   /\ \A e \in S : e.drone = d => ~Precedes(c, e)

Claimants(S) == {c.drone : c \in S}

\* resolve_conflict as its callers see it: what each claimant ends up with.
Award(S, pick) == [d \in Claimants(S) |-> SeatOf(LastClaim(d, S), S, pick)]
=============================================================================
