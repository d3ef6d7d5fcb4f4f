--------------------------- MODULE Auction_proofs ---------------------------
(***************************************************************************)
(* What a contest decided by resolve_conflict guarantees, for any finite   *)
(* set of claims: every claimant gets a well-formed seat, the ranking has  *)
(* no ties but on equal keys, and no cell is handed out twice.             *)
(***************************************************************************)
EXTENDS Auction, FiniteSetTheorems, WellFoundedInduction, TLAPS

\* A set of natural numbers has a least element.
LEMMA LeastNat ==
  ASSUME NEW T \in SUBSET Nat, T # {}
  PROVE  \E x \in T : \A y \in T : x <= y
<1>1. PICK x \in T : \A y \in T : <<y, x>> \notin OpToRel(<, Nat)
  BY NatLessThanWellFounded, WFMin
<1>2. \A y \in T : ~(y < x)
  BY <1>1 DEF OpToRel
<1>3. QED
  BY <1>2

\* The sort key orders claims strictly.
LEMMA PrecedesStrict ==
  /\ \A a \in Claim : ~Precedes(a, a)
  /\ \A a, b, c \in Claim : Precedes(a, b) /\ Precedes(b, c) => Precedes(a, c)
<1>1. \A c \in Claim : c.ts \in Nat /\ c.dist \in Nat /\ c.drone \in Nat
  BY AuctionAssumption DEF Claim
<1>2. QED
  BY <1>1 DEF Precedes

\* Two claims on one cell never compare equal: the drone id settles it.
LEMMA PrecedesTotal ==
  ASSUME NEW a \in Claim, NEW b \in Claim, a.cell = b.cell, a # b
  PROVE  Precedes(a, b) \/ Precedes(b, a)
<1>1. /\ a.ts \in Nat /\ a.dist \in Nat /\ a.drone \in Nat
      /\ b.ts \in Nat /\ b.dist \in Nat /\ b.drone \in Nat
  BY AuctionAssumption DEF Claim
<1>2. ~(a.drone = b.drone /\ a.ts = b.ts /\ a.dist = b.dist)
  <2>1. /\ a = [drone |-> a.drone, cell |-> a.cell, ts |-> a.ts, dist |-> a.dist]
        /\ b = [drone |-> b.drone, cell |-> b.cell, ts |-> b.ts, dist |-> b.dist]
    BY DEF Claim
  <2>2. QED
    BY <2>1
<1>3. QED
  BY <1>1, <1>2 DEF Precedes

\* A drone that claims at all has a last claim.
LEMMA LastClaimIn ==
  ASSUME NEW S \in SUBSET Claim, IsFiniteSet(S), NEW d \in Claimants(S)
  PROVE  LastClaim(d, S) \in S /\ LastClaim(d, S).drone = d
<1> DEFINE M == {c \in S : c.drone = d}
           After(c) == {e \in M : Precedes(c, e)}
           Sizes == {Cardinality(After(c)) : c \in M}
<1>1. M # {}
  BY DEF Claimants
<1>2. \A c \in M : IsFiniteSet(After(c)) /\ Cardinality(After(c)) \in Nat
  <2> TAKE c \in M
  <2>1. After(c) \in SUBSET S
    OBVIOUS
  <2>2. QED
    BY <2>1, FS_Subset, FS_CardinalityType
<1>3. PICK n \in Sizes : \A m \in Sizes : n <= m
  <2>1. Sizes \in SUBSET Nat /\ Sizes # {}
    BY <1>1, <1>2
  <2> HIDE DEF Sizes
  <2>2. QED
    BY <2>1, LeastNat
<1>4. PICK c \in M : n = Cardinality(After(c))
  OBVIOUS
<1>5. \A e \in M : ~Precedes(c, e)
  <2> SUFFICES ASSUME NEW e \in M, Precedes(c, e)
               PROVE  FALSE
    OBVIOUS
  <2>1. After(e) \in SUBSET After(c)
    BY PrecedesStrict
  <2>2. e \in After(c) /\ e \notin After(e)
    BY PrecedesStrict
  <2>3. Cardinality(After(e)) # Cardinality(After(c))
    BY <1>2, <2>1, <2>2, FS_Subset
  <2>4. Cardinality(After(e)) <= Cardinality(After(c))
    BY <1>2, <2>1, FS_Subset
  <2>5. Cardinality(After(c)) <= Cardinality(After(e))
    BY <1>3, <1>4
  <2>6. /\ Cardinality(After(c)) \in Nat
        /\ Cardinality(After(e)) \in Nat
    BY <1>2
  <2> HIDE DEF After
  <2>7. QED
    BY <2>3, <2>4, <2>5, <2>6
<1>6. \E x \in S : x.drone = d /\ \A e \in S : e.drone = d => ~Precedes(x, e)
  BY <1>5
<1>7. QED
  BY <1>6 DEF LastClaim

\* resolve_conflict gives every claimant a well-formed assignment.
THEOREM AwardType ==
  ASSUME NEW S \in SUBSET Claim, IsFiniteSet(S), NEW reserved,
         NEW pick \in Fallbacks(S, reserved)
  PROVE  Award(S, pick) \in [Claimants(S) -> Seat]
<1> SUFFICES ASSUME NEW d \in Claimants(S)
             PROVE  SeatOf(LastClaim(d, S), S, pick) \in Seat
  BY DEF Award
<1> DEFINE c == LastClaim(d, S)
<1>1. c \in S /\ c.cell \in Cell
  BY LastClaimIn DEF Claim
<1>2. pick \in [Losers(S) -> Cell \cup {None}]
  BY DEF Fallbacks
<1> HIDE DEF c
<1>3. SeatOf(c, S, pick) \in Seat
  BY <1>1, <1>2 DEF SeatOf, Seat, Kind
<1>4. QED
  BY <1>3 DEF c
-----------------------------------------------------------------------------
\* In a contest the rank of a claim counts the claims before it, so two claims
\* never have the same rank.
LEMMA RankInjective ==
  ASSUME NEW S \in SUBSET Claim, IsFiniteSet(S), NEW x, \A c \in S : c.cell = x,
         NEW a \in S, NEW b \in S, a # b
  PROVE  Rank(a, S) # Rank(b, S)
<1> DEFINE Before(c) == {e \in S : Precedes(e, c)}
<1>1. ASSUME NEW u \in S, NEW v \in S, Precedes(u, v)
      PROVE  Cardinality(Before(u)) # Cardinality(Before(v))
  <2>1. Before(u) \in SUBSET Before(v)
    BY <1>1, PrecedesStrict
  <2>2. u \in Before(v) /\ u \notin Before(u)
    BY <1>1, PrecedesStrict
  <2>3. IsFiniteSet(Before(v))
    <3>1. Before(v) \in SUBSET S
      OBVIOUS
    <3>2. QED
      BY <3>1, FS_Subset
  <2>4. QED
    BY <2>1, <2>2, <2>3, FS_Subset
<1>2. Precedes(a, b) \/ Precedes(b, a)
  BY PrecedesTotal
<1>3. Cardinality(Before(a)) # Cardinality(Before(b))
  BY <1>1, <1>2
<1>4. QED
  BY <1>3 DEF Rank

\* The halves of a split are two different halves, and nobody else is seated on
\* the contested cell.
LEMMA SeatsOnContested ==
  ASSUME NEW S \in SUBSET Claim, IsFiniteSet(S), NEW x, \A c \in S : c.cell = x,
         NEW pick, NEW a \in S \ Losers(S), NEW b \in S \ Losers(S), a # b
  PROVE  {SeatOf(a, S, pick).kind, SeatOf(b, S, pick).kind} = {"left", "right"}
<1>1. \A c \in S : Rank(c, S) \in Nat
  <2> TAKE c \in S
  <2>1. {e \in S : Precedes(e, c)} \in SUBSET S
    OBVIOUS
  <2>2. QED
    BY <2>1, FS_Subset, FS_CardinalityType DEF Rank
<1>2. Rank(a, S) # Rank(b, S)
  BY RankInjective
<1>3. Tied(S) /\ Rank(a, S) \in {0, 1} /\ Rank(b, S) \in {0, 1}
  <2>1. /\ ~(Rank(a, S) > (IF Tied(S) THEN 1 ELSE 0))
        /\ ~(Rank(b, S) > (IF Tied(S) THEN 1 ELSE 0))
    BY DEF Losers
  <2>2. Rank(a, S) \in Nat /\ Rank(b, S) \in Nat
    BY <1>1
  <2>3. QED
    BY <1>2, <2>1, <2>2
<1>4. /\ SeatOf(a, S, pick).kind = IF Rank(a, S) = 0 THEN "left" ELSE "right"
      /\ SeatOf(b, S, pick).kind = IF Rank(b, S) = 0 THEN "left" ELSE "right"
  BY <1>3 DEF SeatOf
<1>5. QED
  BY <1>2, <1>3, <1>4

\* The fallbacks of two losers differ, unless one of them is idle.
LEMMA PicksDiffer ==
  ASSUME NEW S \in SUBSET Claim, NEW x, \A c \in S : c.cell = x, NEW reserved,
         NEW pick \in Fallbacks(S, reserved),
         NEW a \in Losers(S), NEW b \in Losers(S), a # b, pick[a] # None
  PROVE  pick[a] # pick[b]
<1>1. a \in Claim /\ b \in Claim /\ a.cell = b.cell
  BY DEF Losers
<1>2. ASSUME NEW u \in Losers(S), NEW v \in Losers(S), Precedes(u, v), pick[v] # None
      PROVE  pick[u] # pick[v]
  <2>1. pick[v] \in FreeFor(v, S, pick, reserved)
    BY <1>2 DEF Fallbacks
  <2>2. pick[u] \in {pick[d] : d \in {e \in Losers(S) : Precedes(e, v)}}
    BY <1>2
  <2>3. QED
    BY <2>1, <2>2 DEF FreeFor
<1>3. CASE Precedes(a, b)
  BY <1>2, <1>3
<1>4. CASE Precedes(b, a)
  BY <1>2, <1>4
<1>5. QED
  BY <1>1, <1>3, <1>4, PrecedesTotal

\* One contest never hands a cell to two drones, except as the two halves of a
\* split: neither winner and loser nor two losers share a cell, even when a
\* drone has several claims in the contest (resolve_conflict).
THEOREM AwardExclusive ==
  ASSUME NEW S \in SUBSET Claim, IsFiniteSet(S), NEW x, \A c \in S : c.cell = x,
         NEW reserved, x \in reserved,
         NEW pick \in Fallbacks(S, reserved),
         NEW d \in Claimants(S), NEW e \in Claimants(S), d # e,
         Award(S, pick)[d].kind # "idle", Award(S, pick)[e].kind # "idle",
         Award(S, pick)[d].cell = Award(S, pick)[e].cell
  PROVE  {Award(S, pick)[d].kind, Award(S, pick)[e].kind} = {"left", "right"}
<1> DEFINE a == LastClaim(d, S)
           b == LastClaim(e, S)
<1>1. a \in S /\ b \in S /\ a # b
  BY LastClaimIn
<1>2. /\ Award(S, pick)[d] = SeatOf(a, S, pick)
      /\ Award(S, pick)[e] = SeatOf(b, S, pick)
  BY DEF Award
<1> HIDE DEF a, b
<1>3. \A c \in Losers(S) : pick[c] # x
  <2> TAKE c \in Losers(S)
  <2>1. x \notin FreeFor(c, S, pick, reserved)
    BY DEF FreeFor
  <2>2. x \in Cell
    BY DEF Losers, Claim
  <2>3. x # None
    BY <2>2, AuctionAssumption
  <2>4. QED
    BY <2>1, <2>3 DEF Fallbacks
<1>4. \A c \in S : IF c \in Losers(S)
                     THEN SeatOf(c, S, pick).kind # "idle"
                            => /\ SeatOf(c, S, pick).cell = pick[c]
                               /\ pick[c] # None
                     ELSE SeatOf(c, S, pick).cell = x
  BY DEF SeatOf
<1>5. CASE a \in Losers(S) /\ b \in Losers(S)
  BY <1>1, <1>2, <1>4, <1>5, PicksDiffer
<1>6. CASE a \in Losers(S) /\ b \notin Losers(S)
  BY <1>1, <1>2, <1>3, <1>4, <1>6
<1>7. CASE a \notin Losers(S) /\ b \in Losers(S)
  BY <1>1, <1>2, <1>3, <1>4, <1>7
<1>8. CASE a \notin Losers(S) /\ b \notin Losers(S)
  BY <1>1, <1>2, <1>8, SeatsOnContested
<1>9. QED
  BY <1>5, <1>6, <1>7, <1>8
=============================================================================
