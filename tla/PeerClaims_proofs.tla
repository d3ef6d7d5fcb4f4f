-------------------------- MODULE PeerClaims_proofs --------------------------
(***************************************************************************)
(* Invariants of the claim protocol for any number of peers and cells, any *)
(* cap, duration and failure plan, and either transport; and, for two      *)
(* peers in step without faults, that what is won has one owner.           *)
(***************************************************************************)
EXTENDS PeerClaims, Auction_proofs

USE DEF clock

\* A peer holds finitely many pending claims: what makes a contest decidable.
FinitePending == \A p \in Peer : IsFiniteSet(pending[p])

TypeInv == TypeOK /\ FinitePending

-----------------------------------------------------------------------------
LEMMA SentType == \A t \in Nat : Sent(t) \in Nat
BY DEF Sent

\* The delay is one tick or, over foxmq, two, and a claim expires at twice that.
LEMMA TickType ==
  ASSUME TypeOK, NEW p \in Peer
  PROVE  /\ now[p] \in Nat
         /\ tick[p] \in Nat /\ tick[p] >= 1 /\ lastTick[p] \in Nat /\ lastTick[p] >= 1
         /\ Transport = "foxmq" => Delay(p) = 2 * tick[p]
         /\ Transport # "foxmq" => Delay(p) = tick[p]
         /\ Delay(p) \in Nat /\ Delay(p) >= 1 /\ TTL(p) = 2 * Delay(p)
<1>1. /\ now[p] \in Nat
      /\ tick[p] \in Nat /\ tick[p] >= 1 /\ lastTick[p] \in Nat /\ lastTick[p] >= 1
  <2>1. tick[p] \in TickLengths /\ lastTick[p] \in TickLengths /\ now[p] \in Nat
    BY DEF TypeOK
  <2>2. \A n \in TickLengths : n \in Nat /\ n >= 1
    <3>1. \A n \in Nat \ {0} : n \in Nat /\ n >= 1
      OBVIOUS
    <3>2. QED
      BY <3>1, PeerClaimsAssumption
  <2>3. QED
    BY <2>1, <2>2
<1>2. CASE Transport = "foxmq"
  BY <1>1, <1>2 DEF Delay, TTL
<1>3. CASE Transport # "foxmq"
  BY <1>1, <1>3 DEF Delay, TTL
<1>4. QED
  BY <1>1, <1>2, <1>3

LEMMA ViewsType == Unassigned \in DroneView /\ Gone \in DroneView
BY DEF Unassigned, Gone, DroneView

\* Changing one field of a view keeps it a view.
LEMMA ViewExceptType ==
  ASSUME NEW v \in DroneView
  PROVE  /\ [v EXCEPT !.cell = None] \in DroneView
         /\ [v EXCEPT !.cell = None].cell = None
         /\ \A b \in BOOLEAN : [v EXCEPT !.alive = b] \in DroneView
         /\ \A b \in BOOLEAN : [v EXCEPT !.reachable = b] \in DroneView
         /\ \A b \in BOOLEAN : [v EXCEPT !.alive = b].cell = v.cell
         /\ \A b \in BOOLEAN : [v EXCEPT !.reachable = b].cell = v.cell
         /\ [v EXCEPT !.cell = None].alive = v.alive
         /\ \A b \in BOOLEAN : [v EXCEPT !.reachable = b].alive = v.alive
BY DEF DroneView

\* What is sent to a peer's inbox is a message.
LEMMA MessageType ==
  ASSUME NEW p \in Peer, NEW t \in Nat
  PROVE  /\ AliveMessage(p, t) \in Message
         /\ \A v \in DroneView : StateMessage(p, t, v) \in Message
         /\ \A c \in Claim : ClaimMessage(p, c) \in Message
         /\ \A r \in Round : now[p] \in Nat => RoundMessage(p, r) \in Message
<1>1. Sent(t) \in Nat /\ \A c \in Claim : Sent(c.ts) \in Nat
  BY SentType DEF Claim
<1>2. AliveMessage(p, t) \in Message
  BY <1>1 DEF AliveMessage, Message
<1>3. \A v \in DroneView : StateMessage(p, t, v) \in Message
  BY <1>1 DEF StateMessage, Message
<1>4. \A c \in Claim : ClaimMessage(p, c) \in Message
  BY <1>1 DEF ClaimMessage, Message
<1>5. \A r \in Round : now[p] \in Nat => RoundMessage(p, r) \in Message
  BY SentType DEF RoundMessage, Message
<1>6. QED
  BY <1>2, <1>3, <1>4, <1>5

LEMMA SendType ==
  ASSUME NEW p \in Peer, NEW ms \in SUBSET Message, Send(p, ms),
         net \in [Peer -> SUBSET Message]
  PROVE  net' \in [Peer -> SUBSET Message]
BY DEF Send

\* apply_round keeps the bookkeeping well typed and only removes claims.
LEMMA ApplyRoundType ==
  ASSUME TypeInv, NEW p \in Peer, NEW r \in Round, NEW counter \in Nat,
         ApplyRound(p, r, counter)
  PROVE  /\ roundId' \in [Peer -> Nat]
         /\ processed' \in [Peer -> SUBSET Nat]
         /\ pending' \in [Peer -> SUBSET Claim]
         /\ \A q \in Peer : pending'[q] \in SUBSET pending[q] /\ IsFiniteSet(pending'[q])
         /\ part' \in [Peer -> Kind \cup {None}]
<1> USE DEF TypeInv, TypeOK
<1>1. r.id \in Nat /\ r.award \in Awards
  BY DEF Round
<1>2. roundId' \in [Peer -> Nat]
  BY <1>1 DEF ApplyRound, Larger
<1>3. processed' \in [Peer -> SUBSET Nat]
  BY <1>1 DEF ApplyRound
<1>4. /\ pending' \in [Peer -> SUBSET Claim]
      /\ \A q \in Peer : pending'[q] \in SUBSET pending[q]
  <2>1. CASE pending' = pending
    BY <2>1
  <2>2. CASE pending' = [pending EXCEPT ![p] = {c \in @ : c.cell # r.cell}]
    BY <2>2
  <2>3. QED
    BY <2>1, <2>2 DEF ApplyRound
<1>5. \A q \in Peer : IsFiniteSet(pending'[q])
  BY <1>4, FS_Subset DEF FinitePending
<1>6. AppliedPart(p, r) \in Kind \cup {None}
  <2>1. \A q \in DOMAIN r.award : r.award[q] \in Seat
    BY <1>1 DEF Awards
  <2>2. QED
    BY <2>1 DEF AppliedPart, Seat
<1>7. part' \in [Peer -> Kind \cup {None}]
  BY <1>6 DEF ApplyRound
<1>8. QED
  BY <1>2, <1>3, <1>4, <1>5, <1>7

LEMMA ViewAfterType ==
  ASSUME TypeOK, NEW p \in Peer, NEW r \in Round
  PROVE  ViewAfter(p, r) \in [Peer -> DroneView]
<1>1. /\ view[p] \in [Peer -> DroneView]
      /\ r.award \in Awards
  BY DEF TypeOK, Round
<1>2. \A q \in DOMAIN r.award : r.award[q].cell \in Cell \cup {None}
  BY <1>1 DEF Awards, Seat
<1>3. ASSUME NEW q \in Peer
      PROVE  AppliedView(p, r)[q] \in DroneView
  <2> DEFINE base == IF q = r.released THEN Gone ELSE view[p][q]
             cell == IF r.award[q].kind = "idle" THEN None ELSE r.award[q].cell
  <2>1. base \in DroneView
    BY <1>1, ViewsType
  <2>2. q \in DOMAIN r.award => cell \in Cell \cup {None}
    BY <1>2
  <2>3. AppliedView(p, r)[q] = IF q \notin DOMAIN r.award THEN base
                               ELSE [base EXCEPT !.cell = cell]
    BY DEF AppliedView
  <2> HIDE DEF base, cell
  <2>4. QED
    BY <2>1, <2>2, <2>3 DEF DroneView
<1>4. AppliedView(p, r) \in [Peer -> DroneView]
  BY <1>3 DEF AppliedView
<1>5. QED
  BY <1>1, <1>4 DEF ViewAfter

LEMMA NextIdType ==
  ASSUME TypeOK, NEW p \in Peer
  PROVE  NextId(p) \in Nat
BY DEF TypeOK, NextId
-----------------------------------------------------------------------------
LEMMA InitType == Init => TypeInv
<1> SUFFICES ASSUME Init PROVE TypeInv
  OBVIOUS
<1>1. net \in [Peer -> SUBSET Message]
  <2>1. 0 \in Nat
    OBVIOUS
  <2>2. \A p \in Peer : UNION {{AliveMessage(q, 0), StateMessage(q, 0, Unassigned)} :
                                 q \in Peer \ {p}} \in SUBSET Message
    BY <2>1, MessageType, ViewsType
  <2>3. QED
    BY <2>2 DEF Init
<1>2. FinitePending
  BY FS_EmptySet DEF Init, FinitePending
<1>3. TypeOK
  BY <1>1, ViewsType DEF Init, TypeOK, Phase, Health
<1>4. QED
  BY <1>2, <1>3 DEF TypeInv

LEMMA StartTickType ==
  ASSUME TypeInv, NEW p \in Peer, NEW h \in Health, NEW own \in DroneView,
         NEW t \in TickLengths, NEW extra \in SUBSET Message, StartTick(p, t, h, own, extra)
  PROVE  TypeInv'
<1> USE DEF TypeInv
<1>1. now[p] + t \in Nat
  BY PeerClaimsAssumption DEF TypeOK
<1>2. extra \cup (IF own.alive THEN {AliveMessage(p, now[p] + t)} ELSE {})
        \in SUBSET Message
  BY <1>1, MessageType
<1>3. net' \in [Peer -> SUBSET Message]
  BY <1>2, SendType DEF StartTick, TypeOK
<1>4. /\ now' \in [Peer -> Nat] /\ phase' \in [Peer -> Phase] /\ health' \in [Peer -> Health]
      /\ tick' \in [Peer -> TickLengths] /\ lastTick' \in [Peer -> TickLengths]
  BY <1>1 DEF StartTick, TypeOK, Phase
<1>5. view' \in [Peer -> [Peer -> DroneView]]
  BY DEF StartTick, TypeOK
<1>6. UNCHANGED <<roundId, processed, pending, resolved, released, part, decided>>
  BY DEF StartTick
<1>7. TypeOK'
  BY <1>3, <1>4, <1>5, <1>6 DEF TypeOK
<1>8. FinitePending'
  BY <1>6 DEF FinitePending
<1>9. QED
  BY <1>7, <1>8

LEMMA ReleaseRoundType ==
  ASSUME TypeInv, NEW p \in Peer, NEW q \in Peer, view[p][q].cell # None
  PROVE  ReleaseRound(p, q) \in Round
<1>1. view[p][q].cell \in Cell
  BY DEF TypeInv, TypeOK, DroneView
<1>2. [d \in {} |-> None] \in Awards
  BY DEF Awards
<1>3. QED
  BY <1>1, <1>2, NextIdType DEF Round, ReleaseRound, TypeInv

\* The two cases of DetectStale: a round releases the cell of q, or there is
\* nothing to release.
LEMMA DetectStaleEffect ==
  ASSUME NEW p \in Peer, NEW q \in Peer, DetectStale(p, q)
  PROVE  /\ p # q
         /\ phase[p] = "watch"
         /\ UNCHANGED <<clock, phase, health, resolved>>
         /\ \/ /\ view[p][q].cell # None
               /\ ApplyRound(p, ReleaseRound(p, q), NextId(p))
               /\ view' = [view EXCEPT ![p] = [ViewAfter(p, ReleaseRound(p, q))
                                                 EXCEPT ![q] = Gone]]
               /\ released' = [released EXCEPT ![p] = @ \cup {q}]
               /\ Send(p, {RoundMessage(p, ReleaseRound(p, q))})
               /\ decided' = decided \cup {Decided(p, {}, q)}
            \/ /\ view' = [view EXCEPT ![p][q] = Gone]
               /\ UNCHANGED <<roundId, processed, pending, part, released, net, decided>>
BY DEF DetectStale

LEMMA DetectStaleType ==
  ASSUME TypeInv, NEW p \in Peer, NEW q \in Peer, DetectStale(p, q)
  PROVE  TypeInv'
<1> USE DEF TypeInv
<1>1. UNCHANGED <<clock, phase, health, resolved>>
  BY DetectStaleEffect
<1>2. CASE /\ view[p][q].cell # None
           /\ ApplyRound(p, ReleaseRound(p, q), NextId(p))
           /\ view' = [view EXCEPT ![p] = [ViewAfter(p, ReleaseRound(p, q))
                                             EXCEPT ![q] = Gone]]
           /\ released' = [released EXCEPT ![p] = @ \cup {q}]
           /\ Send(p, {RoundMessage(p, ReleaseRound(p, q))})
           /\ decided' = decided \cup {Decided(p, {}, q)}
  <2>1. ReleaseRound(p, q) \in Round
    BY <1>2, ReleaseRoundType
  <2>2. /\ roundId' \in [Peer -> Nat]
        /\ processed' \in [Peer -> SUBSET Nat]
        /\ pending' \in [Peer -> SUBSET Claim]
        /\ \A d \in Peer : IsFiniteSet(pending'[d])
        /\ part' \in [Peer -> Kind \cup {None}]
    BY <1>2, <2>1, ApplyRoundType, NextIdType
  <2>3. view' \in [Peer -> [Peer -> DroneView]]
    BY <1>2, <2>1, ViewAfterType, ViewsType DEF TypeOK
  <2>4. released' \in [Peer -> SUBSET Peer]
    BY <1>2 DEF TypeOK
  <2>5. net' \in [Peer -> SUBSET Message]
    <3>1. RoundMessage(p, ReleaseRound(p, q)) \in Message
      BY <2>1, MessageType DEF TypeOK
    <3>2. QED
      BY <1>2, <3>1, SendType DEF TypeOK
  <2>6. decided' \subseteq Decision
    BY <1>2, NextIdType DEF TypeOK, Decision, Decided
  <2>7. TypeOK'
    BY <1>1, <2>2, <2>3, <2>4, <2>5, <2>6 DEF TypeOK
  <2>8. QED
    BY <2>2, <2>7 DEF FinitePending
<1>3. CASE /\ view' = [view EXCEPT ![p][q] = Gone]
           /\ UNCHANGED <<roundId, processed, pending, part, released, net, decided>>
  <2>1. view' \in [Peer -> [Peer -> DroneView]]
    BY <1>3, ViewsType DEF TypeOK
  <2>2. TypeOK'
    BY <1>1, <1>3, <2>1 DEF TypeOK
  <2>3. QED
    BY <1>3, <2>2 DEF FinitePending
<1>4. QED
  BY <1>2, <1>3, DetectStaleEffect

LEMMA ReceiveType ==
  ASSUME TypeInv, NEW p \in Peer, Receive(p)
  PROVE  TypeInv'
<1> USE DEF TypeInv
<1>1. PICK m \in net[p] : \/ HandleAlive(p, m)
                          \/ HandleDroneState(p, m)
                          \/ HandleClaim(p, m)
                          \/ HandleRound(p, m)
  BY DEF Receive
<1>2. m \in Message /\ m.from \in Peer
  BY DEF TypeOK, Message
<1>3. Take(p, m)
  BY <1>1 DEF HandleAlive, HandleDroneState, HandleClaim, HandleRound
<1>4. /\ net' \in [Peer -> SUBSET Message]
      /\ phase' \in [Peer -> Phase]
      /\ UNCHANGED <<clock, health, resolved, released, decided>>
  BY <1>3 DEF Take, TypeOK, Phase
<1>5. CASE HandleAlive(p, m)
  <2>1. view' \in [Peer -> [Peer -> DroneView]]
    <3> DEFINE v == [view[p] EXCEPT ![m.from].alive = TRUE, ![m.from].reachable = TRUE]
    <3>1. v \in [Peer -> DroneView]
      <4> DEFINE w == [view[p][m.from] EXCEPT !.alive = TRUE]
      <4>1. view[p] \in [Peer -> DroneView] /\ view[p][m.from] \in DroneView
        BY <1>2 DEF TypeOK
      <4>2. w \in DroneView
        BY <4>1, ViewExceptType
      <4>3. [w EXCEPT !.reachable = TRUE] \in DroneView
        BY <4>2, ViewExceptType
      <4>4. v = [view[p] EXCEPT ![m.from] = [w EXCEPT !.reachable = TRUE]]
        BY <1>2, <4>1
      <4> HIDE DEF w, v
      <4>5. QED
        BY <4>1, <4>3, <4>4
    <3>2. view' = [view EXCEPT ![p] = v]
      BY <1>2, <1>5 DEF HandleAlive, TypeOK
    <3>3. QED
      BY <3>1, <3>2 DEF TypeOK
  <2>2. UNCHANGED <<roundId, processed, pending, part>>
    BY <1>5 DEF HandleAlive
  <2>3. TypeOK'
    BY <1>4, <2>1, <2>2 DEF TypeOK
  <2>4. QED
    BY <2>2, <2>3 DEF FinitePending
<1>6. CASE HandleDroneState(p, m)
  <2>1. m.view \in DroneView
    BY <1>2, <1>6 DEF HandleDroneState, Message
  <2>2. view' \in [Peer -> [Peer -> DroneView]]
    BY <1>2, <1>6, <2>1 DEF HandleDroneState, TypeOK
  <2>3. UNCHANGED <<roundId, processed, pending, part>>
    BY <1>6 DEF HandleDroneState
  <2>4. TypeOK'
    BY <1>4, <2>2, <2>3 DEF TypeOK
  <2>5. QED
    BY <2>3, <2>4 DEF FinitePending
<1>7. CASE HandleClaim(p, m)
  <2>1. m.claim \in Claim
    BY <1>2, <1>7 DEF HandleClaim, Message
  <2>2. /\ pending' = [pending EXCEPT ![p] = IF m.claim \in resolved[p] THEN @
                                             ELSE @ \cup {m.claim}]
        /\ UNCHANGED <<roundId, processed, view, part>>
    BY <1>7 DEF HandleClaim
  <2>3. pending' \in [Peer -> SUBSET Claim]
    BY <2>1, <2>2 DEF TypeOK
  <2>4. TypeOK'
    BY <1>4, <2>2, <2>3 DEF TypeOK
  <2>5. FinitePending'
    BY <2>2, FS_AddElement DEF FinitePending, TypeOK
  <2>6. QED
    BY <2>4, <2>5
<1>8. CASE HandleRound(p, m)
  <2>1. m.round \in Round
    BY <1>2, <1>8 DEF HandleRound, Message
  <2>2. /\ ApplyRound(p, m.round, roundId[p])
        /\ view' = [view EXCEPT ![p] = ViewAfter(p, m.round)]
    BY <1>8 DEF HandleRound
  <2>3. /\ roundId' \in [Peer -> Nat]
        /\ processed' \in [Peer -> SUBSET Nat]
        /\ pending' \in [Peer -> SUBSET Claim]
        /\ \A d \in Peer : IsFiniteSet(pending'[d])
        /\ part' \in [Peer -> Kind \cup {None}]
    <3>1. roundId[p] \in Nat
      BY DEF TypeOK
    <3>2. QED
      BY <2>1, <2>2, <3>1, ApplyRoundType
  <2>4. view' \in [Peer -> [Peer -> DroneView]]
    BY <2>1, <2>2, ViewAfterType DEF TypeOK
  <2>5. TypeOK'
    BY <1>4, <2>3, <2>4 DEF TypeOK
  <2>6. QED
    BY <2>3, <2>5 DEF FinitePending
<1>9. QED
  BY <1>1, <1>5, <1>6, <1>7, <1>8

LEMMA BeginResolveType ==
  ASSUME TypeInv, NEW p \in Peer, BeginResolve(p)
  PROVE  TypeInv'
<1>1. pending' \in [Peer -> SUBSET Claim] /\ \A q \in Peer : pending'[q] \in SUBSET pending[q]
  BY DEF TypeInv, TypeOK, BeginResolve
<1>2. FinitePending'
  BY <1>1, FS_Subset DEF TypeInv, FinitePending
<1>3. TypeOK'
  BY <1>1 DEF TypeInv, TypeOK, BeginResolve, Phase
<1>4. QED
  BY <1>2, <1>3 DEF TypeInv

LEMMA ContestRoundType ==
  ASSUME TypeInv, NEW p \in Peer, NEW cell \in Cell, NEW S \in SUBSET Mature(p),
         NEW reserved, NEW pick \in Fallbacks(S, reserved)
  PROVE  ContestRound(p, cell, S, pick) \in Round
<1>1. S \in SUBSET Claim /\ IsFiniteSet(S)
  <2>1. S \in SUBSET pending[p] /\ pending[p] \in SUBSET Claim /\ IsFiniteSet(pending[p])
    BY DEF TypeInv, TypeOK, FinitePending, Mature
  <2>2. QED
    BY <2>1, FS_Subset
<1>2. Award(S, pick) \in [Claimants(S) -> Seat]
  BY <1>1, AwardType
<1>3. Claimants(S) \in SUBSET Drone
  BY <1>1 DEF Claimants, Claim
<1>4. Award(S, pick) \in Awards
  BY <1>2, <1>3 DEF Awards
<1>5. QED
  BY <1>4, NextIdType DEF TypeInv, Round, ContestRound

\* What deciding one cell does, with the round it makes.
LEMMA ResolveCellEffect ==
  ASSUME TypeInv, NEW p \in Peer, ResolveCell(p)
  PROVE  /\ phase[p] = "resolve"
         /\ UNCHANGED <<clock, phase, health, released>>
         /\ \E r \in Round, S \in SUBSET Claim :
              /\ r.released = None
              /\ ApplyRound(p, r, NextId(p))
              /\ view' = [view EXCEPT ![p] = ViewAfter(p, r)]
              /\ Send(p, {RoundMessage(p, r)})
              /\ resolved' = [resolved EXCEPT ![p] = @ \cup S]
              /\ decided' = decided \cup {Decided(p, S, None)}
<1>1. PICK cell \in Cell : LET S == {c \in Mature(p) : c.cell = cell} IN
        /\ \E pick \in Fallbacks(S, Owned(view[p]) \cup {cell}) :
              LET r == ContestRound(p, cell, S, pick)
              IN  /\ ApplyRound(p, r, NextId(p))
                  /\ view' = [view EXCEPT ![p] = ViewAfter(p, r)]
                  /\ Send(p, {RoundMessage(p, r)})
        /\ resolved' = [resolved EXCEPT ![p] = @ \cup S]
        /\ decided' = decided \cup {Decided(p, S, None)}
  BY DEF ResolveCell
<1> DEFINE S == {c \in Mature(p) : c.cell = cell}
<1>2. PICK pick \in Fallbacks(S, Owned(view[p]) \cup {cell}) :
        LET r == ContestRound(p, cell, S, pick)
        IN  /\ ApplyRound(p, r, NextId(p))
            /\ view' = [view EXCEPT ![p] = ViewAfter(p, r)]
            /\ Send(p, {RoundMessage(p, r)})
  BY <1>1
<1>3. /\ resolved' = [resolved EXCEPT ![p] = @ \cup S]
      /\ decided' = decided \cup {Decided(p, S, None)}
  BY <1>1
<1>4. S \in SUBSET Mature(p) /\ S \in SUBSET Claim
  BY DEF Mature, TypeInv, TypeOK
<1> HIDE DEF S
<1>5. /\ ContestRound(p, cell, S, pick) \in Round
      /\ ContestRound(p, cell, S, pick).released = None
  BY <1>4, ContestRoundType DEF ContestRound
<1>6. phase[p] = "resolve" /\ UNCHANGED <<clock, phase, health, released>>
  BY DEF ResolveCell
<1>7. QED
  BY <1>2, <1>3, <1>4, <1>5, <1>6

LEMMA ResolveCellType ==
  ASSUME TypeInv, NEW p \in Peer, ResolveCell(p)
  PROVE  TypeInv'
<1> USE DEF TypeInv
<1>1. UNCHANGED <<clock, phase, health, released>>
  BY ResolveCellEffect
<1>2. PICK r \in Round, S \in SUBSET Claim :
        /\ ApplyRound(p, r, NextId(p))
        /\ view' = [view EXCEPT ![p] = ViewAfter(p, r)]
        /\ Send(p, {RoundMessage(p, r)})
        /\ resolved' = [resolved EXCEPT ![p] = @ \cup S]
        /\ decided' = decided \cup {Decided(p, S, None)}
  BY ResolveCellEffect
<1>3. /\ roundId' \in [Peer -> Nat]
      /\ processed' \in [Peer -> SUBSET Nat]
      /\ pending' \in [Peer -> SUBSET Claim]
      /\ \A d \in Peer : IsFiniteSet(pending'[d])
      /\ part' \in [Peer -> Kind \cup {None}]
  BY <1>2, ApplyRoundType, NextIdType
<1>4. view' \in [Peer -> [Peer -> DroneView]]
  BY <1>2, ViewAfterType DEF TypeOK
<1>5. net' \in [Peer -> SUBSET Message]
  <2>1. RoundMessage(p, r) \in Message
    BY MessageType DEF TypeOK
  <2>2. QED
    BY <1>2, <2>1, SendType DEF TypeOK
<1>6. resolved' \in [Peer -> SUBSET Claim] /\ decided' \subseteq Decision
  BY <1>2, NextIdType DEF TypeOK, Decision, Decided
<1>7. TypeOK'
  BY <1>1, <1>3, <1>4, <1>5, <1>6 DEF TypeOK
<1>8. QED
  BY <1>3, <1>7 DEF FinitePending

LEMMA EndResolveType ==
  ASSUME TypeInv, NEW p \in Peer, EndResolve(p)
  PROVE  TypeInv'
<1>1. pending' \in [Peer -> SUBSET Claim] /\ \A q \in Peer : pending'[q] \in SUBSET pending[q]
  BY DEF TypeInv, TypeOK, EndResolve
<1>2. FinitePending'
  BY <1>1, FS_Subset DEF TypeInv, FinitePending
<1>3. processed' \in [Peer -> SUBSET Nat]
  <2>1. \A T : CappedRounds(T) \in SUBSET T
    BY DEF CappedRounds
  <2>2. QED
    BY <2>1 DEF TypeInv, TypeOK, EndResolve
<1>4. resolved' \in [Peer -> SUBSET Claim]
  <2>1. \A T : CappedClaims(T) \in SUBSET T
    BY DEF CappedClaims
  <2>2. QED
    BY <2>1 DEF TypeInv, TypeOK, EndResolve
<1>5. TypeOK'
  BY <1>1, <1>3, <1>4 DEF TypeInv, TypeOK, EndResolve, Phase
<1>6. QED
  BY <1>2, <1>5 DEF TypeInv

\* What a peer that acts may do: keep or clear its cell, claim at most one cell
\* of its own at its own time.
LEMMA ActEffect ==
  ASSUME TypeInv, NEW p \in Peer, Act(p)
  PROVE  \E own \in DroneView, claims \in SUBSET Claim :
           /\ own.cell \in {None, view[p][p].cell} /\ own.alive = view[p][p].alive
           /\ IsFiniteSet(claims)
           /\ \A c \in claims : c.drone = p /\ c.ts = now[p]
           /\ view' = [view EXCEPT ![p] = [view[p] EXCEPT ![p] = own]]
           /\ part' \in [Peer -> Kind \cup {None}]
           /\ pending' = [pending EXCEPT ![p] = @ \cup claims]
           /\ Send(p, {StateMessage(p, now[p], own)} \cup
                      {ClaimMessage(p, c) : c \in claims})
<1> USE DEF TypeInv
<1>0. PICK views \in Searched(p) : \E claims \in {{}} \cup {{c} : c \in Fresh(p, views)} :
        /\ view' = [view EXCEPT ![p] = views]
        /\ part' = IF views = view[p] THEN part ELSE [part EXCEPT ![p] = None]
        /\ pending' = [pending EXCEPT ![p] = @ \cup claims]
        /\ Send(p, {StateMessage(p, now[p], views[p])} \cup
                   {ClaimMessage(p, c) : c \in claims})
  BY DEF Act
<1>1. PICK claims \in {{}} \cup {{c} : c \in Fresh(p, views)} :
        /\ view' = [view EXCEPT ![p] = views]
        /\ part' = IF views = view[p] THEN part ELSE [part EXCEPT ![p] = None]
        /\ pending' = [pending EXCEPT ![p] = @ \cup claims]
        /\ Send(p, {StateMessage(p, now[p], views[p])} \cup
                   {ClaimMessage(p, c) : c \in claims})
  BY <1>0
<1>2. /\ views[p] \in DroneView
      /\ views[p].cell \in {None, view[p][p].cell}
      /\ views[p].alive = view[p][p].alive
      /\ views = [view[p] EXCEPT ![p] = views[p]]
  <2>1. view[p] \in [Peer -> DroneView]
    BY DEF TypeOK
  <2>2. CASE views = view[p]
    BY <2>1, <2>2
  <2>3. CASE views = [view[p] EXCEPT ![p] = [view[p][p] EXCEPT !.cell = None]]
    <3> DEFINE own == [view[p][p] EXCEPT !.cell = None]
    <3>1. own \in DroneView /\ own.cell = None /\ own.alive = view[p][p].alive
      BY <2>1, ViewExceptType
    <3> HIDE DEF own
    <3>2. QED
      BY <2>1, <2>3, <3>1 DEF own
  <2>4. QED
    BY <2>2, <2>3 DEF Searched
<1>3. \A c \in Fresh(p, views) : c \in Claim /\ c.drone = p /\ c.ts = now[p]
  BY DEF Fresh, Candidates, TypeOK, Peer, Claim
<1>4. claims = {} \/ \E c \in Fresh(p, views) : claims = {c}
  OBVIOUS
<1>5. IsFiniteSet(claims)
  BY <1>4, FS_EmptySet, FS_Singleton
<1>6. claims \in SUBSET Claim /\ \A c \in claims : c.drone = p /\ c.ts = now[p]
  BY <1>3, <1>4
<1>7. part' \in [Peer -> Kind \cup {None}]
  BY <1>1 DEF TypeOK
<1>8. QED
  BY <1>1, <1>2, <1>5, <1>6, <1>7

LEMMA ActType ==
  ASSUME TypeInv, NEW p \in Peer, Act(p)
  PROVE  TypeInv'
<1> USE DEF TypeInv
<1>1. PICK own \in DroneView, claims \in SUBSET Claim :
           /\ own.cell \in {None, view[p][p].cell} /\ own.alive = view[p][p].alive
           /\ IsFiniteSet(claims)
           /\ \A c \in claims : c.drone = p /\ c.ts = now[p]
           /\ view' = [view EXCEPT ![p] = [view[p] EXCEPT ![p] = own]]
           /\ part' \in [Peer -> Kind \cup {None}]
           /\ pending' = [pending EXCEPT ![p] = @ \cup claims]
           /\ Send(p, {StateMessage(p, now[p], own)} \cup
                      {ClaimMessage(p, c) : c \in claims})
  BY ActEffect
<1>2. net' \in [Peer -> SUBSET Message]
  <2>1. {StateMessage(p, now[p], own)} \cup {ClaimMessage(p, c) : c \in claims}
          \in SUBSET Message
    BY MessageType DEF TypeOK
  <2>2. QED
    BY <1>1, <2>1, SendType DEF TypeOK
<1>3. view' \in [Peer -> [Peer -> DroneView]] /\ pending' \in [Peer -> SUBSET Claim]
  BY <1>1 DEF TypeOK
<1>4. FinitePending'
  BY <1>1, FS_Union DEF FinitePending, TypeOK
<1>5. phase' \in [Peer -> Phase]
      /\ UNCHANGED <<clock, health, roundId, processed, resolved, released, decided>>
  BY DEF Act, TypeOK, Phase
<1>6. TypeOK'
  BY <1>1, <1>2, <1>3, <1>5 DEF TypeOK
<1>7. QED
  BY <1>4, <1>6

LEMMA NextType == TypeInv /\ [Next]_vars => TypeInv'
<1> SUFFICES ASSUME TypeInv, [Next]_vars PROVE TypeInv'
  OBVIOUS
<1>1. ASSUME NEW p \in Peer, NEW t \in TickLengths, BeginTick(p, t) PROVE TypeInv'
  <2>1. health[p] \in Health /\ view[p][p] \in DroneView
    BY DEF TypeInv, TypeOK
  <2>2. QED
    BY <1>1, <2>1, StartTickType DEF BeginTick
<1>2. ASSUME NEW p \in Peer, NEW t \in TickLengths, Fail(p, t) PROVE TypeInv'
  <2>1. /\ (IF FailureMode = "crash" THEN "degraded" ELSE "partitioned") \in Health
        /\ [view[p][p] EXCEPT !.reachable = FALSE] \in DroneView
    <3>1. view[p][p] \in DroneView
      BY DEF TypeInv, TypeOK
    <3>2. [view[p][p] EXCEPT !.reachable = FALSE] \in DroneView
      BY <3>1, ViewExceptType
    <3>3. QED
      BY <3>2 DEF Health
  <2>2. QED
    BY <1>2, <2>1, StartTickType DEF Fail
<1>3. ASSUME NEW p \in Peer, NEW t \in TickLengths, Reconnect(p, t) PROVE TypeInv'
  <2> DEFINE own == [view[p][p] EXCEPT !.reachable = TRUE]
  <2>1. own \in DroneView /\ "recovered" \in Health /\ now[p] + t \in Nat
    <3>1. view[p][p] \in DroneView /\ now[p] \in Nat /\ t \in Nat
      BY PeerClaimsAssumption DEF TypeInv, TypeOK
    <3>2. [view[p][p] EXCEPT !.reachable = TRUE] \in DroneView
      BY <3>1, ViewExceptType
    <3>3. QED
      BY <3>1, <3>2 DEF Health
  <2>2. StartTick(p, t, "recovered", own,
                  {AliveMessage(p, now[p] + t), StateMessage(p, now[p] + t, own)})
    BY <1>3 DEF Reconnect
  <2> HIDE DEF own
  <2>3. {AliveMessage(p, now[p] + t), StateMessage(p, now[p] + t, own)} \in SUBSET Message
    BY <2>1, MessageType
  <2>4. QED
    BY <2>1, <2>2, <2>3, StartTickType
<1>4. ASSUME UNCHANGED vars PROVE TypeInv'
  BY <1>4 DEF TypeInv, TypeOK, FinitePending, vars
<1>5. QED
  BY <1>1, <1>2, <1>3, <1>4, DetectStaleType, ReceiveType, BeginResolveType,
     ResolveCellType, EndResolveType, ActType DEF Next

LEMMA TypeInvariant == Spec => []TypeInv
<1>1. QED
  BY InitType, NextType, PTL DEF Spec

\* Every variable of the claim protocol keeps its type, for any instance.
THEOREM TypeCorrect == Spec => []TypeOK
<1>1. TypeInv => TypeOK
  BY DEF TypeInv
<1>2. QED
  BY <1>1, TypeInvariant, PTL
-----------------------------------------------------------------------------
(***************************************************************************)
(* Round numbers.  The counter of a peer only grows, bounds every number   *)
(* the peer has applied or given to a contest, and passes the number of a  *)
(* contest in the step that decides it.                                    *)
(***************************************************************************)

RoundsBelow == \A p \in Peer : \A id \in processed[p] : id <= roundId[p]

DecidedBelow == \A k \in decided : k.id <= roundId[k.by]

CounterInv == TypeInv /\ RoundsBelow /\ DecidedBelow /\ OwnIdsDiffer

\* What a step may do to the counters, the applied numbers and the decisions.
CounterStep ==
  /\ \A p \in Peer : roundId[p] <= roundId'[p]
  /\ \A p \in Peer : \A id \in processed'[p] : id \in processed[p] \/ id <= roundId'[p]
  /\ \/ decided' = decided
     \/ \E p \in Peer, S \in SUBSET Claim, q \in Peer \cup {None} :
          /\ decided' = decided \cup {Decided(p, S, q)}
          /\ NextId(p) <= roundId'[p]

LEMMA ApplyRoundCounter ==
  ASSUME TypeInv, NEW p \in Peer, NEW r \in Round, NEW counter \in Nat,
         roundId[p] <= counter, ApplyRound(p, r, counter)
  PROVE  /\ \A q \in Peer : roundId[q] <= roundId'[q]
         /\ \A q \in Peer : \A id \in processed'[q] : id \in processed[q] \/ id <= roundId'[q]
         /\ counter <= roundId'[p]
<1>1. r.id \in Nat /\ roundId \in [Peer -> Nat] /\ processed \in [Peer -> SUBSET Nat]
  BY DEF TypeInv, TypeOK, Round
<1>2. CASE r.id \in processed[p]
  BY <1>1, <1>2 DEF ApplyRound
<1>3. CASE r.id \notin processed[p]
  <2>1. /\ roundId' = [roundId EXCEPT ![p] = Larger(counter, r.id)]
        /\ processed' = [processed EXCEPT ![p] = @ \cup {r.id}]
    BY <1>3 DEF ApplyRound
  <2>2. /\ Larger(counter, r.id) \in Nat
        /\ counter <= Larger(counter, r.id)
        /\ r.id <= Larger(counter, r.id)
    BY <1>1 DEF Larger
  <2>3. QED
    BY <1>1, <2>1, <2>2
<1>4. QED
  BY <1>2, <1>3

LEMMA NextCounter == TypeInv /\ [Next]_vars => CounterStep
<1> SUFFICES ASSUME TypeInv, [Next]_vars PROVE CounterStep
  OBVIOUS
<1>0. /\ roundId \in [Peer -> Nat]
      /\ \A p \in Peer : NextId(p) \in Nat /\ roundId[p] <= NextId(p)
  BY DEF TypeInv, TypeOK, NextId
<1>1. ASSUME UNCHANGED <<roundId, processed, decided>> PROVE CounterStep
  BY <1>0, <1>1 DEF CounterStep
<1>2. ASSUME NEW p \in Peer, NEW t \in TickLengths,
             BeginTick(p, t) \/ Fail(p, t) \/ Reconnect(p, t)
      PROVE  CounterStep
  BY <1>1, <1>2 DEF BeginTick, Fail, Reconnect, StartTick
<1>2a. ASSUME NEW p \in Peer, BeginResolve(p) \/ Act(p) PROVE CounterStep
  BY <1>1, <1>2a DEF BeginResolve, Act
<1>3. ASSUME NEW p \in Peer, NEW q \in Peer, DetectStale(p, q) PROVE CounterStep
  <2>1. CASE /\ view[p][q].cell # None
             /\ ApplyRound(p, ReleaseRound(p, q), NextId(p))
             /\ decided' = decided \cup {Decided(p, {}, q)}
    <3>1. ReleaseRound(p, q) \in Round
      BY <2>1, ReleaseRoundType
    <3>2. {} \in SUBSET Claim
      OBVIOUS
    <3>3. QED
      BY <1>0, <2>1, <3>1, <3>2, ApplyRoundCounter DEF CounterStep
  <2>2. CASE UNCHANGED <<roundId, processed, decided>>
    BY <1>1, <2>2
  <2>3. QED
    BY <1>3, <2>1, <2>2, DetectStaleEffect
<1>4. ASSUME NEW p \in Peer, Receive(p) PROVE CounterStep
  <2>1. PICK m \in net[p] : \/ HandleAlive(p, m)
                            \/ HandleDroneState(p, m)
                            \/ HandleClaim(p, m)
                            \/ HandleRound(p, m)
    BY <1>4 DEF Receive
  <2>2. CASE HandleAlive(p, m) \/ HandleDroneState(p, m) \/ HandleClaim(p, m)
    BY <1>1, <2>2 DEF HandleAlive, HandleDroneState, HandleClaim, Take
  <2>3. CASE HandleRound(p, m)
    <3>1. m.round \in Round /\ roundId[p] \in Nat /\ roundId[p] <= roundId[p]
      BY <1>0, <2>3 DEF HandleRound, Message, TypeInv, TypeOK
    <3>2. ApplyRound(p, m.round, roundId[p]) /\ UNCHANGED decided
      BY <2>3 DEF HandleRound, Take
    <3>3. QED
      BY <3>1, <3>2, ApplyRoundCounter DEF CounterStep
  <2>4. QED
    BY <2>1, <2>2, <2>3
<1>5. ASSUME NEW p \in Peer, ResolveCell(p) PROVE CounterStep
  <2>1. PICK r \in Round, S \in SUBSET Claim :
          /\ ApplyRound(p, r, NextId(p))
          /\ decided' = decided \cup {Decided(p, S, None)}
    BY <1>5, ResolveCellEffect
  <2>2. QED
    BY <1>0, <2>1, ApplyRoundCounter DEF CounterStep
<1>6. ASSUME NEW p \in Peer, EndResolve(p) PROVE CounterStep
  <2>1. \A T : CappedRounds(T) \in SUBSET T
    BY DEF CappedRounds
  <2>2. UNCHANGED <<roundId, decided>>
    BY <1>6 DEF EndResolve
  <2>3. \A q \in Peer : processed'[q] \in SUBSET processed[q]
    BY <1>6, <2>1 DEF EndResolve, TypeInv, TypeOK
  <2>4. \A q \in Peer : \A id \in processed'[q] : id \in processed[q]
    BY <2>3
  <2>5. roundId' = roundId /\ decided' = decided /\ \A q \in Peer : roundId[q] <= roundId[q]
    BY <1>0, <2>2
  <2>6. QED
    BY <2>4, <2>5 DEF CounterStep
<1>7. CASE UNCHANGED vars
  BY <1>1, <1>7 DEF vars
<1>8. QED
  BY <1>2, <1>2a, <1>3, <1>4, <1>5, <1>6, <1>7 DEF Next

LEMMA CounterInvariant == Spec => []CounterInv
<1>1. Init => CounterInv
  <2>1. Init => TypeInv
    BY InitType
  <2>2. Init => RoundsBelow /\ DecidedBelow /\ OwnIdsDiffer
    BY DEF Init, RoundsBelow, DecidedBelow, OwnIdsDiffer
  <2>3. QED
    BY <2>1, <2>2 DEF CounterInv
<1>2. CounterInv /\ [Next]_vars => CounterInv'
  <2> SUFFICES ASSUME CounterInv, [Next]_vars PROVE CounterInv'
    OBVIOUS
  <2>1. TypeInv /\ TypeInv' /\ CounterStep
    BY NextType, NextCounter DEF CounterInv
  <2>2. /\ roundId \in [Peer -> Nat] /\ roundId' \in [Peer -> Nat]
        /\ processed \in [Peer -> SUBSET Nat] /\ processed' \in [Peer -> SUBSET Nat]
        /\ \A k \in decided : k.by \in Peer /\ k.id \in Nat
    BY <2>1 DEF TypeInv, TypeOK, Decision
  <2>3. RoundsBelow'
    <3> SUFFICES ASSUME NEW p \in Peer, NEW id \in processed'[p]
                 PROVE  id <= roundId'[p]
      BY DEF RoundsBelow
    <3>1. id \in Nat /\ roundId[p] \in Nat /\ roundId'[p] \in Nat
      BY <2>2
    <3>2. id \in processed[p] => id <= roundId[p]
      BY DEF CounterInv, RoundsBelow
    <3>3. roundId[p] <= roundId'[p] /\ (id \in processed[p] \/ id <= roundId'[p])
      BY <2>1 DEF CounterStep
    <3>4. QED
      BY <3>1, <3>2, <3>3
  <2>4. CASE decided' = decided
    <3>1. DecidedBelow'
      BY <2>1, <2>2, <2>4 DEF CounterInv, DecidedBelow, CounterStep
    <3>2. OwnIdsDiffer'
      BY <2>4 DEF CounterInv, OwnIdsDiffer
    <3>3. QED
      BY <2>1, <2>3, <3>1, <3>2 DEF CounterInv
  <2>5. ASSUME NEW p \in Peer, NEW S \in SUBSET Claim, NEW q \in Peer \cup {None},
               decided' = decided \cup {Decided(p, S, q)},
               NextId(p) <= roundId'[p]
        PROVE  CounterInv'
    <3>1. NextId(p) \in Nat /\ roundId[p] < NextId(p)
      BY <2>2 DEF NextId
    <3>2. \A k \in decided : k.id <= roundId[k.by] /\ roundId[k.by] <= roundId'[k.by]
      BY <2>1, <2>2 DEF CounterInv, DecidedBelow, CounterStep
    <3>3. DecidedBelow'
      BY <2>2, <2>5, <3>1, <3>2 DEF DecidedBelow, Decided
    <3>4. \A k \in decided : k.by = p => k.id < NextId(p)
      BY <2>2, <3>1, <3>2
    <3>5. OwnIdsDiffer'
      BY <2>2, <2>5, <3>1, <3>4 DEF CounterInv, OwnIdsDiffer, Decided
    <3>6. QED
      BY <2>1, <2>3, <3>3, <3>5 DEF CounterInv
  <2>6. QED
    BY <2>1, <2>4, <2>5 DEF CounterStep
<1>3. QED
  BY <1>1, <1>2, PTL DEF Spec

\* A peer never gives two rounds one number, in any instance.
THEOREM IdsNeverRepeat == Spec => []OwnIdsDiffer
<1>1. CounterInv => OwnIdsDiffer
  BY DEF CounterInv
<1>2. QED
  BY <1>1, CounterInvariant, PTL

\* The duplicate guard of apply_round never discards the round a peer has just
\* decided itself, however far other peers' rounds pushed its counter.
THEOREM OwnRoundsAlwaysApply == Spec => OwnRoundsApply
<1>1. CounterInv /\ [Next]_vars
        => [\A k \in decided' \ decided : \A id \in processed[k.by] : id < k.id]_vars
  <2> SUFFICES ASSUME CounterInv, [Next]_vars, NEW k \in decided' \ decided,
                      NEW id \in processed[k.by]
               PROVE  id < k.id
    OBVIOUS
  <2>1. TypeInv /\ CounterStep
    BY NextCounter DEF CounterInv
  <2>2. PICK p \in Peer : k.by = p /\ k.id = NextId(p)
    BY <2>1 DEF CounterStep, Decided
  <2>3. /\ roundId[p] \in Nat /\ id \in Nat
    BY <2>1, <2>2 DEF TypeInv, TypeOK
  <2>4. id <= roundId[p]
    BY <2>2 DEF CounterInv, RoundsBelow
  <2>5. QED
    BY <2>2, <2>3, <2>4 DEF NextId
<1>2. QED
  BY <1>1, CounterInvariant, PTL DEF Spec, OwnRoundsApply
-----------------------------------------------------------------------------
(***************************************************************************)
(* Claims in time.  Between ticks a drone's own pending claim is as old as *)
(* nothing or as the last tick at least, and not due yet; during a tick it *)
(* is one tick older.  Its delay is not less than a tick, so it can be     *)
(* older than twice the delay only if the tick is shorter than the last    *)
(* one.  Claims come back to their drone neither by its own messages nor   *)
(* in another peer's.                                                      *)
(***************************************************************************)

\* How old an own claim c of p is, in a tick: one tick, or less than the delay of
\* the tick before and one tick more.
InTick(p, c) ==
  /\ c.ts + tick[p] <= now[p]
  /\ \/ now[p] = c.ts + tick[p]
     \/ Transport = "foxmq" /\ now[p] < c.ts + 2 * lastTick[p] + tick[p]

InTime(p) ==
  \A c \in pending[p] : c.drone = p =>
    IF phase[p] = "idle"
      THEN /\ now[p] < c.ts + Delay(p)
           /\ now[p] = c.ts \/ c.ts + tick[p] <= now[p]
      ELSE InTick(p, c)

NothingDue(p) == phase[p] = "act" => \A c \in pending[p] : now[p] < c.ts + Delay(p)

FromOthers(p, m) == m.from # p /\ (m.type = "claim" => m.claim.drone # p)

MailFromOthers == \A p \in Peer : \A m \in net[p] : FromOthers(p, m)

\* What a peer sends names itself as the sender and the claimant.
SentBy(p, m) == m.from = p /\ (m.type = "claim" => m.claim.drone = p)

ClaimInv ==
  /\ TypeInv
  /\ MailFromOthers
  /\ \A p \in Peer : InTime(p) /\ NothingDue(p)

\* The bodies of OwnClaimDecided and CellOnlyByRound for one peer.
OwnDecided(p) ==
  \A c \in pending[p] \ pending'[p] :
     c.drone = p => \/ c \in resolved[p] \cup resolved'[p]
                    \/ processed'[p] # processed[p]
                    \/ Transport = "foxmq" /\ 2 * lastTick[p] > 3 * tick[p]

ByRound(p) ==
  view'[p][p].cell \notin {None, view[p][p].cell} => processed'[p] # processed[p]

\* What a step of p leaves alone in the other peers.
Leaves(p, q) ==
  /\ now'[q] = now[q] /\ tick'[q] = tick[q] /\ lastTick'[q] = lastTick[q]
  /\ phase'[q] = phase[q]
  /\ pending'[q] = pending[q]
  /\ view'[q] = view[q]

OwnStep(p) ==
  /\ InTime(p)' /\ NothingDue(p)'
  /\ OwnDecided(p) /\ ByRound(p)
  /\ \A q \in Peer \ {p} : Leaves(p, q)
  /\ \A q \in Peer : \A m \in net'[q] : m \in net[q] \/ (q # p /\ SentBy(p, m))

LEMMA SendAddressed ==
  ASSUME TypeInv, NEW p \in Peer, NEW ms, Send(p, ms), \A m \in ms : SentBy(p, m)
  PROVE  \A q \in Peer : \A m \in net'[q] : m \in net[q] \/ (q # p /\ SentBy(p, m))
BY DEF Send, TypeInv, TypeOK

LEMMA MessagesSentBy ==
  ASSUME NEW p \in Peer
  PROVE  /\ \A t : SentBy(p, AliveMessage(p, t))
         /\ \A t, v : SentBy(p, StateMessage(p, t, v))
         /\ \A r : SentBy(p, RoundMessage(p, r))
         /\ \A c : c.drone = p => SentBy(p, ClaimMessage(p, c))
BY DEF SentBy, AliveMessage, StateMessage, RoundMessage, ClaimMessage

\* apply_round drops claims and moves drones only together with a new number.
LEMMA ApplyRoundEffect ==
  ASSUME TypeInv, NEW p \in Peer, NEW r \in Round, NEW counter \in Nat,
         ApplyRound(p, r, counter)
  PROVE  /\ \A q \in Peer \ {p} : pending'[q] = pending[q]
         /\ pending'[p] \in SUBSET pending[p]
         /\ \/ processed'[p] # processed[p]
            \/ pending'[p] = pending[p] /\ ViewAfter(p, r) = view[p]
<1>1. /\ r.id \in Nat
      /\ processed \in [Peer -> SUBSET Nat]
      /\ pending \in [Peer -> SUBSET Claim]
  BY DEF TypeInv, TypeOK, Round
<1>2. CASE r.id \in processed[p]
  BY <1>1, <1>2 DEF ApplyRound, ViewAfter
<1>3. CASE r.id \notin processed[p]
  BY <1>1, <1>3 DEF ApplyRound
<1>4. QED
  BY <1>2, <1>3

\* A step that keeps the time and only drops claims keeps them in time.
LEMMA FewerClaims ==
  ASSUME ClaimInv, NEW p \in Peer, UNCHANGED clock, phase[p] # "idle",
         phase'[p] \notin {"idle", "act"}, pending'[p] \in SUBSET pending[p]
  PROVE  InTime(p)' /\ NothingDue(p)'
BY DEF ClaimInv, InTime, InTick, NothingDue
-----------------------------------------------------------------------------
LEMMA StartTickStep ==
  ASSUME ClaimInv, NEW p \in Peer, NEW t \in TickLengths, NEW h, NEW own, NEW extra,
         own.cell = view[p][p].cell, \A m \in extra : SentBy(p, m),
         StartTick(p, t, h, own, extra)
  PROVE  OwnStep(p)
<1>1. /\ now \in [Peer -> Nat] /\ phase \in [Peer -> Phase]
      /\ tick \in [Peer -> TickLengths] /\ lastTick \in [Peer -> TickLengths]
      /\ pending \in [Peer -> SUBSET Claim]
      /\ view \in [Peer -> [Peer -> DroneView]]
  BY DEF ClaimInv, TypeInv, TypeOK
<1>2. /\ phase[p] = "idle"
      /\ now' = [now EXCEPT ![p] = @ + t]
      /\ tick' = [tick EXCEPT ![p] = t]
      /\ lastTick' = [lastTick EXCEPT ![p] = tick[p]]
      /\ phase' = [phase EXCEPT ![p] = "watch"]
      /\ view' = [view EXCEPT ![p][p] = own]
      /\ UNCHANGED <<pending, processed, resolved>>
  BY DEF StartTick
<1>3. InTime(p)'
  <2> SUFFICES ASSUME NEW c \in pending[p], c.drone = p
               PROVE  /\ c.ts + t <= now[p] + t
                      /\ \/ now[p] + t = c.ts + t
                         \/ Transport = "foxmq" /\ now[p] + t < c.ts + 2 * tick[p] + t
    BY <1>1, <1>2 DEF InTime, InTick
  <2>1. now[p] < c.ts + Delay(p) /\ (now[p] = c.ts \/ c.ts + tick[p] <= now[p])
    BY <1>2 DEF ClaimInv, InTime
  <2>2. /\ now[p] \in Nat /\ c.ts \in Nat /\ t \in Nat /\ tick[p] \in Nat
        /\ Transport = "foxmq" => Delay(p) = 2 * tick[p]
        /\ Transport # "foxmq" => Delay(p) = tick[p]
    BY <1>1, TickType, PeerClaimsAssumption DEF Claim, ClaimInv, TypeInv
  <2>3. CASE Transport = "foxmq"
    BY <2>1, <2>2, <2>3
  <2>4. CASE Transport # "foxmq"
    BY <2>1, <2>2, <2>4
  <2>5. QED
    BY <2>3, <2>4
<1>4. NothingDue(p)' /\ OwnDecided(p) /\ ByRound(p)
  BY <1>1, <1>2 DEF NothingDue, OwnDecided, ByRound
<1>5. \A q \in Peer \ {p} : Leaves(p, q)
  BY <1>1, <1>2 DEF Leaves
<1>6. \A q \in Peer : \A m \in net'[q] : m \in net[q] \/ (q # p /\ SentBy(p, m))
  <2> DEFINE ms == extra \cup IF own.alive THEN {AliveMessage(p, now[p] + t)} ELSE {}
  <2>1. Send(p, ms)
    BY DEF StartTick
  <2>2. \A m \in ms : SentBy(p, m)
    BY MessagesSentBy
  <2> HIDE DEF ms
  <2>3. QED
    BY <2>1, <2>2, SendAddressed DEF ClaimInv
<1>7. QED
  BY <1>3, <1>4, <1>5, <1>6 DEF OwnStep

LEMMA DetectStaleStep ==
  ASSUME ClaimInv, NEW p \in Peer, NEW q \in Peer, DetectStale(p, q)
  PROVE  OwnStep(p)
<1>1. /\ view \in [Peer -> [Peer -> DroneView]] /\ pending \in [Peer -> SUBSET Claim]
      /\ net \in [Peer -> SUBSET Message] /\ TypeInv
  BY DEF ClaimInv, TypeInv, TypeOK
<1>2. /\ p # q /\ phase[p] = "watch"
      /\ UNCHANGED <<clock, phase, resolved>>
  BY DetectStaleEffect
<1>3. CASE /\ view[p][q].cell # None
           /\ ApplyRound(p, ReleaseRound(p, q), NextId(p))
           /\ view' = [view EXCEPT ![p] = [ViewAfter(p, ReleaseRound(p, q))
                                             EXCEPT ![q] = Gone]]
           /\ Send(p, {RoundMessage(p, ReleaseRound(p, q))})
  <2> DEFINE r == ReleaseRound(p, q)
  <2>1. r \in Round /\ ViewAfter(p, r) \in [Peer -> DroneView]
    BY <1>1, <1>3, ReleaseRoundType, ViewAfterType DEF TypeInv
  <2>2. /\ \A d \in Peer \ {p} : pending'[d] = pending[d]
        /\ pending'[p] \in SUBSET pending[p]
        /\ \/ processed'[p] # processed[p]
           \/ pending'[p] = pending[p] /\ ViewAfter(p, r) = view[p]
    BY <1>1, <1>3, <2>1, ApplyRoundEffect, NextIdType DEF TypeInv
  <2>3. InTime(p)' /\ NothingDue(p)'
    BY <1>2, <2>2, FewerClaims
  <2>4. OwnDecided(p)
    BY <2>2 DEF OwnDecided
  <2>5. \A d \in Peer \ {p} : Leaves(p, d)
    BY <1>1, <1>2, <1>3, <2>2 DEF Leaves
  <2>6. \A d \in Peer : \A m \in net'[d] : m \in net[d] \/ (d # p /\ SentBy(p, m))
    BY <1>1, <1>3, SendAddressed, MessagesSentBy
  <2> HIDE DEF r
  <2>7. ByRound(p)
    <3>1. view'[p][p] = ViewAfter(p, r)[p]
      BY <1>1, <1>2, <1>3, <2>1 DEF r
    <3>2. QED
      BY <2>2, <3>1 DEF ByRound
  <2>8. QED
    BY <2>3, <2>4, <2>5, <2>6, <2>7 DEF OwnStep
<1>4. CASE /\ view' = [view EXCEPT ![p][q] = Gone]
           /\ UNCHANGED <<roundId, processed, pending, net>>
  <2>1. InTime(p)' /\ NothingDue(p)'
    BY <1>2, <1>4, FewerClaims
  <2>2. OwnDecided(p) /\ ByRound(p)
    BY <1>1, <1>2, <1>4 DEF OwnDecided, ByRound
  <2>3. \A d \in Peer \ {p} : Leaves(p, d)
    BY <1>1, <1>2, <1>4 DEF Leaves
  <2>4. QED
    BY <1>4, <2>1, <2>2, <2>3 DEF OwnStep
<1>5. QED
  BY <1>3, <1>4, DetectStaleEffect

LEMMA TakeStep ==
  ASSUME ClaimInv, NEW p \in Peer, NEW m, Take(p, m)
  PROVE  /\ UNCHANGED <<clock, resolved>>
         /\ phase[p] # "idle" /\ phase'[p] = "poll"
         /\ \A q \in Peer \ {p} : phase'[q] = phase[q]
         /\ \A q \in Peer : net'[q] \in SUBSET net[q]
         /\ m \in net[p] /\ m \in Message /\ FromOthers(p, m)
BY DEF Take, ClaimInv, TypeInv, TypeOK, MailFromOthers

LEMMA ReceiveStep ==
  ASSUME ClaimInv, NEW p \in Peer, Receive(p)
  PROVE  OwnStep(p)
<1>1. /\ view \in [Peer -> [Peer -> DroneView]] /\ pending \in [Peer -> SUBSET Claim]
      /\ now \in [Peer -> Nat] /\ TypeInv
  BY DEF ClaimInv, TypeInv, TypeOK
<1>2. PICK m \in net[p] : \/ HandleAlive(p, m)
                          \/ HandleDroneState(p, m)
                          \/ HandleClaim(p, m)
                          \/ HandleRound(p, m)
  BY DEF Receive
<1>3. Take(p, m)
  BY <1>2 DEF HandleAlive, HandleDroneState, HandleClaim, HandleRound
<1>4. /\ UNCHANGED <<clock, resolved>>
      /\ phase[p] # "idle" /\ phase'[p] = "poll"
      /\ \A q \in Peer \ {p} : phase'[q] = phase[q]
      /\ \A q \in Peer : net'[q] \in SUBSET net[q]
      /\ m \in Message /\ FromOthers(p, m)
  BY <1>3, TakeStep
<1>5. CASE HandleAlive(p, m)
  <2>1. /\ view' = [view EXCEPT ![p] = [view[p] EXCEPT ![m.from].alive = TRUE,
                                                       ![m.from].reachable = TRUE]]
        /\ UNCHANGED <<processed, pending>>
    BY <1>1, <1>5 DEF HandleAlive
  <2>2. InTime(p)' /\ NothingDue(p)'
    BY <1>4, <2>1, FewerClaims
  <2>3. OwnDecided(p) /\ ByRound(p)
    BY <1>1, <1>4, <2>1 DEF OwnDecided, ByRound, FromOthers
  <2>4. \A q \in Peer \ {p} : Leaves(p, q)
    BY <1>1, <1>4, <2>1 DEF Leaves
  <2>5. QED
    BY <1>4, <2>2, <2>3, <2>4 DEF OwnStep
<1>6. CASE HandleDroneState(p, m)
  <2>1. /\ view' = [view EXCEPT ![p][m.from] = m.view]
        /\ UNCHANGED <<processed, pending>>
    BY <1>6 DEF HandleDroneState
  <2>2. InTime(p)' /\ NothingDue(p)'
    BY <1>4, <2>1, FewerClaims
  <2>3. OwnDecided(p) /\ ByRound(p)
    BY <1>1, <1>4, <2>1 DEF OwnDecided, ByRound, FromOthers
  <2>4. \A q \in Peer \ {p} : Leaves(p, q)
    BY <1>1, <1>4, <2>1 DEF Leaves
  <2>5. QED
    BY <1>4, <2>2, <2>3, <2>4 DEF OwnStep
<1>7. CASE HandleClaim(p, m)
  <2>1. /\ m.type = "claim"
        /\ pending' = [pending EXCEPT ![p] = IF m.claim \in resolved[p] THEN @
                                             ELSE @ \cup {m.claim}]
        /\ UNCHANGED <<processed, view>>
    BY <1>7 DEF HandleClaim
  <2>2. m.claim.drone # p
    BY <1>4, <2>1 DEF FromOthers
  <2>3. \A c \in pending'[p] : c.drone = p => c \in pending[p]
    BY <1>1, <2>1, <2>2
  <2>4. InTime(p)' /\ NothingDue(p)'
    BY <1>4, <2>3 DEF ClaimInv, InTime, InTick, NothingDue
  <2>5. OwnDecided(p) /\ ByRound(p)
    BY <1>1, <2>1 DEF OwnDecided, ByRound
  <2>6. \A q \in Peer \ {p} : Leaves(p, q)
    BY <1>1, <1>4, <2>1 DEF Leaves
  <2>7. QED
    BY <1>4, <2>4, <2>5, <2>6 DEF OwnStep
<1>8. CASE HandleRound(p, m)
  <2>1. /\ m.round \in Round
        /\ roundId[p] \in Nat
        /\ ApplyRound(p, m.round, roundId[p])
        /\ view' = [view EXCEPT ![p] = ViewAfter(p, m.round)]
    BY <1>1, <1>4, <1>8 DEF HandleRound, Message, TypeInv, TypeOK
  <2>2. /\ \A q \in Peer \ {p} : pending'[q] = pending[q]
        /\ pending'[p] \in SUBSET pending[p]
        /\ \/ processed'[p] # processed[p]
           \/ pending'[p] = pending[p] /\ ViewAfter(p, m.round) = view[p]
    BY <1>1, <2>1, ApplyRoundEffect
  <2>3. InTime(p)' /\ NothingDue(p)'
    BY <1>4, <2>2, FewerClaims
  <2>4. OwnDecided(p) /\ ByRound(p)
    BY <1>1, <2>1, <2>2 DEF OwnDecided, ByRound
  <2>5. \A q \in Peer \ {p} : Leaves(p, q)
    BY <1>1, <1>4, <2>1, <2>2 DEF Leaves
  <2>6. QED
    BY <1>4, <2>3, <2>4, <2>5 DEF OwnStep
<1>9. QED
  BY <1>2, <1>5, <1>6, <1>7, <1>8

LEMMA BeginResolveStep ==
  ASSUME ClaimInv, NEW p \in Peer, BeginResolve(p)
  PROVE  OwnStep(p)
<1>1. /\ view \in [Peer -> [Peer -> DroneView]] /\ pending \in [Peer -> SUBSET Claim]
      /\ now \in [Peer -> Nat] /\ phase \in [Peer -> Phase]
  BY DEF ClaimInv, TypeInv, TypeOK
<1>2. /\ phase[p] \in {"watch", "poll"}
      /\ phase' = [phase EXCEPT ![p] = "resolve"]
      /\ pending' = [pending EXCEPT ![p] = {c \in @ : now[p] <= c.ts + TTL(p)}]
      /\ UNCHANGED <<clock, processed, resolved, view, net>>
  BY DEF BeginResolve
<1>3. InTime(p)' /\ NothingDue(p)'
  BY <1>1, <1>2, FewerClaims
<1>4. OwnDecided(p)
  <2> SUFFICES ASSUME NEW c \in pending[p] \ pending'[p], c.drone = p
               PROVE  Transport = "foxmq" /\ 2 * lastTick[p] > 3 * tick[p]
    BY DEF OwnDecided
  <2>1. ~(now[p] <= c.ts + TTL(p))
    BY <1>1, <1>2
  <2>2. \/ now[p] = c.ts + tick[p]
        \/ Transport = "foxmq" /\ now[p] < c.ts + 2 * lastTick[p] + tick[p]
    BY <1>2 DEF ClaimInv, InTime, InTick
  <2>3. c.ts \in Nat
    BY <1>1 DEF Claim
  <2>4. /\ now[p] \in Nat
        /\ tick[p] \in Nat /\ tick[p] >= 1 /\ lastTick[p] \in Nat
        /\ Transport = "foxmq" => Delay(p) = 2 * tick[p]
        /\ Transport # "foxmq" => Delay(p) = tick[p]
        /\ TTL(p) = 2 * Delay(p)
    BY TickType DEF ClaimInv, TypeInv
  <2>5. CASE Transport = "foxmq"
    <3>1. TTL(p) = 4 * tick[p]
      BY <2>4, <2>5
    <3>2. QED
      BY <2>1, <2>2, <2>3, <2>4, <2>5, <3>1
  <2>6. CASE Transport # "foxmq"
    <3>1. TTL(p) = 2 * tick[p]
      BY <2>4, <2>6
    <3>2. QED
      BY <2>1, <2>2, <2>3, <2>4, <2>6, <3>1
  <2>7. QED
    BY <2>5, <2>6
<1>5. ByRound(p) /\ \A q \in Peer \ {p} : Leaves(p, q)
  BY <1>1, <1>2 DEF ByRound, Leaves
<1>6. QED
  BY <1>2, <1>3, <1>4, <1>5 DEF OwnStep

LEMMA ResolveCellStep ==
  ASSUME ClaimInv, NEW p \in Peer, ResolveCell(p)
  PROVE  OwnStep(p)
<1>1. /\ view \in [Peer -> [Peer -> DroneView]] /\ pending \in [Peer -> SUBSET Claim]
      /\ TypeInv
  BY DEF ClaimInv, TypeInv, TypeOK
<1>2. phase[p] = "resolve" /\ UNCHANGED <<clock, phase>>
  BY <1>1, ResolveCellEffect
<1>3. PICK r \in Round :
        /\ ApplyRound(p, r, NextId(p))
        /\ view' = [view EXCEPT ![p] = ViewAfter(p, r)]
        /\ Send(p, {RoundMessage(p, r)})
  BY <1>1, ResolveCellEffect
<1>4. /\ \A q \in Peer \ {p} : pending'[q] = pending[q]
      /\ pending'[p] \in SUBSET pending[p]
      /\ \/ processed'[p] # processed[p]
         \/ pending'[p] = pending[p] /\ ViewAfter(p, r) = view[p]
  BY <1>1, <1>3, ApplyRoundEffect, NextIdType DEF TypeInv
<1>5. InTime(p)' /\ NothingDue(p)'
  BY <1>2, <1>4, FewerClaims
<1>6. OwnDecided(p) /\ ByRound(p)
  BY <1>1, <1>3, <1>4 DEF OwnDecided, ByRound
<1>7. \A q \in Peer \ {p} : Leaves(p, q)
  BY <1>1, <1>2, <1>3, <1>4 DEF Leaves
<1>8. \A q \in Peer : \A m \in net'[q] : m \in net[q] \/ (q # p /\ SentBy(p, m))
  BY <1>1, <1>3, SendAddressed, MessagesSentBy
<1>9. QED
  BY <1>5, <1>6, <1>7, <1>8 DEF OwnStep

LEMMA EndResolveStep ==
  ASSUME ClaimInv, NEW p \in Peer, EndResolve(p)
  PROVE  OwnStep(p)
<1>1. /\ view \in [Peer -> [Peer -> DroneView]] /\ pending \in [Peer -> SUBSET Claim]
      /\ now \in [Peer -> Nat] /\ phase \in [Peer -> Phase]
  BY DEF ClaimInv, TypeInv, TypeOK
<1>2. /\ phase[p] = "resolve" /\ Mature(p) = {}
      /\ phase' = [phase EXCEPT ![p] = "act"]
      /\ pending' = [pending EXCEPT ![p] = @ \ resolved[p]]
      /\ UNCHANGED <<clock, view, net>>
  BY DEF EndResolve
<1>3. NothingDue(p)'
  <2> SUFFICES ASSUME NEW c \in pending'[p]
               PROVE  now[p] < c.ts + Delay(p)
    BY <1>2 DEF NothingDue, Delay
  <2>1. c \in pending[p] /\ c \notin resolved[p]
    BY <1>1, <1>2
  <2>2. ~(c.ts + Delay(p) <= now[p])
    BY <1>2, <2>1 DEF Mature
  <2>3. now[p] \in Nat /\ c.ts \in Nat /\ Delay(p) \in Nat
    BY <1>1, <2>1, TickType DEF Claim, ClaimInv, TypeInv
  <2>4. QED
    BY <2>2, <2>3
<1>4. InTime(p)'
  BY <1>1, <1>2 DEF ClaimInv, InTime, InTick
<1>5. OwnDecided(p)
  BY <1>1, <1>2 DEF OwnDecided
<1>6. ByRound(p) /\ \A q \in Peer \ {p} : Leaves(p, q)
  BY <1>1, <1>2 DEF ByRound, Leaves
<1>7. QED
  BY <1>2, <1>3, <1>4, <1>5, <1>6 DEF OwnStep

LEMMA ActStep ==
  ASSUME ClaimInv, NEW p \in Peer, Act(p)
  PROVE  OwnStep(p)
<1>1. /\ view \in [Peer -> [Peer -> DroneView]] /\ pending \in [Peer -> SUBSET Claim]
      /\ now \in [Peer -> Nat] /\ phase \in [Peer -> Phase] /\ TypeInv
  BY DEF ClaimInv, TypeInv, TypeOK
<1>2. PICK own \in DroneView, claims \in SUBSET Claim :
           /\ own.cell \in {None, view[p][p].cell}
           /\ \A c \in claims : c.drone = p /\ c.ts = now[p]
           /\ view' = [view EXCEPT ![p] = [view[p] EXCEPT ![p] = own]]
           /\ pending' = [pending EXCEPT ![p] = @ \cup claims]
           /\ Send(p, {StateMessage(p, now[p], own)} \cup
                      {ClaimMessage(p, c) : c \in claims})
  BY <1>1, ActEffect
<1>3. /\ phase[p] = "act"
      /\ phase' = [phase EXCEPT ![p] = "idle"]
      /\ UNCHANGED clock
  BY DEF Act
<1>4. InTime(p)'
  <2> SUFFICES ASSUME NEW c \in pending'[p], c.drone = p
               PROVE  /\ now[p] < c.ts + Delay(p)
                      /\ now[p] = c.ts \/ c.ts + tick[p] <= now[p]
    BY <1>1, <1>3 DEF InTime, Delay
  <2>1. now[p] \in Nat /\ Delay(p) \in Nat /\ Delay(p) >= 1
    BY <1>1, TickType DEF TypeInv
  <2>2. CASE c \in pending[p]
    BY <1>3, <2>2 DEF ClaimInv, NothingDue, InTime, InTick
  <2>3. CASE c \in claims
    BY <1>2, <2>1, <2>3
  <2>4. QED
    BY <1>1, <1>2, <2>2, <2>3
<1>5. NothingDue(p)' /\ OwnDecided(p) /\ ByRound(p)
  BY <1>1, <1>2, <1>3 DEF NothingDue, OwnDecided, ByRound
<1>6. \A q \in Peer \ {p} : Leaves(p, q)
  BY <1>1, <1>2, <1>3 DEF Leaves
<1>7. \A q \in Peer : \A m \in net'[q] : m \in net[q] \/ (q # p /\ SentBy(p, m))
  <2> DEFINE ms == {StateMessage(p, now[p], own)} \cup {ClaimMessage(p, c) : c \in claims}
  <2>1. \A m \in ms : SentBy(p, m)
    BY <1>2, MessagesSentBy
  <2>2. Send(p, ms)
    BY <1>2
  <2> HIDE DEF ms
  <2>3. QED
    BY <1>1, <2>1, <2>2, SendAddressed
<1>8. QED
  BY <1>4, <1>5, <1>6, <1>7 DEF OwnStep
-----------------------------------------------------------------------------
\* Every step is a step of one peer, or a stutter.
LEMMA NextOwnStep ==
  ASSUME ClaimInv, Next
  PROVE  \E p \in Peer : OwnStep(p)
<1>1. ASSUME NEW p \in Peer, NEW t \in TickLengths, BeginTick(p, t) PROVE OwnStep(p)
  <2>1. StartTick(p, t, health[p], view[p][p], {})
    BY <1>1 DEF BeginTick
  <2>2. QED
    BY <2>1, StartTickStep
<1>2. ASSUME NEW p \in Peer, NEW t \in TickLengths, Fail(p, t) PROVE OwnStep(p)
  <2> DEFINE h == IF FailureMode = "crash" THEN "degraded" ELSE "partitioned"
             own == [view[p][p] EXCEPT !.reachable = FALSE]
  <2>1. own.cell = view[p][p].cell
    <3>1. view[p][p] \in DroneView
      BY DEF ClaimInv, TypeInv, TypeOK
    <3>2. QED
      BY <3>1, ViewExceptType
  <2>2. StartTick(p, t, h, own, {})
    BY <1>2 DEF Fail
  <2> HIDE DEF h, own
  <2>3. QED
    BY <2>1, <2>2, StartTickStep
<1>3. ASSUME NEW p \in Peer, NEW t \in TickLengths, Reconnect(p, t) PROVE OwnStep(p)
  <2> DEFINE own == [view[p][p] EXCEPT !.reachable = TRUE]
             extra == {AliveMessage(p, now[p] + t), StateMessage(p, now[p] + t, own)}
  <2>1. own.cell = view[p][p].cell
    <3>1. view[p][p] \in DroneView
      BY DEF ClaimInv, TypeInv, TypeOK
    <3>2. QED
      BY <3>1, ViewExceptType
  <2>2. StartTick(p, t, "recovered", own, extra)
    BY <1>3 DEF Reconnect
  <2>3. \A m \in extra : SentBy(p, m)
    BY MessagesSentBy
  <2> HIDE DEF own, extra
  <2>4. QED
    BY <2>1, <2>2, <2>3, StartTickStep
<1>4. QED
  BY <1>1, <1>2, <1>3, DetectStaleStep, ReceiveStep, BeginResolveStep,
     ResolveCellStep, EndResolveStep, ActStep DEF Next

LEMMA ClaimInvNext == ClaimInv /\ [Next]_vars => ClaimInv'
<1> SUFFICES ASSUME ClaimInv, [Next]_vars PROVE ClaimInv'
  OBVIOUS
<1>1. TypeInv'
  BY NextType DEF ClaimInv
<1>2. CASE Next
  <2>1. PICK p \in Peer : OwnStep(p)
    BY <1>2, NextOwnStep
  <2>2. MailFromOthers'
    BY <2>1 DEF OwnStep, ClaimInv, MailFromOthers, FromOthers, SentBy
  <2>3. ASSUME NEW q \in Peer PROVE InTime(q)' /\ NothingDue(q)'
    <3>1. CASE q = p
      BY <2>1, <3>1 DEF OwnStep
    <3>2. CASE q # p
      BY <2>1, <3>2 DEF OwnStep, Leaves, ClaimInv, InTime, InTick, NothingDue, Delay
    <3>3. QED
      BY <3>1, <3>2
  <2>4. QED
    BY <1>1, <2>2, <2>3 DEF ClaimInv
<1>3. CASE UNCHANGED vars
  BY <1>1, <1>3 DEF vars, ClaimInv, MailFromOthers, InTime, InTick, NothingDue, Delay,
                   FromOthers
<1>4. QED
  BY <1>2, <1>3

LEMMA ClaimInvariant == Spec => []ClaimInv
<1>1. Init => ClaimInv
  <2> SUFFICES ASSUME Init PROVE ClaimInv
    OBVIOUS
  <2>1. \A p \in Peer : InTime(p) /\ NothingDue(p)
    BY DEF Init, InTime, NothingDue
  <2>2. MailFromOthers
    BY DEF Init, MailFromOthers, FromOthers, AliveMessage, StateMessage
  <2>3. QED
    BY <2>1, <2>2, InitType DEF ClaimInv
<1>2. QED
  BY <1>1, ClaimInvNext, PTL DEF Spec

\* When the resolve loop of a tick is over no due claim is left, in any
\* instance: resolve_pending_claims skips none.
THEOREM NoClaimOverdue == Spec => []NoOverdueClaim
<1>1. ClaimInv => NoOverdueClaim
  BY DEF ClaimInv, NoOverdueClaim, NothingDue
<1>2. QED
  BY <1>1, ClaimInvariant, PTL

\* A drone's own claim is lost to the expiry only over foxmq, in a tick that is
\* shorter than the last one by more than a third.
THEOREM OwnClaimsAreDecided == Spec => OwnClaimDecided
<1>1. ClaimInv /\ [Next]_vars => [\A p \in Peer : OwnDecided(p)]_vars
  <2> SUFFICES ASSUME ClaimInv, Next, NEW q \in Peer PROVE OwnDecided(q)
    OBVIOUS
  <2>1. PICK p \in Peer : OwnStep(p)
    BY NextOwnStep
  <2>2. CASE q = p
    BY <2>1, <2>2 DEF OwnStep
  <2>3. CASE q # p
    BY <2>1, <2>3 DEF OwnStep, Leaves, OwnDecided
  <2>4. QED
    BY <2>2, <2>3
<1>2. QED
  BY <1>1, ClaimInvariant, PTL DEF Spec, OwnClaimDecided, OwnDecided

\* A drone takes up a cell only in a step that applies a round for the first
\* time, whatever is lost, delayed, reordered or replayed.
THEOREM CellsComeByRounds == Spec => CellOnlyByRound
<1>1. ClaimInv /\ [Next]_vars => [\A p \in Peer : ByRound(p)]_vars
  <2> SUFFICES ASSUME ClaimInv, Next, NEW q \in Peer PROVE ByRound(q)
    OBVIOUS
  <2>1. PICK p \in Peer : OwnStep(p)
    BY NextOwnStep
  <2>2. CASE q = p
    BY <2>1, <2>2 DEF OwnStep
  <2>3. CASE q # p
    BY <2>1, <2>3 DEF OwnStep, Leaves, ByRound
  <2>4. QED
    BY <2>2, <2>3
<1>2. QED
  BY <1>1, ClaimInvariant, PTL DEF Spec, CellOnlyByRound, ByRound
-----------------------------------------------------------------------------
(***************************************************************************)
(* Who falls silent.  A peer's own entry dies only in apply_round, for a   *)
(* round that released it, and such a round comes by mail, from the peer   *)
(* that decided it.                                                        *)
(***************************************************************************)

ReleasedBy(p, q) == \E k \in decided : k.by = p /\ k.released = q

\* A message that carries a release comes from the peer that decided it.
FromDecider(m) ==
  m.type = "round" => m.round.released = None \/ ReleasedBy(m.from, m.round.released)

SilenceInv ==
  /\ ClaimInv
  /\ \A p \in Peer : \A m \in net[p] : FromDecider(m)
  /\ DeadByRelease

\* What a step of p does to all this.
SilenceStep(p) ==
  /\ decided \subseteq decided'
  /\ \A q \in Peer \ {p} : view'[q] = view[q]
  /\ \A q \in Peer : \A m \in net'[q] : m \in net[q] \/ FromDecider(m)'
  /\ \/ view'[p][p].alive
     \/ ~view[p][p].alive
     \/ \E k \in decided : k.released = p /\ k.by # p

\* Only a round that releases a drone changes whether it counts as alive.
LEMMA AppliedAlive ==
  ASSUME TypeInv, NEW p \in Peer, NEW q \in Peer, NEW r \in Round, r.released # q
  PROVE  ViewAfter(p, r)[q].alive = view[p][q].alive
<1>1. view[p][q] \in DroneView
  BY DEF TypeInv, TypeOK
<1>2. \A c : [view[p][q] EXCEPT !.cell = c].alive = view[p][q].alive
  BY <1>1 DEF DroneView
<1>3. AppliedView(p, r)[q].alive = view[p][q].alive
  BY <1>2 DEF AppliedView
<1>4. QED
  BY <1>3 DEF ViewAfter

LEMMA SendSilence ==
  ASSUME TypeInv, NEW p \in Peer, NEW ms, Send(p, ms), \A m \in ms : FromDecider(m)'
  PROVE  \A q \in Peer : \A m \in net'[q] : m \in net[q] \/ FromDecider(m)'
BY DEF Send, TypeInv, TypeOK

LEMMA OtherMessages ==
  ASSUME NEW p \in Peer
  PROVE  /\ \A t : FromDecider(AliveMessage(p, t))'
         /\ \A t, v : FromDecider(StateMessage(p, t, v))'
         /\ \A c : FromDecider(ClaimMessage(p, c))'
BY DEF FromDecider, AliveMessage, StateMessage, ClaimMessage

LEMMA StartTickSilence ==
  ASSUME ClaimInv, NEW p \in Peer, NEW t, NEW h, NEW own, NEW extra,
         own.alive = view[p][p].alive, \A m \in extra : FromDecider(m)',
         StartTick(p, t, h, own, extra)
  PROVE  SilenceStep(p)
<1>1. TypeInv /\ view \in [Peer -> [Peer -> DroneView]]
  BY DEF ClaimInv, TypeInv, TypeOK
<1>2. view' = [view EXCEPT ![p][p] = own] /\ decided' = decided
  BY DEF StartTick
<1>3. \A q \in Peer : \A m \in net'[q] : m \in net[q] \/ FromDecider(m)'
  <2> DEFINE ms == extra \cup IF own.alive THEN {AliveMessage(p, now[p] + t)} ELSE {}
  <2>1. Send(p, ms)
    BY DEF StartTick
  <2>2. \A m \in ms : FromDecider(m)'
    BY OtherMessages
  <2> HIDE DEF ms
  <2>3. QED
    BY <1>1, <2>1, <2>2, SendSilence
<1>4. view'[p][p].alive \/ ~view[p][p].alive
  BY <1>1, <1>2
<1>5. QED
  BY <1>1, <1>2, <1>3, <1>4 DEF SilenceStep

\* detect_stale_peers skips the peer itself, in the round as in the mark.
LEMMA DetectStaleSilence ==
  ASSUME ClaimInv, NEW p \in Peer, NEW q \in Peer, DetectStale(p, q)
  PROVE  SilenceStep(p)
<1>1. TypeInv /\ view \in [Peer -> [Peer -> DroneView]] /\ p # q
  BY DetectStaleEffect DEF ClaimInv, TypeInv, TypeOK
<1>2. CASE /\ view[p][q].cell # None
           /\ view' = [view EXCEPT ![p] = [ViewAfter(p, ReleaseRound(p, q))
                                             EXCEPT ![q] = Gone]]
           /\ Send(p, {RoundMessage(p, ReleaseRound(p, q))})
           /\ decided' = decided \cup {Decided(p, {}, q)}
  <2> DEFINE r == ReleaseRound(p, q)
  <2>0. r \in Round
    BY <1>1, <1>2, ReleaseRoundType
  <2>1. r \in Round /\ ViewAfter(p, r) \in [Peer -> DroneView] /\ r.released = q
    <3>1. r.released = q
      BY DEF ReleaseRound
    <3> HIDE DEF r
    <3>2. QED
      BY <1>1, <2>0, <3>1, ViewAfterType DEF TypeInv
  <2>2. ViewAfter(p, r)[p].alive = view[p][p].alive
    BY <1>1, <2>1, AppliedAlive
  <2>3. \A m \in {RoundMessage(p, r)} : FromDecider(m)'
    <3>1. \E k \in decided' : k.by = p /\ k.released = q
      <4>1. Decided(p, {}, q) \in decided'
        BY <1>2
      <4>2. Decided(p, {}, q).by = p /\ Decided(p, {}, q).released = q
        BY DEF Decided
      <4>3. QED
        BY <4>1, <4>2
    <3>2. \A m \in {RoundMessage(p, r)} : m.from = p /\ m.round.released = q
      BY DEF RoundMessage, ReleaseRound
    <3> HIDE DEF r
    <3>3. QED
      BY <3>1, <3>2 DEF FromDecider, ReleasedBy
  <2>4. Send(p, {RoundMessage(p, r)})
    BY <1>2
  <2> HIDE DEF r
  <2>5. \A d \in Peer : \A m \in net'[d] : m \in net[d] \/ FromDecider(m)'
    BY <1>1, <2>3, <2>4, SendSilence
  <2>6. view'[p][p] = ViewAfter(p, r)[p] /\ \A d \in Peer \ {p} : view'[d] = view[d]
    BY <1>1, <1>2, <2>1 DEF r
  <2>7. QED
    BY <1>2, <2>2, <2>5, <2>6 DEF SilenceStep
<1>3. CASE view' = [view EXCEPT ![p][q] = Gone] /\ UNCHANGED <<net, decided>>
  <2>1. view'[p][p] = view[p][p] /\ \A d \in Peer \ {p} : view'[d] = view[d]
    BY <1>1, <1>3
  <2>2. QED
    BY <1>3, <2>1 DEF SilenceStep
<1>4. QED
  BY <1>2, <1>3, DetectStaleEffect

LEMMA ReceiveSilence ==
  ASSUME SilenceInv, NEW p \in Peer, Receive(p)
  PROVE  SilenceStep(p)
<1>1. /\ ClaimInv /\ TypeInv /\ view \in [Peer -> [Peer -> DroneView]]
      /\ p # None
  BY AuctionAssumption DEF SilenceInv, ClaimInv, TypeInv, TypeOK, Peer
<1>2. PICK m \in net[p] : \/ HandleAlive(p, m)
                          \/ HandleDroneState(p, m)
                          \/ HandleClaim(p, m)
                          \/ HandleRound(p, m)
  BY DEF Receive
<1>3. Take(p, m)
  BY <1>2 DEF HandleAlive, HandleDroneState, HandleClaim, HandleRound
<1>4. /\ decided' = decided /\ m \in Message /\ m.from # p
      /\ \A q \in Peer : net'[q] \in SUBSET net[q]
  BY <1>1, <1>3, TakeStep DEF Take, FromOthers
<1>5. CASE HandleAlive(p, m)
  <2>1. view' = [view EXCEPT ![p] = [view[p] EXCEPT ![m.from].alive = TRUE,
                                                    ![m.from].reachable = TRUE]]
    BY <1>1, <1>5 DEF HandleAlive
  <2>2. view'[p][p] = view[p][p] /\ \A q \in Peer \ {p} : view'[q] = view[q]
    BY <1>1, <1>4, <2>1
  <2>3. QED
    BY <1>4, <2>2 DEF SilenceStep
<1>6. CASE HandleDroneState(p, m)
  <2>1. view' = [view EXCEPT ![p][m.from] = m.view]
    BY <1>6 DEF HandleDroneState
  <2>2. view'[p][p] = view[p][p] /\ \A q \in Peer \ {p} : view'[q] = view[q]
    BY <1>1, <1>4, <2>1
  <2>3. QED
    BY <1>4, <2>2 DEF SilenceStep
<1>7. CASE HandleClaim(p, m)
  BY <1>4, <1>7 DEF HandleClaim, SilenceStep
<1>8. CASE HandleRound(p, m)
  <2>1. /\ m.type = "round" /\ m.round \in Round
        /\ view' = [view EXCEPT ![p] = ViewAfter(p, m.round)]
    BY <1>1, <1>4, <1>8 DEF HandleRound, Message
  <2>2. view'[p] = ViewAfter(p, m.round) /\ \A q \in Peer \ {p} : view'[q] = view[q]
    BY <1>1, <2>1
  <2>3. CASE m.round.released = p
    <3>1. ReleasedBy(m.from, p)
      BY <1>1, <1>2, <2>1, <2>3 DEF SilenceInv, FromDecider
    <3>2. \E k \in decided : k.released = p /\ k.by # p
      BY <1>4, <3>1 DEF ReleasedBy
    <3>3. QED
      BY <1>4, <2>2, <3>2 DEF SilenceStep
  <2>4. CASE m.round.released # p
    <3>1. ViewAfter(p, m.round)[p].alive = view[p][p].alive
      BY <1>1, <2>1, <2>4, AppliedAlive
    <3>2. QED
      BY <1>4, <2>2, <3>1 DEF SilenceStep
  <2>5. QED
    BY <2>3, <2>4
<1>9. QED
  BY <1>2, <1>5, <1>6, <1>7, <1>8

LEMMA ResolveCellSilence ==
  ASSUME ClaimInv, NEW p \in Peer, ResolveCell(p)
  PROVE  SilenceStep(p)
<1>1. TypeInv /\ view \in [Peer -> [Peer -> DroneView]] /\ p # None
  BY AuctionAssumption DEF ClaimInv, TypeInv, TypeOK, Peer
<1>2. PICK r \in Round : /\ r.released = None
                         /\ view' = [view EXCEPT ![p] = ViewAfter(p, r)]
                         /\ Send(p, {RoundMessage(p, r)})
                         /\ \E S : decided' = decided \cup {Decided(p, S, None)}
  BY <1>1, ResolveCellEffect
<1>3. \A m \in {RoundMessage(p, r)} : FromDecider(m)'
  <2>1. \A m \in {RoundMessage(p, r)} : m.round.released = None
    BY <1>2 DEF RoundMessage
  <2>2. QED
    BY <2>1 DEF FromDecider
<1>4. \A d \in Peer : \A m \in net'[d] : m \in net[d] \/ FromDecider(m)'
  BY <1>1, <1>2, <1>3, SendSilence
<1>5. ViewAfter(p, r)[p].alive = view[p][p].alive
  BY <1>1, <1>2, AppliedAlive
<1>6. view'[p] = ViewAfter(p, r) /\ \A d \in Peer \ {p} : view'[d] = view[d]
  BY <1>1, <1>2
<1>7. QED
  BY <1>2, <1>4, <1>5, <1>6 DEF SilenceStep

LEMMA ActSilence ==
  ASSUME ClaimInv, NEW p \in Peer, Act(p)
  PROVE  SilenceStep(p)
<1>1. TypeInv /\ view \in [Peer -> [Peer -> DroneView]]
  BY DEF ClaimInv, TypeInv, TypeOK
<1>2. PICK own \in DroneView, claims \in SUBSET Claim :
           /\ own.alive = view[p][p].alive
           /\ view' = [view EXCEPT ![p] = [view[p] EXCEPT ![p] = own]]
           /\ Send(p, {StateMessage(p, now[p], own)} \cup
                      {ClaimMessage(p, c) : c \in claims})
  BY <1>1, ActEffect
<1>3. \A d \in Peer : \A m \in net'[d] : m \in net[d] \/ FromDecider(m)'
  <2> DEFINE ms == {StateMessage(p, now[p], own)} \cup {ClaimMessage(p, c) : c \in claims}
  <2>1. \A m \in ms : FromDecider(m)'
    BY OtherMessages
  <2>2. Send(p, ms)
    BY <1>2
  <2> HIDE DEF ms
  <2>3. QED
    BY <1>1, <2>1, <2>2, SendSilence
<1>4. view'[p][p] = own /\ \A d \in Peer \ {p} : view'[d] = view[d]
  BY <1>1, <1>2
<1>5. decided' = decided
  BY DEF Act
<1>6. QED
  BY <1>2, <1>3, <1>4, <1>5 DEF SilenceStep
-----------------------------------------------------------------------------
LEMMA NextSilence ==
  ASSUME SilenceInv, Next
  PROVE  \E p \in Peer : SilenceStep(p)
<1>0. ClaimInv
  BY DEF SilenceInv
<1>1. ASSUME NEW p \in Peer, NEW t \in TickLengths, BeginTick(p, t) PROVE SilenceStep(p)
  <2>1. StartTick(p, t, health[p], view[p][p], {})
    BY <1>1 DEF BeginTick
  <2>2. QED
    BY <1>0, <2>1, StartTickSilence
<1>2. ASSUME NEW p \in Peer, NEW t \in TickLengths, Fail(p, t) PROVE SilenceStep(p)
  <2> DEFINE h == IF FailureMode = "crash" THEN "degraded" ELSE "partitioned"
             own == [view[p][p] EXCEPT !.reachable = FALSE]
  <2>1. own.alive = view[p][p].alive
    <3>1. view[p][p] \in DroneView
      BY <1>0 DEF ClaimInv, TypeInv, TypeOK
    <3>2. QED
      BY <3>1, ViewExceptType
  <2>2. StartTick(p, t, h, own, {})
    BY <1>2 DEF Fail
  <2> HIDE DEF h, own
  <2>3. QED
    BY <1>0, <2>1, <2>2, StartTickSilence
<1>3. ASSUME NEW p \in Peer, NEW t \in TickLengths, Reconnect(p, t) PROVE SilenceStep(p)
  <2> DEFINE own == [view[p][p] EXCEPT !.reachable = TRUE]
             extra == {AliveMessage(p, now[p] + t), StateMessage(p, now[p] + t, own)}
  <2>1. own.alive = view[p][p].alive
    <3>1. view[p][p] \in DroneView
      BY <1>0 DEF ClaimInv, TypeInv, TypeOK
    <3>2. QED
      BY <3>1, ViewExceptType
  <2>2. StartTick(p, t, "recovered", own, extra)
    BY <1>3 DEF Reconnect
  <2>3. \A m \in extra : FromDecider(m)'
    BY OtherMessages
  <2> HIDE DEF own, extra
  <2>4. QED
    BY <1>0, <2>1, <2>2, <2>3, StartTickSilence
<1>4. ASSUME NEW p \in Peer, BeginResolve(p) \/ EndResolve(p) PROVE SilenceStep(p)
  BY <1>4 DEF BeginResolve, EndResolve, SilenceStep
<1>5. QED
  BY <1>0, <1>1, <1>2, <1>3, <1>4, DetectStaleSilence, ReceiveSilence,
     ResolveCellSilence, ActSilence DEF Next

LEMMA SilenceInvNext == SilenceInv /\ [Next]_vars => SilenceInv'
<1> SUFFICES ASSUME SilenceInv, [Next]_vars PROVE SilenceInv'
  OBVIOUS
<1>1. ClaimInv'
  BY ClaimInvNext DEF SilenceInv
<1>2. CASE Next
  <2>1. PICK p \in Peer : SilenceStep(p)
    BY <1>2, NextSilence
  <2>2. ASSUME NEW q \in Peer, NEW m \in net'[q] PROVE FromDecider(m)'
    <3>1. CASE m \in net[q]
      BY <2>1, <3>1 DEF SilenceInv, SilenceStep, FromDecider, ReleasedBy
    <3>2. CASE m \notin net[q]
      BY <2>1, <2>2, <3>2 DEF SilenceStep
    <3>3. QED
      BY <3>1, <3>2
  <2>3. DeadByRelease'
    BY <2>1 DEF SilenceInv, SilenceStep, DeadByRelease
  <2>4. QED
    BY <1>1, <2>2, <2>3 DEF SilenceInv
<1>3. CASE UNCHANGED vars
  BY <1>1, <1>3 DEF vars, SilenceInv, FromDecider, ReleasedBy, DeadByRelease
<1>4. QED
  BY <1>2, <1>3

\* A peer falls silent only on a release by another peer, in any instance: its
\* own suspicions, state messages and a late rejoin never mark it stale.
THEOREM DeadOnlyByRelease == Spec => []DeadByRelease
<1>1. Init => SilenceInv
  <2> SUFFICES ASSUME Init PROVE SilenceInv
    OBVIOUS
  <2>1. ClaimInv
    <3>1. \A p \in Peer : InTime(p) /\ NothingDue(p)
      BY DEF Init, InTime, NothingDue
    <3>2. MailFromOthers
      BY DEF Init, MailFromOthers, FromOthers, AliveMessage, StateMessage
    <3>3. QED
      BY <3>1, <3>2, InitType DEF ClaimInv
  <2>2. \A p \in Peer : \A m \in net[p] : FromDecider(m)
    BY DEF Init, FromDecider, AliveMessage, StateMessage
  <2>3. DeadByRelease
    BY DEF Init, DeadByRelease, Unassigned
  <2>4. QED
    BY <2>1, <2>2, <2>3 DEF SilenceInv
<1>2. SilenceInv => DeadByRelease
  BY DEF SilenceInv
<1>3. QED
  BY <1>1, <1>2, SilenceInvNext, PTL DEF Spec
-----------------------------------------------------------------------------
(***************************************************************************)
(* Winners without faults: at most two peers, in step, a tick from a claim *)
(* to its decision.  Each peer decides the contests of a tick in the order *)
(* of their cells; the one behind finds them decided in its inbox, decides *)
(* them alike, or both.  With a third peer the messages of two senders     *)
(* cross: the invariants below fail, and so does WinnersExclusive.         *)
(***************************************************************************)

InLockstep ==
  /\ Synchronous /\ Transport = "local"
  /\ MayFail = {} /\ Suspectable = {} /\ TickLengths = {1}
  /\ MaxTracked >= 2
  /\ \A p, q, r \in Peer : p = q \/ q = r \/ p = r

\* The time of the claims a peer decides next, or is deciding.
Front(p) == IF phase[p] \in {"act", "idle"} THEN now[p] ELSE now[p] - 1

Mail(p, type) == {m \in net[p] : m.type = type}

\* The claims a peer holds or will be told of.
Known(p) == pending[p] \cup {m.claim : m \in Mail(p, "claim")}

Open(p) == {c \in Known(p) : c.ts = Front(p)}

On(p, x) == {c \in Open(p) : c.cell = x}

\* Rounds on their way to a peer that has not decided them itself.
News(p) == {m \in Mail(p, "round") : m.round.id > roundId[p]}

Foretold(p) == {c \in Open(p) : \E m \in News(p) : m.round.cell = c.cell}

Won(kind) == kind \in {"winner", "left", "right"}

LeadSeat(c, S) ==
  [cell |-> c.cell,
   kind |-> IF ~Tied(S) THEN "winner" ELSE IF Rank(c, S) = 0 THEN "left" ELSE "right"]

\* An award that is a decision of the contest S, up to the fallbacks.
Settles(award, S) ==
  /\ DOMAIN award = Claimants(S)
  /\ \A c \in S : IF c \in Losers(S) THEN ~Won(award[c.drone].kind)
                                     ELSE award[c.drone] = LeadSeat(c, S)

AllUp ==
  /\ \A p, q \in Peer : Active(view[p][q])
  /\ \A p \in Peer : health[p] = "fresh"
  /\ \A p \in Peer : \A m \in net[p] :
       /\ m.type = "state" => Active(m.view)
       /\ m.type = "round" => m.round.released = None

InPhase ==
  /\ \A p \in Peer : phase[p] # "idle" => now[p] >= 1
  /\ \A p, q \in Peer : \/ now[q] = now[p]
                        \/ now[q] = now[p] + 1 /\ phase[p] = "idle"
                        \/ now[p] = now[q] + 1 /\ phase[q] = "idle"

\* What a peer has not sent yet in this tick.
Unsent(m, p) ==
  \/ m.type \in {"state", "claim"} /\ phase[p] # "idle"
  \/ m.type = "round" /\ phase[p] \in {"watch", "poll"}

\* Messages of the last tick are taken before the claims are resolved.
OnTime ==
  \A p \in Peer : \A m \in net[p] :
    /\ m.from # p
    /\ m.sent >= IF phase[p] = "resolve" THEN Front(p) + 1 ELSE Front(p)
    /\ m.sent <= now[m.from]
    /\ Unsent(m, m.from) => m.sent < now[m.from]
    /\ m.type = "claim" => m.claim.drone = m.from /\ m.claim.ts = m.sent

\* One claim of a drone in a tick, none before the last step of its tick.
ClaimsOnce ==
  \A p \in Peer : \A c \in Known(p) :
    /\ c.ts <= now[c.drone]
    /\ phase[c.drone] # "idle" => c.ts < now[c.drone]
    /\ \A d \in Known(p) : c.drone = d.drone /\ c.ts = d.ts => c = d

Waiting ==
  \A p \in Peer :
    /\ \A c \in Known(p) : c.ts >= Front(p) /\ c \notin resolved[p]
    /\ \A c \in resolved[p] : c.ts <= Front(p) /\ (c.ts = Front(p) => phase[p] = "resolve")

StepInv == AllUp /\ InPhase /\ OnTime /\ ClaimsOnce /\ Waiting
-----------------------------------------------------------------------------
\* The rounds a peer lacks are on their way to it, and those of both peers are
\* numbered in one sequence.
Numbered ==
  \A p, q \in Peer : p # q =>
    /\ \A m \in Mail(p, "round") : m.round.id >= 1 /\ m.round.id <= roundId[q]
    /\ \A n \in Nat : roundId[p] < n /\ n <= roundId[q] => \E m \in News(p) : m.round.id = n

LastTwo ==
  \A p \in Peer :
    /\ roundId[p] >= 1 => roundId[p] \in processed[p]
    /\ roundId[p] >= 2 => roundId[p] - 1 \in processed[p]

\* News decide contests their peer has open, as it would decide them.
NewsDecides ==
  \A p \in Peer : \A m \in News(p) :
    /\ m.sent = Front(p) + 1
    /\ On(p, m.round.cell) # {}
    /\ Settles(m.round.award, On(p, m.round.cell))

NewsSorted ==
  \A p \in Peer : \A m \in News(p) :
    /\ \A n \in News(p) : m.round.id < n.round.id <=> m.round.cell < n.round.cell
    /\ \A c \in Open(p) \ Foretold(p) : m.round.cell < c.cell

\* Claims of the tick in hand are taken after the rounds sent before them.
NewsFirst == \A p \in Peer : \A c \in pending[p] : c.ts > Front(p) => News(p) = {}

\* The peers have the same claims to decide, but for what one has decided.
Agreed == \A p, q \in Peer : Known(p) \ Foretold(p) = Known(q) \ Foretold(q)

\* Of the rounds a peer decided too, one of the last two may still arrive.
LateRounds ==
  \A p \in Peer : \A m \in Mail(p, "round") :
    m.round.id <= roundId[p] =>
      /\ roundId[p] <= m.round.id + 1
      /\ m.sent = Front(p) + 1 =>
           /\ \E d \in Peer : \A c \in Open(p) : c.drone # d
           /\ roundId[p] = m.round.id + 1 => Open(p) = {}

RoundInv ==
  /\ Numbered /\ LastTwo /\ NewsDecides /\ NewsSorted
  /\ NewsFirst /\ Agreed /\ LateRounds
-----------------------------------------------------------------------------
Holds(p) == view[p][p].cell # None /\ Won(part[p])

Seated ==
  \A p \in Peer : view[p][p].cell # None => Won(part[p]) \/ part[p] = "fallback"

\* q is about to learn that p won its cell.
Told(p, q) ==
  \E m \in News(q) :
    /\ p \in DOMAIN m.round.award
    /\ m.round.award[p] = [cell |-> view[p][p].cell, kind |-> part[p]]
    /\ \A n \in Mail(q, "state") : n.sent >= m.sent => n.view.cell = view[p][p].cell

\* q holds cell x to be p's, and does not claim it.
Respects(q, p, x) ==
  /\ roundId[q] >= 1
  /\ view[q][p].cell = x
  /\ \A k \in Known(q) : k.drone = q => k.cell # x

\* q knows what p won, and nothing on its way says otherwise.
Knows(p, q) ==
  /\ Respects(q, p, view[p][p].cell)
  /\ \A k \in Known(q) : k.drone # p
  /\ \A n \in Mail(q, "state") : n.view.cell = view[p][p].cell

WinnersKnown ==
  \A p, q \in Peer : p # q /\ Holds(p) => Told(p, q) \/ Knows(p, q)

\* q has seated p and waits for p to learn it.
WinnersAwaited ==
  \A p, q \in Peer : p # q =>
    \A m \in News(p) :
      p \in DOMAIN m.round.award /\ Won(m.round.award[p].kind)
        => Respects(q, p, m.round.award[p].cell)

\* A winner claims nothing while it has its cell.
HoldersQuiet == \A p \in Peer : Holds(p) => \A c \in Known(p) : c.drone # p

HoldersApart ==
  \A p, q \in Peer :
    p # q /\ Holds(p) /\ Holds(q) /\ view[p][p].cell = view[q][q].cell
      => {part[p], part[q]} = {"left", "right"}

OwnerInv == Seated /\ WinnersKnown /\ WinnersAwaited /\ HoldersQuiet /\ HoldersApart

\* What every step in lockstep preserves.
LockInv == TypeInv /\ RoundsBelow /\ StepInv /\ RoundInv /\ OwnerInv
-----------------------------------------------------------------------------
LEMMA KnownOf ==
  ASSUME NEW p, NEW c
  PROVE  c \in Known(p) <=> \/ c \in pending[p]
                            \/ \E m \in net[p] : m.type = "claim" /\ m.claim = c
BY DEF Known, Mail

LEMMA MailType ==
  ASSUME TypeInv, NEW p \in Peer
  PROVE  /\ net[p] \in SUBSET Message
         /\ \A m \in net[p] : m.sent \in Nat /\ m.from \in Peer
         /\ \A m \in Mail(p, "round") : m \in net[p] /\ m.type = "round" /\ m.round \in Round
         /\ \A m \in Mail(p, "state") : m \in net[p] /\ m.type = "state" /\ m.view \in DroneView
         /\ \A m \in Mail(p, "claim") : m \in net[p] /\ m.type = "claim" /\ m.claim \in Claim
<1>1. net[p] \in SUBSET Message
  BY DEF TypeInv, TypeOK
<1>2. \A m \in net[p] : m.sent \in Nat /\ m.from \in Peer
  BY <1>1 DEF Message
<1>3. \A m \in Mail(p, "round") : m \in net[p] /\ m.type = "round" /\ m.round \in Round
  BY <1>1 DEF Message, Mail
<1>4. \A m \in Mail(p, "state") : m \in net[p] /\ m.type = "state" /\ m.view \in DroneView
  BY <1>1 DEF Message, Mail
<1>5. \A m \in Mail(p, "claim") : m \in net[p] /\ m.type = "claim" /\ m.claim \in Claim
  BY <1>1 DEF Message, Mail
<1>6. QED
  BY <1>1, <1>2, <1>3, <1>4, <1>5

LEMMA RoundType ==
  ASSUME NEW r \in Round
  PROVE  r.id \in Nat /\ r.cell \in Cell /\ r.cell \in Nat /\ DOMAIN r.award \in SUBSET Drone
<1>1. r.id \in Nat /\ r.cell \in Cell /\ r.award \in Awards
  BY DEF Round
<1>2. DOMAIN r.award \in SUBSET Drone
  BY <1>1 DEF Awards
<1>3. QED
  BY <1>1, <1>2, AuctionAssumption

LEMMA KnownType ==
  ASSUME TypeInv, NEW p \in Peer
  PROVE  /\ Known(p) \in SUBSET Claim
         /\ pending[p] \in SUBSET Known(p)
         /\ \A c \in Known(p) : c.ts \in Nat /\ c.drone \in Peer /\ c.cell \in Cell /\ c.cell \in Nat
<1>1. pending[p] \in SUBSET Claim
  BY DEF TypeInv, TypeOK
<1>2. Known(p) \in SUBSET Claim
  BY <1>1, MailType DEF Known
<1>3. \A c \in Claim : c.ts \in Nat /\ c.drone \in Peer /\ c.cell \in Cell /\ c.cell \in Nat
  BY AuctionAssumption DEF Claim, Peer
<1>4. QED
  BY <1>2, <1>3 DEF Known

LEMMA FrontType ==
  ASSUME TypeInv, InPhase, NEW p \in Peer
  PROVE  /\ now[p] \in Nat /\ roundId[p] \in Nat /\ phase[p] \in Phase
         /\ Front(p) \in Nat
         /\ phase[p] \in {"watch", "poll", "resolve"} => now[p] = Front(p) + 1
         /\ phase[p] \in {"act", "idle"} => now[p] = Front(p)
BY DEF TypeInv, TypeOK, InPhase, Front, Phase

\* Two claims of a tick by one drone are one claim, whoever knows them.
LEMMA CommonClaim ==
  ASSUME TypeInv, StepInv, RoundInv, NEW p \in Peer, NEW q \in Peer,
         News(p) = {}
  PROVE  /\ Known(p) = Known(q) \ Foretold(q)
         /\ Foretold(p) = {}
<1>1. Foretold(p) = {}
  BY DEF Foretold
<1>2. QED
  BY <1>1 DEF RoundInv, Agreed

\* A peer with news is behind the other, which has none, has heard all there was
\* of the last tick and has not ended this one for the other.
LEMMA Behind ==
  ASSUME InLockstep, TypeInv, StepInv, RoundInv, NEW p \in Peer, NEW q \in Peer, p # q,
         News(q) # {}
  PROVE  /\ roundId[q] < roundId[p]
         /\ News(p) = {}
         /\ Mail(p, "state") = {}
         /\ phase[q] # "act"
         /\ phase[p] \in {"resolve", "act", "idle"}
         /\ Front(q) <= Front(p)
<1>1. PICK m \in News(q) : TRUE
  OBVIOUS
<1>2. /\ m \in net[q] /\ m.type = "round" /\ m.round.id > roundId[q]
      /\ m \in Mail(q, "round") /\ m.round.id \in Nat
  BY MailType, RoundType DEF News
<1>3. /\ roundId[p] \in Nat /\ roundId[q] \in Nat /\ Front(p) \in Nat /\ Front(q) \in Nat
      /\ now[p] \in Nat /\ now[q] \in Nat /\ phase[p] \in Phase /\ phase[q] \in Phase
  BY FrontType DEF StepInv
<1>4. roundId[q] < roundId[p]
  <2>1. m.round.id <= roundId[p]
    BY <1>2 DEF RoundInv, Numbered
  <2>2. QED
    BY <1>2, <1>3, <2>1
<1>5. News(p) = {}
  <2> SUFFICES ASSUME NEW n \in News(p) PROVE FALSE
    OBVIOUS
  <2>1. n \in Mail(p, "round") /\ n.round.id > roundId[p] /\ n.round.id \in Nat
    BY MailType, RoundType DEF News
  <2>2. n.round.id <= roundId[q]
    BY <2>1 DEF RoundInv, Numbered
  <2>3. QED
    BY <1>3, <1>4, <2>1, <2>2
<1>6. m.sent = Front(q) + 1 /\ m.sent \in Nat
  BY <1>1, <1>2, MailType DEF RoundInv, NewsDecides
<1>7. m.from = p
  BY <1>2, MailType DEF InLockstep, StepInv, OnTime
<1>8. /\ m.sent <= now[p]
      /\ phase[p] \in {"watch", "poll"} => m.sent < now[p]
  BY <1>2, <1>7 DEF StepInv, OnTime, Unsent
<1>9. \/ now[q] = now[p]
      \/ now[q] = now[p] + 1 /\ phase[p] = "idle"
      \/ now[p] = now[q] + 1 /\ phase[q] = "idle"
  BY DEF StepInv, InPhase
<1>10. /\ phase[q] \in {"watch", "poll", "resolve"} => now[q] = Front(q) + 1
       /\ phase[q] \in {"act", "idle"} => now[q] = Front(q)
       /\ phase[p] \in {"watch", "poll", "resolve"} => now[p] = Front(p) + 1
       /\ phase[p] \in {"act", "idle"} => now[p] = Front(p)
  BY FrontType DEF StepInv
<1>11. phase[q] # "act" /\ phase[p] \in {"resolve", "act", "idle"} /\ Front(q) <= Front(p)
  BY <1>3, <1>6, <1>8, <1>9, <1>10 DEF Phase
<1>12. Mail(p, "state") = {}
  <2> SUFFICES ASSUME NEW n \in Mail(p, "state") PROVE FALSE
    OBVIOUS
  <2>1. n \in net[p] /\ n.type = "state" /\ n.sent \in Nat /\ n.from \in Peer
    BY MailType
  <2>2. n.from = q
    BY <2>1 DEF InLockstep, StepInv, OnTime
  <2>3. /\ n.sent <= now[q]
        /\ phase[q] # "idle" => n.sent < now[q]
        /\ n.sent >= IF phase[p] = "resolve" THEN Front(p) + 1 ELSE Front(p)
    BY <2>1, <2>2 DEF StepInv, OnTime, Unsent
  <2>4. QED
    BY <1>3, <1>6, <1>8, <1>9, <1>10, <1>11, <2>1, <2>3 DEF Phase
<1>13. QED
  BY <1>4, <1>5, <1>11, <1>12
-----------------------------------------------------------------------------
\* No claim or round is made, decided or dropped.
SameClaims ==
  /\ roundId' = roundId
  /\ \A p \in Peer : /\ Known(p)' = Known(p)
                     /\ News(p)' = News(p)
                     /\ Mail(p, "round")' \in SUBSET Mail(p, "round")

LEMMA SameOpen ==
  ASSUME SameClaims, NEW p \in Peer, Front(p)' = Front(p)
  PROVE  /\ Open(p)' = Open(p)
         /\ \A x : On(p, x)' = On(p, x)
         /\ Foretold(p)' = Foretold(p)
<1>1. Open(p)' = Open(p)
  BY DEF SameClaims, Open
<1>2. \A x : On(p, x)' = On(p, x)
  BY <1>1 DEF On
<1>3. Foretold(p)' = Foretold(p)
  BY <1>1 DEF Foretold, SameClaims
<1>4. QED
  BY <1>1, <1>2, <1>3

\* The rounds stay sound while nothing is decided and no peer moves its front.
LEMMA QuietRounds ==
  ASSUME RoundInv, SameClaims, processed' = processed,
         \A p \in Peer : Front(p)' = Front(p),
         \A p \in Peer : \A c \in pending'[p] :
            c \in pending[p] \/ c.ts <= Front(p) \/ News(p) = {},
         \A p \in Peer : Front(p) \in Nat /\ \A c \in pending'[p] : c.ts \in Nat
  PROVE  RoundInv'
<1>1. \A p \in Peer : /\ Open(p)' = Open(p)
                      /\ Foretold(p)' = Foretold(p)
                      /\ \A x : On(p, x)' = On(p, x)
  BY SameOpen
<1>2. /\ roundId' = roundId
      /\ \A p \in Peer : /\ Known(p)' = Known(p)
                         /\ News(p)' = News(p)
                         /\ Mail(p, "round")' \in SUBSET Mail(p, "round")
  BY DEF SameClaims
<1>3. Numbered'
  BY <1>2 DEF RoundInv, Numbered
<1>4. LastTwo'
  BY <1>2 DEF RoundInv, LastTwo
<1>5. NewsDecides'
  BY <1>1, <1>2 DEF RoundInv, NewsDecides
<1>6. NewsSorted'
  BY <1>1, <1>2 DEF RoundInv, NewsSorted
<1>7. NewsFirst'
  BY <1>2 DEF RoundInv, NewsFirst
<1>8. Agreed'
  BY <1>1, <1>2 DEF RoundInv, Agreed
<1>9. LateRounds'
  BY <1>1, <1>2 DEF RoundInv, LateRounds
<1>10. QED
  BY <1>3, <1>4, <1>5, <1>6, <1>7, <1>8, <1>9 DEF RoundInv

\* What is won stays won and known while nothing is decided or told.
LEMMA QuietOwners ==
  ASSUME OwnerInv, SameClaims, view' = view, part' = part,
         \A p \in Peer : Mail(p, "state")' \in SUBSET Mail(p, "state")
  PROVE  OwnerInv'
<1>1. /\ roundId' = roundId
      /\ \A p \in Peer : Known(p)' = Known(p) /\ News(p)' = News(p)
  BY DEF SameClaims
<1>2. \A p \in Peer : Holds(p)' <=> Holds(p)
  BY DEF Holds, Won
<1>3. \A p, q \in Peer : \A x : Respects(q, p, x)' <=> Respects(q, p, x)
  BY <1>1 DEF Respects
<1>4. \A p, q \in Peer : Told(p, q) => Told(p, q)'
  BY <1>1 DEF Told
<1>5. \A p, q \in Peer : Knows(p, q) => Knows(p, q)'
  BY <1>1, <1>3 DEF Knows
<1>6. Seated'
  BY DEF OwnerInv, Seated, Won
<1>7. WinnersKnown'
  BY <1>2, <1>4, <1>5 DEF OwnerInv, WinnersKnown
<1>8. WinnersAwaited'
  BY <1>1, <1>3 DEF OwnerInv, WinnersAwaited, Won
<1>9. HoldersQuiet'
  BY <1>1, <1>2 DEF OwnerInv, HoldersQuiet
<1>10. HoldersApart'
  BY <1>2 DEF OwnerInv, HoldersApart
<1>11. QED
  BY <1>6, <1>7, <1>8, <1>9, <1>10 DEF OwnerInv
-----------------------------------------------------------------------------
\* The views, the clocks and the claims of a step that sends only what is due.
LEMMA BeginTickLock ==
  ASSUME InLockstep, LockInv, TypeInv', NEW p \in Peer, NEW t \in TickLengths, BeginTick(p, t)
  PROVE  StepInv' /\ RoundInv' /\ OwnerInv'
<1> USE DEF LockInv
<1>0. t = 1
  BY DEF InLockstep
<1> DEFINE hello == AliveMessage(p, now[p] + 1)
<1>1. /\ phase[p] = "idle"
      /\ now' = [now EXCEPT ![p] = @ + 1]
      /\ phase' = [phase EXCEPT ![p] = "watch"]
      /\ health' = [health EXCEPT ![p] = health[p]]
      /\ view' = [view EXCEPT ![p][p] = view[p][p]]
      /\ Send(p, IF view[p][p].alive THEN {hello} ELSE {})
      /\ UNCHANGED <<roundId, processed, pending, resolved, released, part, decided>>
      /\ InStep(p)
  BY <1>0 DEF BeginTick, StartTick
<1>2. hello.type = "alive" /\ hello.from = p /\ hello.sent = now[p] + 1
  BY DEF AliveMessage, Sent, InLockstep
<1> HIDE DEF hello
<1>3. \A q \in Peer : \A m \in net'[q] : m \in net[q] \/ (q # p /\ m = hello)
  BY <1>1 DEF Send, TypeInv, TypeOK
<1>4. \A q \in Peer : \A m \in net[q] : m \in net'[q]
  BY <1>1 DEF Send, TypeInv, TypeOK
<1>5. /\ view' = view /\ health' = health
      /\ now'[p] = now[p] + 1 /\ phase'[p] = "watch"
      /\ \A q \in Peer \ {p} : now'[q] = now[q] /\ phase'[q] = phase[q]
  BY <1>1 DEF TypeInv, TypeOK
<1>6. \A q \in Peer : Front(q)' = Front(q)
  <2> TAKE q \in Peer
  <2>1. CASE q = p
    BY <1>1, <1>5, <2>1, FrontType DEF Front, StepInv
  <2>2. CASE q # p
    BY <1>5, <2>2 DEF Front
  <2>3. QED
    BY <2>1, <2>2
<1>7. \A q \in Peer : \A k \in {"round", "state", "claim"} : Mail(q, k)' = Mail(q, k)
  BY <1>2, <1>3, <1>4 DEF Mail
<1>8. /\ pending' = pending /\ resolved' = resolved /\ part' = part
      /\ processed' = processed /\ roundId' = roundId
  BY <1>1
<1>9. SameClaims
  BY <1>7, <1>8 DEF SameClaims, Known, News
<1>10. AllUp'
  BY <1>2, <1>3, <1>5 DEF StepInv, AllUp
<1>11. InPhase'
  <2>1. \A q \in Peer : now[q] \in Nat
    BY DEF TypeInv, TypeOK
  <2>2. \A q \in Peer \ {p} : now[q] = now[p] + 1 \/ (now[q] = now[p] /\ phase[q] = "idle")
    BY <1>1, <2>1 DEF InStep, StepInv, InPhase, InLockstep
  <2>3. \A q \in Peer : phase'[q] # "idle" => now'[q] >= 1
    BY <1>5, <2>1 DEF StepInv, InPhase
  <2>4. ASSUME NEW a \in Peer, NEW b \in Peer
        PROVE  \/ now'[b] = now'[a]
               \/ now'[b] = now'[a] + 1 /\ phase'[a] = "idle"
               \/ now'[a] = now'[b] + 1 /\ phase'[b] = "idle"
    <3>1. CASE a = b
      BY <3>1
    <3>2. CASE a = p /\ b # p
      BY <1>5, <2>1, <2>2, <3>2
    <3>3. CASE b = p /\ a # p
      BY <1>5, <2>1, <2>2, <3>3
    <3>4. QED
      BY <3>1, <3>2, <3>3 DEF InLockstep
  <2>5. QED
    BY <2>3, <2>4 DEF InPhase
<1>12. OnTime'
  <2> SUFFICES ASSUME NEW q \in Peer, NEW m \in net'[q]
               PROVE  /\ m.from # q
                      /\ m.sent >= IF phase'[q] = "resolve" THEN Front(q)' + 1 ELSE Front(q)'
                      /\ m.sent <= now'[m.from]
                      /\ Unsent(m, m.from)' => m.sent < now'[m.from]
                      /\ m.type = "claim" => m.claim.drone = m.from /\ m.claim.ts = m.sent
    BY DEF OnTime
  <2>0. \A a \in Peer : now[a] \in Nat /\ Front(a) \in Nat
    BY FrontType DEF StepInv
  <2>1. CASE m \in net[q]
    <3>1. m.from \in Peer /\ m.sent \in Nat
      BY <2>1, MailType
    <3>2. /\ m.from # q
          /\ m.sent >= IF phase[q] = "resolve" THEN Front(q) + 1 ELSE Front(q)
          /\ m.sent <= now[m.from]
          /\ Unsent(m, m.from) => m.sent < now[m.from]
          /\ m.type = "claim" => m.claim.drone = m.from /\ m.claim.ts = m.sent
      BY <2>1 DEF StepInv, OnTime
    <3>3. phase'[q] = "resolve" => phase[q] = "resolve"
      BY <1>5
    <3>4. CASE m.from = p
      BY <1>5, <1>6, <2>0, <3>1, <3>2, <3>3, <3>4 DEF Unsent
    <3>5. CASE m.from # p
      BY <1>5, <1>6, <2>0, <3>1, <3>2, <3>3, <3>5 DEF Unsent
    <3>6. QED
      BY <3>4, <3>5
  <2>2. CASE q # p /\ m = hello
    <3>1. Front(q) <= now[p] + 1 /\ (phase[q] = "resolve" => Front(q) <= now[p])
      BY <1>1, <2>0, <2>2, FrontType DEF StepInv, InPhase, Phase
    <3>2. QED
      BY <1>2, <1>5, <1>6, <2>0, <2>2, <3>1 DEF Unsent
  <2>3. QED
    BY <1>3, <2>1, <2>2
<1>13. ClaimsOnce'
  <2>1. \A q \in Peer : Known(q)' = Known(q)
    BY <1>9 DEF SameClaims
  <2>2. \A q \in Peer : now[q] \in Nat
    BY DEF TypeInv, TypeOK
  <2>3. \A q \in Peer : \A c \in Known(q) : c.ts \in Nat /\ c.drone \in Peer
    BY KnownType
  <2>4. QED
    BY <1>5, <2>1, <2>2, <2>3 DEF StepInv, ClaimsOnce
<1>14. Waiting'
  <2>1. \A q \in Peer : phase[q] = "resolve" => phase'[q] = "resolve"
    BY <1>1, <1>5
  <2>2. QED
    BY <1>6, <1>8, <1>9, <2>1 DEF SameClaims, StepInv, Waiting
<1>15. RoundInv'
  <2>1. \A q \in Peer : Front(q) \in Nat /\ \A c \in pending'[q] : c.ts \in Nat
    BY <1>8, FrontType, KnownType DEF StepInv
  <2>2. QED
    BY <1>6, <1>8, <1>9, <2>1, QuietRounds
<1>16. OwnerInv'
  BY <1>5, <1>7, <1>8, <1>9, QuietOwners
<1>17. QED
  BY <1>10, <1>11, <1>12, <1>13, <1>14, <1>15, <1>16 DEF StepInv
-----------------------------------------------------------------------------
\* A peer in its tick moves on within the tick, the other where it was.
LEMMA InPhaseKept ==
  ASSUME TypeInv, InPhase, NEW p \in Peer, NEW ph, phase[p] # "idle",
         now' = now, phase' = [phase EXCEPT ![p] = ph]
  PROVE  InPhase'
<1>1. /\ phase'[p] = ph
      /\ \A q \in Peer \ {p} : phase'[q] = phase[q]
  BY DEF TypeInv, TypeOK
<1>2. \A q \in Peer : phase'[q] # "idle" => phase[q] # "idle"
  BY <1>1
<1>3. \A q \in Peer : phase[q] = "idle" => phase'[q] = "idle"
  BY <1>1
<1>4. QED
  BY <1>2, <1>3 DEF InPhase

\* No claim appears, no clock moves and no peer falls back into its tick.
LEMMA ClaimsKept ==
  ASSUME ClaimsOnce, now' = now,
         \A q \in Peer : Known(q)' \in SUBSET Known(q),
         \A q \in Peer : phase'[q] # "idle" => phase[q] # "idle",
         \A q \in Peer : \A c \in Known(q) : c.drone \in Peer
  PROVE  ClaimsOnce'
BY DEF ClaimsOnce

LEMMA TakeLock ==
  ASSUME InLockstep, LockInv, TypeInv', NEW p \in Peer, NEW m, Take(p, m)
  PROVE  /\ m \in net[p] /\ m.from \in Peer \ {p} /\ m.sent \in Nat
         /\ UNCHANGED <<clock, health, resolved, released, decided>>
         /\ phase[p] \in {"watch", "poll"}
         /\ now[p] = Front(p) + 1
         /\ phase'[p] = "poll"
         /\ \A q \in Peer \ {p} : phase'[q] = phase[q] /\ net'[q] = net[q]
         /\ net'[p] = net[p] \ {m}
         /\ \A q \in Peer : Front(q)' = Front(q)
         /\ \A n \in net[p] : ~Earlier(n, m)
         /\ InPhase' /\ OnTime'
<1> USE DEF LockInv
<1>1. /\ m \in net[p] /\ m.from \in Peer /\ m.sent \in Nat
      /\ UNCHANGED <<clock, health, resolved, released, decided>>
      /\ phase[p] \in {"watch", "poll"}
  BY MailType DEF Take
<1>2. m.from # p
  BY <1>1 DEF StepInv, OnTime
<1>3. /\ phase'[p] = "poll"
      /\ \A q \in Peer \ {p} : phase'[q] = phase[q] /\ net'[q] = net[q]
      /\ net'[p] = net[p] \ {m}
  BY DEF Take, TypeInv, TypeOK
<1>4. \A q \in Peer : Front(q)' = Front(q)
  <2> TAKE q \in Peer
  <2>1. CASE q = p
    BY <1>1, <1>3, <2>1 DEF Front
  <2>2. CASE q # p
    BY <1>1, <1>3, <2>2 DEF Front
  <2>3. QED
    BY <2>1, <2>2
<1>5. \A n \in net[p] : ~Earlier(n, m)
  <2> SUFFICES ASSUME NEW n \in net[p] PROVE ~Earlier(n, m)
    OBVIOUS
  <2>1. n.from # p /\ n.from \in Peer
    BY MailType DEF StepInv, OnTime
  <2>2. n.from = m.from
    BY <1>1, <1>2, <2>1 DEF InLockstep
  <2>3. QED
    BY <2>2 DEF Take, InOrder, InLockstep
<1>6. InPhase'
  BY <1>1, InPhaseKept DEF Take, StepInv
<1>7. OnTime'
  <2> SUFFICES ASSUME NEW q \in Peer, NEW n \in net'[q]
               PROVE  /\ n.from # q
                      /\ n.sent >= IF phase'[q] = "resolve" THEN Front(q)' + 1 ELSE Front(q)'
                      /\ n.sent <= now'[n.from]
                      /\ Unsent(n, n.from)' => n.sent < now'[n.from]
                      /\ n.type = "claim" => n.claim.drone = n.from /\ n.claim.ts = n.sent
    BY DEF OnTime
  <2>1. n \in net[q] /\ n.from \in Peer
    BY <1>3, MailType
  <2>2. /\ n.from # q
        /\ n.sent >= IF phase[q] = "resolve" THEN Front(q) + 1 ELSE Front(q)
        /\ n.sent <= now[n.from]
        /\ Unsent(n, n.from) => n.sent < now[n.from]
        /\ n.type = "claim" => n.claim.drone = n.from /\ n.claim.ts = n.sent
    BY <2>1 DEF StepInv, OnTime
  <2>3. phase'[q] = "resolve" <=> phase[q] = "resolve"
    BY <1>1, <1>3
  <2>4. Unsent(n, n.from)' => Unsent(n, n.from)
    BY <1>1, <1>3, <2>1 DEF Unsent
  <2>5. QED
    BY <1>1, <1>4, <2>2, <2>3, <2>4
<1>8. now[p] = Front(p) + 1
  BY <1>1, FrontType DEF StepInv
<1>9. QED
  BY <1>1, <1>2, <1>3, <1>4, <1>5, <1>6, <1>7, <1>8

LEMMA WaitingKept ==
  ASSUME Waiting, \A q \in Peer : Known(q)' \in SUBSET Known(q) /\ Front(q)' = Front(q),
         resolved' = resolved,
         \A q \in Peer : phase[q] = "resolve" => phase'[q] = "resolve"
  PROVE  Waiting'
BY DEF Waiting

\* A message that is neither a claim nor news changes nothing that is settled.
LEMMA TakeNothingNew ==
  ASSUME InLockstep, LockInv, TypeInv', NEW p \in Peer, NEW m, Take(p, m),
         roundId' = roundId, processed' = processed, m \notin News(p),
         \A q \in Peer : Known(q)' = Known(q),
         \A q \in Peer : \A c \in pending'[q] :
            c \in pending[q] \/ c.ts <= Front(q) \/ News(q) = {}
  PROVE  /\ InPhase' /\ OnTime' /\ ClaimsOnce' /\ Waiting' /\ RoundInv'
         /\ SameClaims
         /\ \A q \in Peer : Mail(q, "state")' \in SUBSET Mail(q, "state")
<1> USE DEF LockInv
<1>1. /\ now' = now /\ resolved' = resolved
      /\ \A q \in Peer : Front(q)' = Front(q)
      /\ phase[p] \in {"watch", "poll"}
      /\ phase'[p] = "poll"
      /\ \A q \in Peer \ {p} : phase'[q] = phase[q] /\ net'[q] = net[q]
      /\ net'[p] = net[p] \ {m}
      /\ InPhase' /\ OnTime'
  BY TakeLock
<1>2. \A q \in Peer : net'[q] \in SUBSET net[q] /\ (q # p => net'[q] = net[q])
  BY <1>1
<1>3. \A q \in Peer : \A t : Mail(q, t)' \in SUBSET Mail(q, t)
  BY <1>2 DEF Mail
<1>4. \A q \in Peer : News(q)' = News(q)
  BY <1>1, <1>2 DEF News, Mail
<1>5. SameClaims
  BY <1>3, <1>4 DEF SameClaims
<1>6. \A q \in Peer : /\ phase'[q] # "idle" => phase[q] # "idle"
                      /\ phase[q] = "resolve" => phase'[q] = "resolve"
  BY <1>1
<1>7. ClaimsOnce'
  BY <1>1, <1>6, KnownType, ClaimsKept DEF StepInv
<1>8. Waiting'
  BY <1>1, <1>6, WaitingKept DEF StepInv
<1>9. RoundInv'
  <2>1. \A q \in Peer : Front(q) \in Nat
    BY FrontType DEF StepInv
  <2>2. \A q \in Peer : \A c \in pending'[q] : c.ts \in Nat
    <3>1. \A q \in Peer : pending'[q] \in SUBSET Claim
      BY DEF TypeInv, TypeOK
    <3>2. QED
      BY <3>1 DEF Claim
  <2>3. QED
    BY <1>1, <1>5, <2>1, <2>2, QuietRounds
<1>10. QED
  BY <1>1, <1>3, <1>5, <1>7, <1>8, <1>9

\* Taking what is not a claim, with pending as it was, leaves the known claims.
LEMMA TakeKnown ==
  ASSUME NEW p \in Peer, NEW m, m.type # "claim", pending' = pending,
         net'[p] = net[p] \ {m}, \A q \in Peer \ {p} : net'[q] = net[q]
  PROVE  \A q \in Peer : Known(q)' = Known(q)
<1>1. \A q \in Peer : Mail(q, "claim")' = Mail(q, "claim")
  BY DEF Mail
<1>2. QED
  BY <1>1 DEF Known

LEMMA HandleAliveLock ==
  ASSUME InLockstep, LockInv, TypeInv', NEW p \in Peer, NEW m, HandleAlive(p, m)
  PROVE  StepInv' /\ RoundInv' /\ OwnerInv'
<1> USE DEF LockInv
<1>1. /\ m.type = "alive" /\ Take(p, m)
      /\ view' = [view EXCEPT ![p][m.from].alive = TRUE, ![p][m.from].reachable = TRUE]
      /\ UNCHANGED <<roundId, processed, pending, part>>
  BY DEF HandleAlive
<1>2. /\ m.from \in Peer /\ health' = health
      /\ net'[p] = net[p] \ {m} /\ \A q \in Peer \ {p} : net'[q] = net[q]
  BY <1>1, TakeLock
<1>3. view' = view
  <2> DEFINE v == view[p][m.from]
             w == [v EXCEPT !.alive = TRUE, !.reachable = TRUE]
  <2>1. view \in [Peer -> [Peer -> DroneView]]
    BY DEF TypeInv, TypeOK
  <2>2. v \in DroneView /\ v.alive /\ v.reachable
    BY <1>2, <2>1 DEF StepInv, AllUp, Active
  <2>3. w = v
    BY <2>2 DEF DroneView
  <2>4. view' = [view EXCEPT ![p] = [view[p] EXCEPT ![m.from] = w]]
    BY <1>1, <1>2, <2>1
  <2> HIDE DEF v, w
  <2>5. view' = [view EXCEPT ![p] = [view[p] EXCEPT ![m.from] = v]]
    BY <2>3, <2>4
  <2>6. QED
    BY <1>2, <2>1, <2>5 DEF v
<1>4. \A q \in Peer : Known(q)' = Known(q)
  BY <1>1, <1>2, TakeKnown
<1>5. m \notin News(p)
  BY <1>1 DEF News, Mail
<1>6. /\ InPhase' /\ OnTime' /\ ClaimsOnce' /\ Waiting' /\ RoundInv'
      /\ SameClaims
      /\ \A q \in Peer : Mail(q, "state")' \in SUBSET Mail(q, "state")
  BY <1>1, <1>4, <1>5, TakeNothingNew
<1>7. AllUp'
  BY <1>2, <1>3 DEF StepInv, AllUp
<1>8. OwnerInv'
  BY <1>1, <1>3, <1>6, QuietOwners
<1>9. QED
  BY <1>6, <1>7, <1>8 DEF StepInv

LEMMA HandleDroneStateLock ==
  ASSUME InLockstep, LockInv, TypeInv', NEW p \in Peer, NEW m, HandleDroneState(p, m)
  PROVE  StepInv' /\ RoundInv' /\ OwnerInv'
<1> USE DEF LockInv
<1> DEFINE q == m.from
<1>1. /\ m.type = "state" /\ Take(p, m)
      /\ view' = [view EXCEPT ![p][q] = m.view]
      /\ UNCHANGED <<roundId, processed, pending, part>>
  BY DEF HandleDroneState
<1>2. /\ q \in Peer /\ q # p /\ health' = health /\ m \in net[p]
      /\ net'[p] = net[p] \ {m} /\ \A a \in Peer \ {p} : net'[a] = net[a]
  BY <1>1, TakeLock
<1> HIDE DEF q
<1>3. m \in Mail(p, "state") /\ m.view \in DroneView /\ Active(m.view)
  BY <1>1, <1>2, MailType DEF Mail, StepInv, AllUp
<1>4. /\ \A a, b \in Peer : a # p \/ b # q => view'[a][b] = view[a][b]
      /\ view'[p][q] = m.view
  BY <1>1, <1>2 DEF TypeInv, TypeOK
<1>5. \A a \in Peer : Known(a)' = Known(a)
  BY <1>1, <1>2, TakeKnown
<1>6. m \notin News(p)
  BY <1>1 DEF News, Mail
<1>7. /\ InPhase' /\ OnTime' /\ ClaimsOnce' /\ Waiting' /\ RoundInv'
      /\ SameClaims
      /\ \A a \in Peer : Mail(a, "state")' \in SUBSET Mail(a, "state")
  BY <1>1, <1>5, <1>6, TakeNothingNew
<1>8. AllUp'
  <2>1. \A a, b \in Peer : Active(view'[a][b])
    BY <1>3, <1>4 DEF StepInv, AllUp
  <2>2. \A a \in Peer : net'[a] \in SUBSET net[a]
    BY <1>2
  <2>3. QED
    BY <1>2, <2>1, <2>2 DEF StepInv, AllUp
<1>9. \A a \in Peer : view'[a][a] = view[a][a] /\ (Holds(a)' <=> Holds(a)) /\ part' = part
  BY <1>1, <1>2, <1>4 DEF Holds, Won
<1>10. /\ roundId' = roundId
       /\ \A a \in Peer : News(a)' = News(a)
  BY <1>7 DEF SameClaims
<1>11. ASSUME NEW a \in Peer, NEW b \in Peer, NEW x, Respects(b, a, x), b = p => a # q \/ m.view.cell = x
       PROVE  Respects(b, a, x)'
  BY <1>4, <1>5, <1>10, <1>11 DEF Respects
<1>12. Seated'
  BY <1>9 DEF OwnerInv, Seated, Won
<1>13. WinnersKnown'
  <2> SUFFICES ASSUME NEW a \in Peer, NEW b \in Peer, a # b, Holds(a)
               PROVE  Told(a, b)' \/ Knows(a, b)'
    BY <1>9 DEF WinnersKnown
  <2>1. Told(a, b) \/ Knows(a, b)
    BY DEF OwnerInv, WinnersKnown
  <2>2. CASE Told(a, b)
    BY <1>7, <1>9, <1>10, <2>2 DEF Told
  <2>3. CASE Knows(a, b)
    <3>1. b = p => a = q
      BY <1>2 DEF InLockstep
    <3>2. b = p => m.view.cell = view[a][a].cell
      BY <1>3, <2>3 DEF Knows
    <3>3. Respects(b, a, view[a][a].cell)'
      BY <1>4, <1>5, <1>9, <1>10, <2>3, <3>2 DEF Knows, Respects
    <3>4. QED
      BY <1>5, <1>7, <1>9, <2>3, <3>3 DEF Knows
  <2>4. QED
    BY <2>1, <2>2, <2>3
<1>14. WinnersAwaited'
  <2> SUFFICES ASSUME NEW a \in Peer, NEW b \in Peer, a # b, NEW n \in News(a),
                      a \in DOMAIN n.round.award, Won(n.round.award[a].kind)
               PROVE  Respects(b, a, n.round.award[a].cell)'
    BY <1>10 DEF WinnersAwaited, Won
  <2>1. Respects(b, a, n.round.award[a].cell)
    BY DEF OwnerInv, WinnersAwaited
  <2>2. b # p
    BY <1>3, Behind
  <2>3. QED
    BY <1>11, <2>1, <2>2
<1>15. HoldersQuiet'
  BY <1>5, <1>9 DEF OwnerInv, HoldersQuiet
<1>16. HoldersApart'
  BY <1>9 DEF OwnerInv, HoldersApart
<1>17. QED
  BY <1>7, <1>8, <1>12, <1>13, <1>14, <1>15, <1>16 DEF StepInv, OwnerInv

LEMMA HandleClaimLock ==
  ASSUME InLockstep, LockInv, TypeInv', NEW p \in Peer, NEW m, HandleClaim(p, m)
  PROVE  StepInv' /\ RoundInv' /\ OwnerInv'
<1> USE DEF LockInv
<1>1. /\ m.type = "claim" /\ Take(p, m)
      /\ pending' = [pending EXCEPT ![p] = IF m.claim \in resolved[p] THEN @
                                           ELSE @ \cup {m.claim}]
      /\ UNCHANGED <<roundId, processed, view, part>>
  BY DEF HandleClaim
<1>2. /\ m.from \in Peer \ {p} /\ health' = health /\ m \in net[p] /\ m.sent \in Nat
      /\ \A n \in net[p] : ~Earlier(n, m)
      /\ net'[p] = net[p] \ {m} /\ \A q \in Peer \ {p} : net'[q] = net[q]
  BY <1>1, TakeLock
<1>3. m.claim \in Known(p) /\ m.claim.ts = m.sent /\ m \in Mail(p, "claim")
  BY <1>1, <1>2 DEF Known, Mail, StepInv, OnTime
<1>4. m.claim \notin resolved[p]
  BY <1>3 DEF StepInv, Waiting
<1>5. /\ pending'[p] = pending[p] \cup {m.claim}
      /\ \A q \in Peer \ {p} : pending'[q] = pending[q]
  BY <1>1, <1>4 DEF TypeInv, TypeOK
<1>6. \A q \in Peer : Known(q)' = Known(q)
  <2>1. \A q \in Peer \ {p} : Known(q)' = Known(q)
    BY <1>2, <1>5 DEF Known, Mail
  <2>2. Known(p)' = Known(p)
    BY <1>1, <1>2, <1>3, <1>5 DEF Known, Mail
  <2>3. QED
    BY <2>1, <2>2
<1>7. m.claim.ts > Front(p) => News(p) = {}
  <2> SUFFICES ASSUME m.claim.ts > Front(p), NEW n \in News(p)
               PROVE  FALSE
    OBVIOUS
  <2>1. n \in net[p] /\ n.type = "round" /\ n.sent = Front(p) + 1
    BY DEF RoundInv, NewsDecides, News, Mail
  <2>2. Front(p) \in Nat
    BY FrontType DEF StepInv
  <2>3. Earlier(n, m)
    BY <1>1, <1>2, <1>3, <2>1, <2>2 DEF Earlier
  <2>4. QED
    BY <1>2, <2>1, <2>3
<1>8. \A q \in Peer : \A c \in pending'[q] :
         c \in pending[q] \/ c.ts <= Front(q) \/ News(q) = {}
  <2>1. m.claim.ts \in Nat /\ Front(p) \in Nat
    BY <1>2, <1>3, FrontType DEF StepInv
  <2>2. QED
    BY <1>5, <1>7, <2>1
<1>9. m \notin News(p)
  BY <1>1 DEF News, Mail
<1>10. /\ InPhase' /\ OnTime' /\ ClaimsOnce' /\ Waiting' /\ RoundInv'
       /\ SameClaims
       /\ \A q \in Peer : Mail(q, "state")' \in SUBSET Mail(q, "state")
  BY <1>1, <1>6, <1>8, <1>9, TakeNothingNew
<1>11. AllUp'
  <2>1. \A q \in Peer : net'[q] \in SUBSET net[q]
    BY <1>2
  <2>2. QED
    BY <1>1, <1>2, <2>1 DEF StepInv, AllUp
<1>12. OwnerInv'
  BY <1>1, <1>10, QuietOwners
<1>13. QED
  BY <1>10, <1>11, <1>12 DEF StepInv

\* A round its peer decided itself is dropped: one of its last two numbers.
LEMMA HandleLateRoundLock ==
  ASSUME InLockstep, LockInv, TypeInv', NEW p \in Peer, NEW m, HandleRound(p, m),
         m \notin News(p)
  PROVE  StepInv' /\ RoundInv' /\ OwnerInv'
<1> USE DEF LockInv
<1>1. /\ m.type = "round" /\ Take(p, m)
      /\ ApplyRound(p, m.round, roundId[p])
      /\ view' = [view EXCEPT ![p] = ViewAfter(p, m.round)]
  BY DEF HandleRound
<1>2. /\ m.from \in Peer \ {p} /\ health' = health /\ m \in net[p]
      /\ net'[p] = net[p] \ {m} /\ \A q \in Peer \ {p} : net'[q] = net[q]
  BY <1>1, TakeLock
<1>3. m \in Mail(p, "round") /\ m.round.id \in Nat /\ roundId[p] \in Nat
  BY <1>1, <1>2, MailType, RoundType, FrontType DEF Mail, StepInv
<1>4. /\ 1 <= m.round.id /\ m.round.id <= roundId[p]
      /\ roundId[p] <= m.round.id + 1
  <2>1. m.round.id <= roundId[p]
    BY <1>3 DEF News
  <2>2. m.round.id >= 1
    BY <1>2, <1>3 DEF RoundInv, Numbered
  <2>3. roundId[p] <= m.round.id + 1
    BY <1>3, <2>1 DEF RoundInv, LateRounds
  <2>4. QED
    BY <2>1, <2>2, <2>3
<1>5. m.round.id \in processed[p]
  <2>1. m.round.id = roundId[p] \/ m.round.id = roundId[p] - 1
    BY <1>3, <1>4
  <2>2. roundId[p] >= 1 /\ (m.round.id = roundId[p] - 1 => roundId[p] >= 2)
    BY <1>3, <1>4
  <2>3. QED
    BY <2>1, <2>2 DEF RoundInv, LastTwo
<1>6. /\ roundId' = roundId /\ view' = view
      /\ UNCHANGED <<processed, part, pending>>
  BY <1>1, <1>5 DEF ApplyRound, ViewAfter, TypeInv, TypeOK
<1>7. \A q \in Peer : Known(q)' = Known(q)
  BY <1>1, <1>2, <1>6, TakeKnown
<1>8. /\ InPhase' /\ OnTime' /\ ClaimsOnce' /\ Waiting' /\ RoundInv'
      /\ SameClaims
      /\ \A q \in Peer : Mail(q, "state")' \in SUBSET Mail(q, "state")
  BY <1>1, <1>6, <1>7, TakeNothingNew
<1>9. AllUp'
  <2>1. \A q \in Peer : net'[q] \in SUBSET net[q]
    BY <1>2
  <2>2. QED
    BY <1>2, <1>6, <2>1 DEF StepInv, AllUp
<1>10. OwnerInv'
  BY <1>6, <1>8, QuietOwners
<1>11. QED
  BY <1>8, <1>9, <1>10 DEF StepInv
-----------------------------------------------------------------------------
\* In the resolve loop the open claims are exactly the mature ones.
LEMMA OpenIsMature ==
  ASSUME InLockstep, TypeInv, StepInv, NEW p \in Peer, phase[p] = "resolve"
  PROVE  /\ Open(p) = Mature(p)
         /\ Open(p) \in SUBSET pending[p]
<1>1. Delay(p) = 1
  BY TickType DEF TypeInv, TypeOK, InLockstep
<1>2. now[p] = Front(p) + 1 /\ Front(p) \in Nat
  BY FrontType DEF StepInv
<1>3. \A c \in Known(p) : c.ts \in Nat /\ c.ts >= Front(p) /\ c \notin resolved[p]
  BY KnownType DEF StepInv, Waiting
<1>4. pending[p] \in SUBSET Known(p)
  BY KnownType
<1>5. ASSUME NEW c \in Open(p)
      PROVE  c \in pending[p]
  <2>1. c \in Known(p) /\ c.ts = Front(p)
    BY DEF Open
  <2>2. ASSUME NEW m \in net[p], m.type = "claim", m.claim = c
        PROVE  FALSE
    <3>1. c.ts = m.sent /\ m.sent >= Front(p) + 1
      BY <2>2 DEF StepInv, OnTime
    <3>2. QED
      BY <1>2, <2>1, <3>1
  <2>3. QED
    BY <2>1, <2>2, KnownOf
<1>6. ASSUME NEW c \in Open(p)
      PROVE  c \in Mature(p)
  <2>1. c \in Known(p) /\ c.ts = Front(p)
    BY DEF Open
  <2>2. QED
    BY <1>1, <1>2, <1>3, <1>5, <2>1 DEF Mature
<1>7. ASSUME NEW c \in Mature(p)
      PROVE  c \in Open(p)
  <2>1. c \in pending[p] /\ c.ts + 1 <= now[p]
    BY <1>1 DEF Mature
  <2>2. QED
    BY <1>2, <1>3, <1>4, <2>1 DEF Open
<1>8. QED
  BY <1>5, <1>6, <1>7

LEMMA BeginResolveLock ==
  ASSUME InLockstep, LockInv, TypeInv', NEW p \in Peer, BeginResolve(p)
  PROVE  StepInv' /\ RoundInv' /\ OwnerInv'
<1> USE DEF LockInv
<1>1. /\ phase[p] \in {"watch", "poll"}
      /\ \A m \in net[p] : m.sent = now[p]
      /\ phase' = [phase EXCEPT ![p] = "resolve"]
      /\ pending' = [pending EXCEPT ![p] = {c \in @ : now[p] <= c.ts + TTL(p)}]
      /\ UNCHANGED <<clock, health, roundId, processed, resolved, released, view, part,
                     net, decided>>
  BY DEF BeginResolve, InLockstep
<1>2. now[p] = Front(p) + 1 /\ Front(p) \in Nat
  BY <1>1, FrontType DEF StepInv
<1>3. pending' = pending
  <2>1. \A c \in pending[p] : now[p] <= c.ts + TTL(p)
    <3>1. \A c \in pending[p] : c.ts \in Nat /\ c.ts >= Front(p)
      BY KnownType DEF StepInv, Waiting
    <3>2. QED
      BY <1>2, <3>1, TickType DEF TypeInv
  <2>2. pending \in [Peer -> SUBSET Claim]
    BY DEF TypeInv, TypeOK
  <2>3. QED
    BY <1>1, <2>1, <2>2
<1>4. /\ phase'[p] = "resolve" /\ net' = net
      /\ \A q \in Peer \ {p} : phase'[q] = phase[q]
  BY <1>1 DEF TypeInv, TypeOK
<1>5. \A q \in Peer : Front(q)' = Front(q)
  <2> TAKE q \in Peer
  <2>1. CASE q = p
    BY <1>1, <1>4, <2>1 DEF Front
  <2>2. CASE q # p
    BY <1>1, <1>4, <2>2 DEF Front
  <2>3. QED
    BY <2>1, <2>2
<1>6. \A q \in Peer : Known(q)' = Known(q) /\ News(q)' = News(q)
  BY <1>1, <1>3 DEF Known, News, Mail
<1>7. \A q \in Peer : \A t : Mail(q, t)' = Mail(q, t)
  BY <1>1 DEF Mail
<1>8. SameClaims
  BY <1>1, <1>6, <1>7 DEF SameClaims
<1>9. \A q \in Peer : /\ phase'[q] # "idle" => phase[q] # "idle"
                      /\ phase[q] = "resolve" => phase'[q] = "resolve"
  BY <1>1, <1>4
<1>10. AllUp'
  BY <1>1 DEF StepInv, AllUp
<1>11. InPhase'
  BY <1>1, InPhaseKept DEF StepInv
<1>12. OnTime'
  <2> SUFFICES ASSUME NEW q \in Peer, NEW n \in net[q]
               PROVE  /\ n.from # q
                      /\ n.sent >= IF phase'[q] = "resolve" THEN Front(q)' + 1 ELSE Front(q)'
                      /\ n.sent <= now'[n.from]
                      /\ Unsent(n, n.from)' => n.sent < now'[n.from]
                      /\ n.type = "claim" => n.claim.drone = n.from /\ n.claim.ts = n.sent
    BY <1>4 DEF OnTime
  <2>1. n.from \in Peer
    BY MailType
  <2>2. /\ n.from # q
        /\ n.sent >= IF phase[q] = "resolve" THEN Front(q) + 1 ELSE Front(q)
        /\ n.sent <= now[n.from]
        /\ Unsent(n, n.from) => n.sent < now[n.from]
        /\ n.type = "claim" => n.claim.drone = n.from /\ n.claim.ts = n.sent
    BY DEF StepInv, OnTime
  <2>3. n.sent >= IF phase'[q] = "resolve" THEN Front(q)' + 1 ELSE Front(q)'
    BY <1>1, <1>2, <1>4, <1>5, <2>2
  <2>4. Unsent(n, n.from)' => Unsent(n, n.from)
    BY <1>1, <1>4, <2>1 DEF Unsent
  <2>5. QED
    BY <1>1, <2>2, <2>3, <2>4
<1>13. ClaimsOnce'
  BY <1>1, <1>6, <1>9, KnownType, ClaimsKept DEF StepInv
<1>14. Waiting'
  BY <1>1, <1>5, <1>6, <1>9, WaitingKept DEF StepInv
<1>15. RoundInv'
  <2>1. \A q \in Peer : Front(q) \in Nat /\ \A c \in pending'[q] : c.ts \in Nat
    BY <1>3, FrontType, KnownType DEF StepInv
  <2>2. QED
    BY <1>1, <1>3, <1>5, <1>8, <2>1, QuietRounds
<1>16. OwnerInv'
  BY <1>1, <1>7, <1>8, QuietOwners
<1>17. QED
  BY <1>10, <1>11, <1>12, <1>13, <1>14, <1>15, <1>16 DEF StepInv

\* The cap keeps the last two rounds.
LEMMA CapKeepsLastTwo ==
  ASSUME NEW S \in SUBSET Nat, NEW k \in Nat, \A id \in S : id <= k, MaxTracked \in Nat,
         MaxTracked >= 2
  PROVE  /\ k \in S => k \in CappedRounds(S)
         /\ k - 1 \in S => k - 1 \in CappedRounds(S)
<1>1. ASSUME k \in S
      PROVE  k \in CappedRounds(S)
  <2>1. {q \in S : k < q} = {}
    <3>1. \A q \in S : ~(k < q)
      OBVIOUS
    <3>2. QED
      BY <3>1
  <2>2. Cardinality({q \in S : k < q}) = 0
    BY <2>1, FS_EmptySet
  <2>3. QED
    BY <1>1, <2>2 DEF CappedRounds
<1>2. ASSUME k - 1 \in S
      PROVE  k - 1 \in CappedRounds(S)
  <2>1. {q \in S : k - 1 < q} \in SUBSET {k}
    <3>1. \A q \in S : k - 1 < q => q = k
      OBVIOUS
    <3>2. QED
      BY <3>1
  <2>2. IsFiniteSet({k}) /\ Cardinality({k}) = 1
    BY FS_Singleton
  <2>3. Cardinality({q \in S : k - 1 < q}) <= 1 /\ Cardinality({q \in S : k - 1 < q}) \in Nat
    BY <2>1, <2>2, FS_Subset, FS_CardinalityType
  <2>4. QED
    BY <1>2, <2>3 DEF CappedRounds
<1>3. QED
  BY <1>1, <1>2

LEMMA EndResolveLock ==
  ASSUME InLockstep, LockInv, TypeInv', NEW p \in Peer, EndResolve(p)
  PROVE  StepInv' /\ RoundInv' /\ OwnerInv'
<1> USE DEF LockInv
<1>1. /\ phase[p] = "resolve" /\ Mature(p) = {}
      /\ phase' = [phase EXCEPT ![p] = "act"]
      /\ pending' = [pending EXCEPT ![p] = @ \ resolved[p]]
      /\ processed' = [processed EXCEPT ![p] = CappedRounds(@)]
      /\ resolved' = [resolved EXCEPT ![p] = CappedClaims(@)]
      /\ UNCHANGED <<clock, health, roundId, released, view, part, net, decided>>
  BY DEF EndResolve
<1>2. now[p] = Front(p) + 1 /\ Front(p) \in Nat
  BY <1>1, FrontType DEF StepInv
<1>3. Open(p) = {} /\ News(p) = {}
  <2>1. Open(p) = {}
    BY <1>1, OpenIsMature DEF StepInv
  <2>2. QED
    BY <2>1 DEF RoundInv, NewsDecides, On
<1>4. pending' = pending
  <2>1. pending[p] \ resolved[p] = pending[p]
    BY KnownType DEF StepInv, Waiting
  <2>2. QED
    BY <1>1, <2>1 DEF TypeInv, TypeOK
<1>5. /\ phase'[p] = "act" /\ resolved'[p] \in SUBSET resolved[p]
      /\ processed'[p] = CappedRounds(processed[p])
      /\ \A q \in Peer \ {p} : /\ phase'[q] = phase[q]
                               /\ resolved'[q] = resolved[q]
                               /\ processed'[q] = processed[q]
  BY <1>1 DEF TypeInv, TypeOK, CappedClaims
<1>6. Front(p)' = Front(p) + 1 /\ \A q \in Peer \ {p} : Front(q)' = Front(q)
  BY <1>1, <1>2, <1>5 DEF Front
<1>7. /\ \A q \in Peer : Known(q)' = Known(q) /\ News(q)' = News(q)
      /\ \A q \in Peer : \A t : Mail(q, t)' = Mail(q, t)
  BY <1>1, <1>4 DEF Known, News, Mail
<1>8. SameClaims
  BY <1>1, <1>7 DEF SameClaims
<1>9. AllUp'
  BY <1>1 DEF StepInv, AllUp
<1>10. InPhase'
  BY <1>1, InPhaseKept DEF StepInv
<1>11. OnTime'
  <2> SUFFICES ASSUME NEW q \in Peer, NEW n \in net[q]
               PROVE  /\ n.from # q
                      /\ n.sent >= IF phase'[q] = "resolve" THEN Front(q)' + 1 ELSE Front(q)'
                      /\ n.sent <= now'[n.from]
                      /\ Unsent(n, n.from)' => n.sent < now'[n.from]
                      /\ n.type = "claim" => n.claim.drone = n.from /\ n.claim.ts = n.sent
    BY <1>1 DEF OnTime
  <2>1. n.from \in Peer
    BY MailType
  <2>2. /\ n.from # q
        /\ n.sent >= IF phase[q] = "resolve" THEN Front(q) + 1 ELSE Front(q)
        /\ n.sent <= now[n.from]
        /\ Unsent(n, n.from) => n.sent < now[n.from]
        /\ n.type = "claim" => n.claim.drone = n.from /\ n.claim.ts = n.sent
    BY DEF StepInv, OnTime
  <2>3. n.sent >= IF phase'[q] = "resolve" THEN Front(q)' + 1 ELSE Front(q)'
    BY <1>1, <1>5, <1>6, <2>2
  <2>4. Unsent(n, n.from)' => Unsent(n, n.from)
    BY <1>1, <1>5, <2>1 DEF Unsent
  <2>5. QED
    BY <1>1, <2>2, <2>3, <2>4
<1>12. ClaimsOnce'
  BY <1>1, <1>5, <1>7, KnownType, ClaimsKept DEF StepInv
<1>13. Waiting'
  <2>1. \A c \in Known(p) : c.ts \in Nat /\ c.ts >= Front(p) + 1
    BY <1>2, <1>3, KnownType DEF StepInv, Waiting, Open
  <2>2. \A c \in resolved[p] : c.ts \in Nat /\ c.ts <= Front(p)
    BY DEF StepInv, Waiting, TypeInv, TypeOK, Claim
  <2>3. \A c \in Known(p)' : c.ts >= Front(p)' /\ c \notin resolved'[p]
    BY <1>5, <1>6, <1>7, <2>1 DEF StepInv, Waiting
  <2>4. \A c \in resolved'[p] : c.ts <= Front(p)' /\ c.ts # Front(p)'
    BY <1>2, <1>5, <1>6, <2>2
  <2>5. QED
    BY <1>5, <1>6, <1>7, <2>3, <2>4 DEF StepInv, Waiting
<1>14. RoundInv'
  <2>1. News(p)' = {} /\ Foretold(p)' = {} /\ Foretold(p) = {}
    BY <1>3, <1>7 DEF Foretold
  <2>2. \A q \in Peer \ {p} : /\ Open(q)' = Open(q) /\ Foretold(q)' = Foretold(q)
                              /\ \A x : On(q, x)' = On(q, x)
    BY <1>6, <1>8, SameOpen
  <2>3. Numbered'
    BY <1>1, <1>7 DEF RoundInv, Numbered
  <2>4. LastTwo'
    <3>1. processed[p] \in SUBSET Nat /\ roundId[p] \in Nat /\ MaxTracked \in Nat
      BY PeerClaimsAssumption DEF TypeInv, TypeOK
    <3>2. \A id \in processed[p] : id <= roundId[p]
      BY DEF RoundsBelow
    <3>3. /\ roundId[p] \in processed[p] => roundId[p] \in CappedRounds(processed[p])
          /\ roundId[p] - 1 \in processed[p] => roundId[p] - 1 \in CappedRounds(processed[p])
      BY <3>1, <3>2, CapKeepsLastTwo DEF InLockstep
    <3>4. QED
      BY <1>1, <1>5, <3>3 DEF RoundInv, LastTwo
  <2>5. NewsDecides'
    BY <1>6, <1>7, <2>1, <2>2 DEF RoundInv, NewsDecides
  <2>6. NewsSorted'
    BY <1>7, <2>1, <2>2 DEF RoundInv, NewsSorted
  <2>7. NewsFirst'
    BY <1>4, <1>6, <1>7, <2>1 DEF RoundInv, NewsFirst
  <2>8. Agreed'
    <3>1. \A q \in Peer : Known(q)' = Known(q) /\ Foretold(q)' = Foretold(q)
      BY <1>7, <2>1, <2>2
    <3>2. QED
      BY <3>1 DEF RoundInv, Agreed
  <2>9. LateRounds'
    <3>1. ASSUME NEW m \in Mail(p, "round"), m.sent = Front(p)'+ 1
          PROVE  FALSE
      <4>1. m \in net[p] /\ m.from \in Peer /\ m.sent \in Nat
        BY MailType
      <4>2. m.sent <= now[m.from] /\ now[m.from] \in Nat
        BY <4>1, FrontType DEF StepInv, OnTime
      <4>3. now[m.from] <= now[p]
        BY <1>1, <1>2, <4>1, <4>2 DEF StepInv, InPhase
      <4>4. QED
        BY <1>2, <1>6, <3>1, <4>1, <4>2, <4>3
    <3>2. \A m \in Mail(p, "round") : m.round.id <= roundId[p] => roundId[p] <= m.round.id + 1
      BY DEF RoundInv, LateRounds
    <3>3. QED
      BY <1>1, <1>6, <1>7, <2>2, <3>1, <3>2 DEF RoundInv, LateRounds
  <2>10. QED
    BY <2>3, <2>4, <2>5, <2>6, <2>7, <2>8, <2>9 DEF RoundInv
<1>15. OwnerInv'
  BY <1>1, <1>7, <1>8, QuietOwners
<1>16. QED
  BY <1>9, <1>10, <1>11, <1>12, <1>13, <1>14, <1>15 DEF StepInv
-----------------------------------------------------------------------------
\* What a drone does at the end of its tick: keep its cell, give it up, or claim
\* one as it has none.
LEMMA ActChoices ==
  ASSUME TypeInv, NEW p \in Peer, Act(p)
  PROVE  /\ phase[p] = "act"
         /\ phase' = [phase EXCEPT ![p] = "idle"]
         /\ UNCHANGED <<clock, health, roundId, processed, resolved, released, decided>>
         /\ \E views \in [Peer -> DroneView], claims \in SUBSET Claim :
              /\ \A q \in Peer : /\ Active(view[p][q]) => Active(views[q])
                                 /\ q # p => views[q] = view[p][q]
              /\ \/ views = view[p] /\ part' = part
                 \/ views[p].cell = None
              /\ view' = [view EXCEPT ![p] = views]
              /\ \A q \in Peer \ {p} : part'[q] = part[q]
              /\ \A c \in claims : /\ c.drone = p /\ c.ts = now[p]
                                   /\ views[p].cell = None
                                   /\ c.cell \in Candidates(p, views)
              /\ \A c, d \in claims : c = d
              /\ pending' = [pending EXCEPT ![p] = @ \cup claims]
              /\ Send(p, {StateMessage(p, now[p], views[p])} \cup
                         {ClaimMessage(p, c) : c \in claims})
<1>1. /\ phase[p] = "act"
      /\ phase' = [phase EXCEPT ![p] = "idle"]
      /\ UNCHANGED <<clock, health, roundId, processed, resolved, released, decided>>
  BY DEF Act
<1>2. PICK views \in Searched(p) :
        \E claims \in {{}} \cup {{c} : c \in Fresh(p, views)} :
          /\ view' = [view EXCEPT ![p] = views]
          /\ part' = IF views = view[p] THEN part ELSE [part EXCEPT ![p] = None]
          /\ pending' = [pending EXCEPT ![p] = @ \cup claims]
          /\ Send(p, {StateMessage(p, now[p], views[p])} \cup
                     {ClaimMessage(p, c) : c \in claims})
  BY DEF Act
<1>3. PICK claims \in {{}} \cup {{c} : c \in Fresh(p, views)} :
        /\ view' = [view EXCEPT ![p] = views]
        /\ part' = IF views = view[p] THEN part ELSE [part EXCEPT ![p] = None]
        /\ pending' = [pending EXCEPT ![p] = @ \cup claims]
        /\ Send(p, {StateMessage(p, now[p], views[p])} \cup
                   {ClaimMessage(p, c) : c \in claims})
  BY <1>2
<1>4. view[p] \in [Peer -> DroneView] /\ part \in [Peer -> Kind \cup {None}] /\ now[p] \in Nat
  BY DEF TypeInv, TypeOK
<1>5. /\ views \in [Peer -> DroneView]
      /\ \A q \in Peer : /\ Active(view[p][q]) => Active(views[q])
                         /\ q # p => views[q] = view[p][q]
      /\ views = view[p] \/ views[p].cell = None
  <2>1. CASE views = view[p]
    BY <1>4, <2>1
  <2>2. CASE views = [view[p] EXCEPT ![p] = [@ EXCEPT !.cell = None]]
    <3>1. view[p][p] \in DroneView
      BY <1>4
    <3>2. /\ [view[p][p] EXCEPT !.cell = None] \in DroneView
          /\ [view[p][p] EXCEPT !.cell = None].cell = None
          /\ Active(view[p][p]) => Active([view[p][p] EXCEPT !.cell = None])
      BY <3>1 DEF DroneView, Active
    <3>3. /\ views[p] = [view[p][p] EXCEPT !.cell = None]
          /\ \A q \in Peer : q # p => views[q] = view[p][q]
      BY <1>4, <2>2
    <3>4. views \in [Peer -> DroneView]
      BY <1>4, <2>2, <3>2
    <3>5. QED
      BY <3>2, <3>3, <3>4
  <2>3. QED
    BY <2>1, <2>2 DEF Searched
<1>6. /\ views = view[p] => part' = part
      /\ \A q \in Peer \ {p} : part'[q] = part[q]
  BY <1>3, <1>4
<1>7. /\ claims \in SUBSET Claim
      /\ \A c \in claims : /\ c.drone = p /\ c.ts = now[p]
                           /\ views[p].cell = None
                           /\ c.cell \in Candidates(p, views)
      /\ \A c, d \in claims : c = d
  <2>1. CASE claims = {}
    BY <2>1
  <2>2. ASSUME NEW c \in Fresh(p, views), claims = {c}
        PROVE  /\ c \in Claim /\ c.drone = p /\ c.ts = now[p]
               /\ views[p].cell = None
               /\ c.cell \in Candidates(p, views)
    BY <1>4 DEF Fresh, Claim, Candidates, Peer
  <2>3. \/ claims = {}
        \/ \E c \in Fresh(p, views) : claims = {c}
    BY <1>3
  <2>4. QED
    BY <2>1, <2>2, <2>3
<1>8. QED
  BY <1>1, <1>3, <1>5, <1>6, <1>7

LEMMA ActLock ==
  ASSUME InLockstep, LockInv, TypeInv', NEW p \in Peer, Act(p)
  PROVE  StepInv' /\ RoundInv' /\ OwnerInv'
<1> USE DEF LockInv
<1>1. /\ phase[p] = "act"
      /\ phase' = [phase EXCEPT ![p] = "idle"]
      /\ UNCHANGED <<clock, health, roundId, processed, resolved, released, decided>>
  BY ActChoices
<1>2. PICK views \in [Peer -> DroneView], claims \in SUBSET Claim :
        /\ \A q \in Peer : /\ Active(view[p][q]) => Active(views[q])
                           /\ q # p => views[q] = view[p][q]
        /\ \/ views = view[p] /\ part' = part
           \/ views[p].cell = None
        /\ view' = [view EXCEPT ![p] = views]
        /\ \A q \in Peer \ {p} : part'[q] = part[q]
        /\ \A c \in claims : /\ c.drone = p /\ c.ts = now[p]
                             /\ views[p].cell = None
                             /\ c.cell \in Candidates(p, views)
        /\ \A c, d \in claims : c = d
        /\ pending' = [pending EXCEPT ![p] = @ \cup claims]
        /\ Send(p, {StateMessage(p, now[p], views[p])} \cup
                   {ClaimMessage(p, c) : c \in claims})
  BY ActChoices
<1> DEFINE state == StateMessage(p, now[p], views[p])
           told == {ClaimMessage(p, c) : c \in claims}
<1>3. now[p] \in Nat /\ now[p] >= 1 /\ Front(p) = now[p]
  BY <1>1, FrontType DEF StepInv, InPhase
<1>4. /\ state.type = "state" /\ state.from = p /\ state.sent = now[p] /\ state.view = views[p]
      /\ \A m \in told : /\ m.type = "claim" /\ m.from = p /\ m.sent = now[p]
                         /\ m.claim \in claims
      /\ \A c \in claims : \E m \in told : m.claim = c
  <2>1. \A t : Sent(t) = t
    BY DEF Sent, InLockstep
  <2>2. \A c \in claims : /\ ClaimMessage(p, c).type = "claim" /\ ClaimMessage(p, c).from = p
                          /\ ClaimMessage(p, c).sent = now[p]
                          /\ ClaimMessage(p, c).claim = c
    BY <1>2, <2>1 DEF ClaimMessage
  <2>3. \A c \in claims : ClaimMessage(p, c) \in told
    OBVIOUS
  <2>4. \A m \in told : \E c \in claims : m = ClaimMessage(p, c)
    OBVIOUS
  <2>5. state.type = "state" /\ state.from = p /\ state.sent = now[p] /\ state.view = views[p]
    BY <2>1 DEF StateMessage
  <2> HIDE DEF state, told
  <2>6. QED
    BY <2>2, <2>3, <2>4, <2>5
<1> HIDE DEF state, told
<1>5. /\ net'[p] = net[p]
      /\ \A q \in Peer \ {p} : net'[q] = net[q] \cup ({state} \cup told)
  BY <1>2 DEF Send, TypeInv, TypeOK, state, told
<1>6. /\ phase'[p] = "idle"
      /\ \A q \in Peer \ {p} : phase'[q] = phase[q] /\ pending'[q] = pending[q]
                               /\ view'[q] = view[q]
      /\ view'[p] = views /\ pending'[p] = pending[p] \cup claims
  BY <1>1, <1>2 DEF TypeInv, TypeOK
<1>7. \A q \in Peer : Front(q)' = Front(q)
  <2> TAKE q \in Peer
  <2>1. CASE q = p
    BY <1>1, <1>6, <2>1 DEF Front
  <2>2. CASE q # p
    BY <1>1, <1>6, <2>2 DEF Front
  <2>3. QED
    BY <2>1, <2>2
<1>8. /\ \A q \in Peer : Mail(q, "round")' = Mail(q, "round") /\ News(q)' = News(q)
      /\ Mail(p, "state")' = Mail(p, "state")
      /\ \A q \in Peer \ {p} : Mail(q, "state")' = Mail(q, "state") \cup {state}
  BY <1>1, <1>4, <1>5 DEF Mail, News
<1>9. \A q \in Peer : Known(q)' = Known(q) \cup claims
  <2>1. Known(p)' = Known(p) \cup claims
    BY <1>5, <1>6 DEF Known, Mail
  <2>2. ASSUME NEW q \in Peer \ {p}
        PROVE  Known(q)' = Known(q) \cup claims
    <3>1. Mail(q, "claim")' = Mail(q, "claim") \cup told
      BY <1>4, <1>5 DEF Mail
    <3>2. {m.claim : m \in told} = claims
      BY <1>4
    <3>3. QED
      BY <1>6, <3>1, <3>2 DEF Known
  <2>3. QED
    BY <2>1, <2>2
<1>10. \A q \in Peer : /\ now[q] \in Nat /\ Front(q) \in Nat /\ Front(q) <= now[p]
                       /\ phase[q] = "resolve" => Front(q) < now[p]
                       /\ now[q] <= now[p]
  <2> TAKE q \in Peer
  <2>1. now[q] \in Nat /\ Front(q) \in Nat /\ phase[q] \in Phase
    BY FrontType DEF StepInv
  <2>2. now[q] <= now[p]
    BY <1>1, <1>3, <2>1 DEF StepInv, InPhase
  <2>3. QED
    BY <1>3, <2>1, <2>2, FrontType DEF StepInv, Phase
<1>11. \A q \in Peer : \A c \in claims : c \notin Known(q)
  <2> SUFFICES ASSUME NEW q \in Peer, NEW c \in claims, c \in Known(q) PROVE FALSE
    OBVIOUS
  <2>1. c.drone = p /\ c.ts = now[p]
    BY <1>2
  <2>2. QED
    BY <1>1, <1>3, <2>1 DEF StepInv, ClaimsOnce
<1>12. News(p) = {}
  <2>1. ASSUME NEW q \in Peer, q # p, News(p) # {}
        PROVE  FALSE
    BY <1>1, <2>1, Behind
  <2>2. ASSUME NEW m \in News(p)
        PROVE  m.from \in Peer /\ m.from # p
    BY MailType DEF News, Mail, StepInv, OnTime
  <2>3. QED
    BY <2>1, <2>2
<1>13. \A q \in Peer : \A m \in Mail(q, "round") : m.sent = Front(q) + 1 => Front(q) < now[p]
  <2> SUFFICES ASSUME NEW q \in Peer, NEW m \in Mail(q, "round"), m.sent = Front(q) + 1
               PROVE  Front(q) < now[p]
    OBVIOUS
  <2>1. m \in net[q] /\ m.from \in Peer /\ m.sent \in Nat
    BY MailType
  <2>2. m.sent <= now[m.from] /\ now[m.from] \in Nat
    BY <1>10, <2>1 DEF StepInv, OnTime
  <2>3. now[m.from] <= now[p]
    BY <1>10, <2>1
  <2>4. QED
    BY <1>3, <1>10, <2>2, <2>3
<1>14. \A q \in Peer : Front(q) < now[p] => Open(q)' = Open(q) /\ \A x : On(q, x)' = On(q, x)
  <2> SUFFICES ASSUME NEW q \in Peer, Front(q) < now[p]
               PROVE  Open(q)' = Open(q) /\ \A x : On(q, x)' = On(q, x)
    OBVIOUS
  <2>1. \A c \in claims : c.ts # Front(q)
    BY <1>2, <1>3, <1>10
  <2>2. Open(q)' = Open(q)
    BY <1>7, <1>9, <2>1 DEF Open
  <2>3. QED
    BY <2>2 DEF On
<1>15. \A q \in Peer : News(q) # {} => Front(q) < now[p]
  BY <1>13 DEF RoundInv, NewsDecides, News
<1>16. \A q \in Peer : Foretold(q)' = Foretold(q)
  <2> TAKE q \in Peer
  <2>1. CASE News(q) = {}
    BY <1>8, <2>1 DEF Foretold
  <2>2. CASE News(q) # {}
    BY <1>8, <1>14, <1>15, <2>2 DEF Foretold
  <2>3. QED
    BY <2>1, <2>2
<1>17. AllUp'
  <2>1. \A a, b \in Peer : Active(view'[a][b])
    BY <1>2, <1>6 DEF StepInv, AllUp
  <2>2. Active(state.view)
    BY <1>2, <1>4 DEF StepInv, AllUp
  <2>3. ASSUME NEW q \in Peer, NEW m \in net'[q]
        PROVE  /\ m.type = "state" => Active(m.view)
               /\ m.type = "round" => m.round.released = None
    <3>1. m \in net[q] \/ m = state \/ m \in told
      BY <1>5
    <3>2. QED
      BY <1>4, <2>2, <3>1 DEF StepInv, AllUp
  <2>4. QED
    BY <1>1, <2>1, <2>3 DEF StepInv, AllUp
<1>18. InPhase'
  BY <1>1, InPhaseKept DEF StepInv
<1>19. OnTime'
  <2> SUFFICES ASSUME NEW q \in Peer, NEW n \in net'[q]
               PROVE  /\ n.from # q
                      /\ n.sent >= IF phase'[q] = "resolve" THEN Front(q)' + 1 ELSE Front(q)'
                      /\ n.sent <= now'[n.from]
                      /\ Unsent(n, n.from)' => n.sent < now'[n.from]
                      /\ n.type = "claim" => n.claim.drone = n.from /\ n.claim.ts = n.sent
    BY DEF OnTime
  <2>1. CASE n \in net[q]
    <3>1. n.from \in Peer
      BY <2>1, MailType
    <3>2. /\ n.from # q
          /\ n.sent >= IF phase[q] = "resolve" THEN Front(q) + 1 ELSE Front(q)
          /\ n.sent <= now[n.from]
          /\ Unsent(n, n.from) => n.sent < now[n.from]
          /\ n.type = "claim" => n.claim.drone = n.from /\ n.claim.ts = n.sent
      BY <2>1 DEF StepInv, OnTime
    <3>3. phase'[q] = "resolve" <=> phase[q] = "resolve"
      BY <1>1, <1>6
    <3>4. Unsent(n, n.from)' => Unsent(n, n.from)
      BY <1>1, <1>6, <3>1 DEF Unsent
    <3>5. QED
      BY <1>1, <1>7, <3>2, <3>3, <3>4
  <2>2. CASE q # p /\ n \in {state} \cup told
    <3>1. /\ n.from = p /\ n.sent = now[p] /\ n.type \in {"state", "claim"}
          /\ n.type = "claim" => n.claim \in claims
      BY <1>4, <2>2
    <3>2. n.type = "claim" => n.claim.drone = p /\ n.claim.ts = now[p]
      BY <1>2, <3>1
    <3>3. ~Unsent(n, p)'
      BY <1>6, <3>1 DEF Unsent
    <3>4. now[p] >= IF phase'[q] = "resolve" THEN Front(q)' + 1 ELSE Front(q)'
      BY <1>3, <1>6, <1>7, <1>10, <2>2
    <3>5. QED
      BY <1>1, <1>3, <2>2, <3>1, <3>2, <3>3, <3>4
  <2>3. QED
    BY <1>5, <2>1, <2>2
<1>20. ClaimsOnce'
  <2> SUFFICES ASSUME NEW q \in Peer, NEW c \in Known(q) \cup claims
               PROVE  /\ c.ts <= now[c.drone]
                      /\ phase'[c.drone] # "idle" => c.ts < now[c.drone]
                      /\ \A d \in Known(q) \cup claims : c.drone = d.drone /\ c.ts = d.ts => c = d
    BY <1>1, <1>9 DEF ClaimsOnce
  <2>1. \A d \in Known(q) : d.drone \in Peer /\ (d.drone = p => d.ts # now[p])
    BY <1>1, <1>3, KnownType DEF StepInv, ClaimsOnce
  <2>2. \A d \in claims : d.drone = p /\ d.ts = now[p]
    BY <1>2
  <2>3. CASE c \in Known(q)
    <3>1. \A d \in Known(q) : c.drone = d.drone /\ c.ts = d.ts => c = d
      BY <2>3 DEF StepInv, ClaimsOnce
    <3>2. phase'[c.drone] # "idle" => phase[c.drone] # "idle"
      BY <1>6, <2>1, <2>3
    <3>3. QED
      BY <2>1, <2>2, <2>3, <3>1, <3>2 DEF StepInv, ClaimsOnce
  <2>4. CASE c \in claims
    BY <1>2, <1>3, <1>6, <2>1, <2>2, <2>4
  <2>5. QED
    BY <2>3, <2>4
<1>21. Waiting'
  <2>1. ASSUME NEW q \in Peer, NEW c \in claims
        PROVE  c.ts >= Front(q) /\ c \notin resolved[q]
    <3>1. c.ts = now[p]
      BY <1>2
    <3>2. \A d \in resolved[q] : d.ts <= Front(q) /\ (d.ts = Front(q) => phase[q] = "resolve")
      BY DEF StepInv, Waiting
    <3>3. \A d \in resolved[q] : d.ts \in Nat
      BY DEF TypeInv, TypeOK, Claim
    <3>4. QED
      BY <1>10, <1>3, <3>1, <3>2, <3>3
  <2>2. \A q \in Peer : phase[q] = "resolve" => phase'[q] = "resolve"
    BY <1>1, <1>6
  <2>3. QED
    BY <1>1, <1>7, <1>9, <2>1, <2>2 DEF StepInv, Waiting
<1>22. RoundInv'
  <2>1. Numbered'
    BY <1>1, <1>8 DEF RoundInv, Numbered
  <2>2. LastTwo'
    BY <1>1 DEF RoundInv, LastTwo
  <2>3. NewsDecides'
    BY <1>7, <1>8, <1>14, <1>15 DEF RoundInv, NewsDecides
  <2>4. NewsSorted'
    BY <1>8, <1>14, <1>15, <1>16 DEF RoundInv, NewsSorted
  <2>5. NewsFirst'
    BY <1>6, <1>7, <1>8, <1>12 DEF RoundInv, NewsFirst
  <2>6. Agreed'
    <3>1. \A q \in Peer : Foretold(q) \in SUBSET Known(q)
      BY DEF Foretold, Open
    <3>2. \A q \in Peer : Known(q)' \ Foretold(q)' = (Known(q) \ Foretold(q)) \cup claims
      BY <1>9, <1>11, <1>16, <3>1
    <3>3. QED
      BY <3>2 DEF RoundInv, Agreed
  <2>7. LateRounds'
    BY <1>1, <1>7, <1>8, <1>13, <1>14 DEF RoundInv, LateRounds
  <2>8. QED
    BY <2>1, <2>2, <2>3, <2>4, <2>5, <2>6, <2>7 DEF RoundInv
<1>23. \A a \in Peer : Holds(a)' => /\ Holds(a)
                                    /\ view'[a][a] = view[a][a] /\ part'[a] = part[a]
                                    /\ a = p => claims = {} /\ views = view[p]
  <2> TAKE a \in Peer
  <2>1. CASE a = p
    BY <1>2, <1>6, <2>1 DEF Holds, Won
  <2>2. CASE a # p
    BY <1>2, <1>6, <2>2 DEF Holds, Won
  <2>3. QED
    BY <2>1, <2>2
<1>24. ASSUME NEW a \in Peer, a # p, NEW x, x # None, Respects(p, a, x)
       PROVE  /\ view'[p][a].cell = x
              /\ \A k \in Known(p)' : k.drone = p => k.cell # x
  <2>1. views[a] = view[p][a] /\ views[a].cell = x
    BY <1>2, <1>24 DEF Respects
  <2>2. x \in Owned(views)
    <3>1. Active(views[a])
      BY <1>2 DEF StepInv, AllUp
    <3>2. QED
      BY <1>24, <2>1, <3>1 DEF Owned
  <2>3. processed[p] # {}
    BY <1>24 DEF Respects, RoundInv, LastTwo
  <2>4. x \notin Candidates(p, views)
    BY <2>2, <2>3 DEF Candidates
  <2>5. QED
    BY <1>2, <1>6, <1>9, <1>24, <2>1, <2>4 DEF Respects
<1>25. Seated'
  <2>1. \A a \in Peer : view'[a][a].cell # None => view'[a][a].cell = view[a][a].cell
                                                   /\ part'[a] = part[a]
    BY <1>2, <1>6
  <2>2. QED
    BY <2>1 DEF OwnerInv, Seated, Won
<1>26. WinnersKnown'
  <2> SUFFICES ASSUME NEW a \in Peer, NEW b \in Peer, a # b, Holds(a)'
               PROVE  Told(a, b)' \/ Knows(a, b)'
    BY DEF WinnersKnown
  <2>1. /\ Holds(a) /\ view'[a][a] = view[a][a] /\ part'[a] = part[a]
        /\ a = p => claims = {} /\ views = view[p]
    BY <1>23
  <2>2. Told(a, b) \/ Knows(a, b)
    BY <2>1 DEF OwnerInv, WinnersKnown
  <2>3. CASE a = p
    <3>1. \A n \in Mail(b, "state")' : n \in Mail(b, "state") \/ n.view.cell = view[p][p].cell
      BY <1>4, <1>8, <2>1, <2>3
    <3>2. Known(b)' = Known(b) /\ view'[b] = view[b]
      BY <1>6, <1>9, <2>1, <2>3
    <3>3. CASE Told(a, b)
      BY <1>8, <2>1, <2>3, <3>1, <3>3 DEF Told
    <3>4. CASE Knows(a, b)
      BY <1>1, <2>1, <2>3, <3>1, <3>2, <3>4 DEF Knows, Respects
    <3>5. QED
      BY <2>2, <3>3, <3>4
  <2>4. CASE a # p
    <3>1. b = p
      BY <2>4 DEF InLockstep
    <3>2. Knows(a, p)
      BY <1>12, <2>2, <3>1 DEF Told
    <3>3. view[a][a].cell # None
      BY <2>1 DEF Holds
    <3>4. /\ view'[p][a].cell = view[a][a].cell
          /\ \A k \in Known(p)' : k.drone = p => k.cell # view[a][a].cell
      BY <1>24, <2>4, <3>2, <3>3 DEF Knows
    <3>5. \A k \in Known(p)' : k.drone # a
      BY <1>2, <1>9, <2>4, <3>2 DEF Knows
    <3>6. QED
      BY <1>1, <1>8, <2>1, <3>1, <3>2, <3>4, <3>5 DEF Knows, Respects
  <2>5. QED
    BY <2>3, <2>4
<1>27. WinnersAwaited'
  <2> SUFFICES ASSUME NEW a \in Peer, NEW b \in Peer, a # b, NEW m \in News(a),
                      a \in DOMAIN m.round.award, Won(m.round.award[a].kind)
               PROVE  Respects(b, a, m.round.award[a].cell)'
    BY <1>8 DEF WinnersAwaited, Won
  <2>1. Respects(b, a, m.round.award[a].cell)
    BY DEF OwnerInv, WinnersAwaited
  <2>2. a # p /\ b = p
    BY <1>12 DEF InLockstep
  <2>3. m.round.award[a].cell # None
    <3>1. m.round \in Round
      BY MailType DEF News
    <3>2. m.round.award[a] \in Seat
      BY <3>1 DEF Round, Awards
    <3>3. QED
      BY <3>2, AuctionAssumption DEF Seat
  <2>4. QED
    BY <1>1, <1>24, <2>1, <2>2, <2>3 DEF Respects
<1>28. HoldersQuiet'
  BY <1>2, <1>9, <1>23 DEF OwnerInv, HoldersQuiet
<1>29. HoldersApart'
  BY <1>23 DEF OwnerInv, HoldersApart
<1>30. QED
  BY <1>17, <1>18, <1>19, <1>20, <1>21, <1>22, <1>25, <1>26, <1>27, <1>28, <1>29
     DEF StepInv, OwnerInv
-----------------------------------------------------------------------------
\* The claims of a contest belong to different drones: each is the last of its
\* drone, and the award settles the contest.
LEMMA AwardSettles ==
  ASSUME NEW S \in SUBSET Claim, IsFiniteSet(S),
         \A c, d \in S : c.drone = d.drone => c = d,
         NEW reserved, NEW pick \in Fallbacks(S, reserved)
  PROVE  Settles(Award(S, pick), S)
<1>1. DOMAIN Award(S, pick) = Claimants(S)
  BY DEF Award
<1>2. ASSUME NEW c \in S
      PROVE  IF c \in Losers(S) THEN ~Won(Award(S, pick)[c.drone].kind)
                                ELSE Award(S, pick)[c.drone] = LeadSeat(c, S)
  <2>1. c.drone \in Claimants(S)
    BY DEF Claimants
  <2>2. LastClaim(c.drone, S) = c
    BY <2>1, LastClaimIn
  <2>3. Award(S, pick)[c.drone] = SeatOf(c, S, pick)
    BY <2>1, <2>2 DEF Award
  <2>4. QED
    BY <2>3 DEF SeatOf, LeadSeat, Won
<1>3. QED
  BY <1>1, <1>2 DEF Settles

\* Two drones that win one contest share its cell, half and half.
LEMMA LeadsApart ==
  ASSUME NEW S \in SUBSET Claim, IsFiniteSet(S), NEW x, \A c \in S : c.cell = x,
         NEW a \in S \ Losers(S), NEW b \in S \ Losers(S), a # b
  PROVE  {LeadSeat(a, S).kind, LeadSeat(b, S).kind} = {"left", "right"}
<1>1. {SeatOf(a, S, None).kind, SeatOf(b, S, None).kind} = {"left", "right"}
  BY SeatsOnContested
<1>2. SeatOf(a, S, None) = LeadSeat(a, S) /\ SeatOf(b, S, None) = LeadSeat(b, S)
  BY DEF SeatOf, LeadSeat
<1>3. QED
  BY <1>1, <1>2

\* d leads the contest S, and its seat in the award says so.
Leads(d, S, award) ==
  \E c \in S \ Losers(S) : c.drone = d /\ award[d] = LeadSeat(c, S)

\* A winner's seat is the same in every award that settles a contest.
LEMMA WinnersClaim ==
  ASSUME NEW S, NEW award, Settles(award, S), NEW d, d \in DOMAIN award,
         Won(award[d].kind)
  PROVE  /\ Leads(d, S, award)
         /\ \A other : Settles(other, S) => d \in DOMAIN other /\ other[d] = award[d]
<1>1. PICK c \in S : c.drone = d
  BY DEF Settles, Claimants
<1>2. c \notin Losers(S) /\ award[d] = LeadSeat(c, S)
  BY <1>1 DEF Settles
<1>3. \A other : Settles(other, S) => d \in DOMAIN other /\ other[d] = award[d]
  BY <1>1, <1>2 DEF Settles, Claimants
<1>4. QED
  BY <1>1, <1>2, <1>3 DEF Leads

\* p settles the contest on x: it decides it, or applies the other's decision.
Settle(p, x, award) ==
  /\ On(p, x) # {} /\ On(p, x) \in SUBSET pending[p]
  /\ Settles(award, On(p, x)) /\ award \in Awards
  /\ now[p] = Front(p) + 1
  /\ phase[p] # "idle"
  /\ roundId' = [roundId EXCEPT ![p] = @ + 1]
  /\ processed' = [processed EXCEPT ![p] = @ \cup {roundId[p] + 1}]
  /\ \A q \in Peer : /\ Front(q)' = Front(q)
                     /\ Mail(q, "state")' = Mail(q, "state")
                     /\ pending'[q] \in SUBSET pending[q]
                     /\ q # p => /\ Known(q)' = Known(q)
                                 /\ view'[q] = view[q] /\ part'[q] = part[q]
  /\ Known(p)' = Known(p) \ On(p, x)
  /\ \A q \in Peer :
       view'[p][q].cell = IF q \notin DOMAIN award THEN view[p][q].cell
                          ELSE IF award[q].kind = "idle" THEN None ELSE award[q].cell
  /\ part'[p] = IF p \notin DOMAIN award THEN part[p]
                ELSE IF award[p].kind = "idle" THEN None ELSE award[p].kind
  /\ \A n \in Mail(p, "state") : n.sent >= Front(p) + 1
  /\ \A m \in Mail(p, "round")' : /\ m \in Mail(p, "round")
                                  /\ m.round.id <= roundId[p] => m.sent = Front(p) + 1
  /\ \A m \in Mail(p, "round") : m.round.id > roundId[p] + 1 => m \in Mail(p, "round")'

\* The rounds p publishes as it settles the contest: its own, or none.
Publishes(p, x, award, ms) ==
  /\ \A q \in Peer \ {p} : Mail(q, "round")' = Mail(q, "round") \cup ms
  /\ \A m \in ms : /\ m.round.id = roundId[p] + 1 /\ m.round.cell = x
                   /\ m.round.award = award /\ m.sent = Front(p) + 1

\* What a peer that settles a contest may still get of what it decided before.
LEMMA SettleLate ==
  ASSUME InLockstep, TypeInv, StepInv, RoundInv,
         NEW p \in Peer, NEW x, NEW award, Settle(p, x, award)
  PROVE  \A m \in Mail(p, "round")' :
           m.round.id <= roundId[p]' =>
             /\ roundId[p]' <= m.round.id + 1
             /\ m.sent = Front(p)' + 1 =>
                  /\ \E d \in Peer : \A c \in Open(p)' : c.drone # d
                  /\ roundId[p]' = m.round.id + 1 => Open(p)' = {}
<1>1. PICK s \in On(p, x) : TRUE
  BY DEF Settle
<1>2. s \in Open(p) /\ s \in Known(p) /\ s.drone \in Peer
  BY KnownType DEF On, Open
<1>3. roundId[p]' = roundId[p] + 1 /\ roundId[p] \in Nat /\ Front(p)' = Front(p)
  BY FrontType DEF Settle, TypeInv, TypeOK, StepInv
<1>4. Open(p)' = Open(p) \ On(p, x)
  BY DEF Settle, Open
<1>5. \A c, d \in Open(p) : c.drone = d.drone => c = d
  BY DEF Open, StepInv, ClaimsOnce
<1>6. \A c \in Open(p)' : c \in Open(p) /\ c.drone # s.drone /\ c.drone \in Peer
  BY <1>2, <1>4, <1>5, KnownType DEF Open
<1> SUFFICES ASSUME NEW m \in Mail(p, "round")', m.round.id <= roundId[p] + 1
             PROVE  /\ roundId[p] + 1 <= m.round.id + 1
                    /\ m.sent = Front(p) + 1 =>
                         /\ \E d \in Peer : \A c \in Open(p)' : c.drone # d
                         /\ roundId[p] + 1 = m.round.id + 1 => Open(p)' = {}
  BY <1>3
<1>7. m \in Mail(p, "round") /\ m.round.id \in Nat
  BY MailType, RoundType DEF Settle
<1>8. CASE m.round.id = roundId[p] + 1
  BY <1>2, <1>3, <1>6, <1>7, <1>8
<1>9. CASE m.round.id <= roundId[p]
  <2>1. m.sent = Front(p) + 1
    BY <1>9 DEF Settle
  <2>2. /\ roundId[p] <= m.round.id + 1
        /\ \E d \in Peer : \A c \in Open(p) : c.drone # d
        /\ roundId[p] = m.round.id + 1 => Open(p) = {}
    BY <1>7, <1>9, <2>1 DEF RoundInv, LateRounds
  <2>3. roundId[p] = m.round.id
    BY <1>2, <1>3, <1>7, <1>9, <2>2
  <2>4. PICK d \in Peer : \A c \in Open(p) : c.drone # d
    BY <2>2
  <2>5. Open(p)' = {}
    BY <1>2, <1>6, <2>4 DEF InLockstep
  <2>6. QED
    BY <1>3, <2>3, <2>5
<1>10. QED
  BY <1>3, <1>7, <1>8, <1>9

LEMMA SettleForetold ==
  ASSUME InLockstep, LockInv, TypeInv', NEW p \in Peer, NEW x \in Nat, NEW award, NEW ms,
         Settle(p, x, award), Publishes(p, x, award, ms),
         NEW m0 \in News(p), m0.round.cell = x, m0.round.id = roundId[p] + 1
  PROVE  RoundInv'
<1> USE DEF LockInv
<1> DEFINE S == On(p, x)
<1>1. /\ \A q \in Peer : roundId[q] \in Nat /\ Front(q) \in Nat
      /\ roundId'[p] = roundId[p] + 1
      /\ \A q \in Peer \ {p} : roundId'[q] = roundId[q]
      /\ \A q \in Peer : Front(q)' = Front(q)
  BY FrontType DEF Settle, TypeInv, TypeOK, StepInv
<1>2. \A q \in Peer : \A m \in Mail(q, "round") : m.round.id \in Nat /\ m.round.cell \in Nat
  BY MailType, RoundType
<1>3. ASSUME NEW q \in Peer \ {p}
      PROVE  /\ roundId[p] < roundId[q] /\ News(q) = {} /\ News(q)' = {}
             /\ Known(q) = Known(p) \ Foretold(p)
             /\ Open(q)' = Open(q)
             /\ \A m \in Mail(q, "round")' : m \in Mail(q, "round") \/ m \in ms
  <2>1. roundId[p] < roundId[q] /\ News(q) = {}
    BY Behind
  <2>2. Mail(q, "round")' = Mail(q, "round") \cup ms
    BY DEF Publishes
  <2>3. \A m \in ms : ~(m.round.id > roundId[q])
    BY <1>1, <2>1 DEF Publishes
  <2>4. News(q)' = {}
    BY <1>1, <2>1, <2>2, <2>3 DEF News
  <2>5. Known(q) = Known(p) \ Foretold(p)
    BY <2>1, CommonClaim
  <2>6. Open(q)' = Open(q)
    BY <1>1 DEF Settle, Open
  <2>7. QED
    BY <2>1, <2>2, <2>4, <2>5, <2>6
<1>4. \A m \in News(p) : /\ m.round.id > roundId[p] + 1 => m.round.cell # x
                         /\ m.round.id <= roundId[p] + 1 => m.round.cell = x
  <2> TAKE m \in News(p)
  <2>1. /\ m.round.id \in Nat /\ m.round.cell \in Nat /\ m.round.id > roundId[p]
        /\ m0.round.id < m.round.id <=> m0.round.cell < m.round.cell
        /\ m.round.id < m0.round.id <=> m.round.cell < m0.round.cell
    BY <1>2 DEF News, RoundInv, NewsSorted
  <2>2. QED
    BY <1>1, <2>1
<1>5. \A m : m \in News(p)' <=> m \in News(p) /\ m.round.cell # x
  <2>1. \A m \in News(p)' : m \in News(p) /\ m.round.id > roundId[p] + 1
    BY <1>1, <1>2 DEF Settle, News
  <2>2. \A m \in News(p) : m.round.id > roundId[p] + 1 => m \in News(p)'
    BY <1>1, <1>2 DEF Settle, News
  <2>3. QED
    BY <1>1, <1>2, <1>4, <2>1, <2>2 DEF News
<1>6. Open(p)' = Open(p) \ S
  BY DEF Settle, Open
<1>7. \A y : y # x => On(p, y)' = On(p, y)
  BY <1>6 DEF On
<1>8. S \in SUBSET Foretold(p)
  BY DEF Foretold, On
<1>9. Foretold(p)' = Foretold(p) \ S
  BY <1>5, <1>6 DEF Foretold, On
<1> HIDE DEF S
<1>10. Numbered'
  <2> SUFFICES ASSUME NEW a \in Peer, NEW b \in Peer, a # b
               PROVE  /\ \A m \in Mail(a, "round")' : m.round.id >= 1 /\ m.round.id <= roundId'[b]
                      /\ \A n \in Nat : roundId'[a] < n /\ n <= roundId'[b]
                                          => \E m \in News(a)' : m.round.id = n
    BY DEF Numbered
  <2>1. /\ \A m \in Mail(a, "round") : m.round.id >= 1 /\ m.round.id <= roundId[b]
        /\ \A n \in Nat : roundId[a] < n /\ n <= roundId[b] => \E m \in News(a) : m.round.id = n
    BY DEF RoundInv, Numbered
  <2>2. CASE a = p
    <3>1. \A m \in Mail(a, "round")' : m.round.id >= 1 /\ m.round.id <= roundId'[b]
      BY <1>1, <2>1, <2>2 DEF Settle
    <3>2. ASSUME NEW n \in Nat, roundId'[a] < n, n <= roundId'[b]
          PROVE  \E m \in News(a)' : m.round.id = n
      <4>1. PICK m \in News(a) : m.round.id = n
        BY <1>1, <2>1, <2>2, <3>2
      <4>2. m \in News(a)'
        BY <1>1, <2>2, <3>2, <4>1 DEF Settle, News
      <4>3. QED
        BY <4>1, <4>2
    <3>3. QED
      BY <3>1, <3>2
  <2>3. CASE a # p
    <3>1. b = p
      BY <2>3 DEF InLockstep
    <3>2. \A m \in Mail(a, "round")' : m.round.id >= 1 /\ m.round.id <= roundId'[b]
      <4>1. \A m \in ms : m.round.id = roundId[p] + 1
        BY DEF Publishes
      <4>2. QED
        BY <1>1, <1>2, <1>3, <2>1, <2>3, <3>1, <4>1
    <3>3. ~(roundId'[a] < roundId'[b])
      BY <1>1, <1>3, <2>3, <3>1
    <3>4. roundId'[a] \in Nat /\ roundId'[b] \in Nat
      BY <1>1, <2>3, <3>1
    <3>5. QED
      BY <3>2, <3>3, <3>4
  <2>4. QED
    BY <2>2, <2>3
<1>11. LastTwo'
  <2>1. /\ processed'[p] = processed[p] \cup {roundId[p] + 1}
        /\ \A q \in Peer \ {p} : processed'[q] = processed[q]
    BY DEF Settle, TypeInv, TypeOK
  <2>2. QED
    BY <1>1, <2>1 DEF RoundInv, LastTwo
<1>12. NewsDecides'
  <2>1. \A m \in News(p)' : /\ m.sent = Front(p)' + 1
                            /\ On(p, m.round.cell)' # {}
                            /\ Settles(m.round.award, On(p, m.round.cell)')
    BY <1>1, <1>5, <1>7 DEF RoundInv, NewsDecides
  <2>2. QED
    BY <1>3, <2>1 DEF NewsDecides, Settles
<1>13. NewsSorted'
  <2>1. Open(p)' \ Foretold(p)' = Open(p) \ Foretold(p)
    BY <1>6, <1>8, <1>9
  <2>2. QED
    BY <1>3, <1>5, <2>1 DEF RoundInv, NewsSorted
<1>14. NewsFirst'
  <2>1. ASSUME NEW q \in Peer, NEW c \in pending'[q], c.ts > Front(q)
        PROVE  News(q)' = {}
    <3>1. c \in pending[q]
      BY DEF Settle
    <3>2. News(q) = {}
      BY <2>1, <3>1 DEF RoundInv, NewsFirst
    <3>3. QED
      BY <1>3, <1>5, <3>2
  <2>2. QED
    BY <1>1, <2>1 DEF NewsFirst
<1>15. Agreed'
  <2>1. Known(p)' \ Foretold(p)' = Known(p) \ Foretold(p)
    BY <1>8, <1>9 DEF Settle, S
  <2>2. ASSUME NEW q \in Peer \ {p}
        PROVE  Known(q)' \ Foretold(q)' = Known(q) \ Foretold(q)
    <3>1. Foretold(q)' = {} /\ Foretold(q) = {}
      BY <1>3 DEF Foretold
    <3>2. QED
      BY <3>1 DEF Settle
  <2>3. QED
    BY <2>1, <2>2 DEF RoundInv, Agreed
<1>16. LateRounds'
  <2>1. ASSUME NEW q \in Peer \ {p}, NEW m \in Mail(q, "round")', m.round.id <= roundId[q]
        PROVE  /\ roundId[q] <= m.round.id + 1
               /\ m.sent = Front(q) + 1 =>
                    /\ \E d \in Peer : \A c \in Open(q) : c.drone # d
                    /\ roundId[q] = m.round.id + 1 => Open(q) = {}
    <3>1. CASE m \in Mail(q, "round")
      BY <2>1, <3>1 DEF RoundInv, LateRounds
    <3>2. CASE m \in ms
      <4>1. m.round.id = roundId[p] + 1 /\ m.sent = Front(p) + 1
        BY <3>2 DEF Publishes
      <4>2. \A c \in Open(q) : c.ts = Front(q) /\ c \in Known(p) /\ c \notin Foretold(p)
        BY <1>3 DEF Open
      <4>3. \A m1 \in News(p) : \E c \in Foretold(p) : c.cell = m1.round.cell
        <5> TAKE m1 \in News(p)
        <5>1. PICK c \in On(p, m1.round.cell) : TRUE
          BY DEF RoundInv, NewsDecides
        <5>2. QED
          BY <5>1 DEF Foretold, On
      <4>4. \A c, d \in Known(p) : c.drone = d.drone /\ c.ts = d.ts => c = d
        BY DEF StepInv, ClaimsOnce
      <4>5. \A c \in Foretold(p) : c \in Known(p) /\ c.ts = Front(p) /\ c.drone \in Peer
        BY KnownType DEF Foretold, Open
      <4>6. \A c \in Open(q) : c.drone \in Peer
        BY <4>2, KnownType
      <4>7. PICK s \in Foretold(p) : s.cell = x
        BY <4>3
      <4>8. \A n \in Nat : roundId[p] < n /\ n <= roundId[q] => \E m1 \in News(p) : m1.round.id = n
        BY DEF RoundInv, Numbered
      <4>9. ASSUME NEW n \in Nat, roundId[p] + 1 < n, n <= roundId[q]
            PROVE  \E c \in Foretold(p) : /\ c.drone # s.drone
                                          /\ \E m1 \in News(p) : m1.round.id = n /\ m1.round.cell = c.cell
        <5>1. PICK m1 \in News(p) : m1.round.id = n
          BY <1>1, <4>8, <4>9
        <5>2. m1.round.cell # x
          BY <1>4, <4>9, <5>1
        <5>3. PICK c \in Foretold(p) : c.cell = m1.round.cell
          BY <4>3
        <5>4. c.drone # s.drone
          BY <4>4, <4>5, <4>7, <5>2, <5>3
        <5>5. QED
          BY <5>1, <5>3, <5>4
      <4>10. roundId[q] <= roundId[p] + 2
        <5> SUFFICES ASSUME ~(roundId[q] <= roundId[p] + 2) PROVE FALSE
          OBVIOUS
        <5>1. /\ roundId[p] + 2 \in Nat /\ roundId[p] + 3 \in Nat
              /\ roundId[p] + 3 <= roundId[q]
          BY <1>1
        <5>2. PICK c \in Foretold(p) : /\ c.drone # s.drone
                                       /\ \E m1 \in News(p) : m1.round.id = roundId[p] + 2
                                                              /\ m1.round.cell = c.cell
          BY <1>1, <4>9, <5>1
        <5>3. PICK d \in Foretold(p) : /\ d.drone # s.drone
                                       /\ \E m1 \in News(p) : m1.round.id = roundId[p] + 3
                                                              /\ m1.round.cell = d.cell
          BY <1>1, <4>9, <5>1
        <5>4. c.drone = d.drone
          BY <4>5, <5>2, <5>3 DEF InLockstep
        <5>5. c = d
          BY <4>4, <4>5, <5>4
        <5>6. PICK m1 \in News(p), m2 \in News(p) :
                 /\ m1.round.id = roundId[p] + 2 /\ m2.round.id = roundId[p] + 3
                 /\ m1.round.cell = m2.round.cell
          BY <5>2, <5>3, <5>5
        <5>7. m1.round.id < m2.round.id
          BY <1>1, <5>6
        <5>8. m1.round.cell < m2.round.cell /\ m1.round.cell \in Nat
          BY <1>2, <5>7 DEF RoundInv, NewsSorted, News
        <5>9. QED
          BY <5>6, <5>8
      <4>11. m.sent = Front(q) + 1 => Front(p) = Front(q)
        BY <1>1, <4>1
      <4>12. Front(p) = Front(q) => \A c \in Open(q) : \A d \in Foretold(p) : c.drone # d.drone
        BY <4>2, <4>4, <4>5
      <4>13. ASSUME roundId[q] = m.round.id + 1, Front(p) = Front(q)
             PROVE  Open(q) = {}
        <5>1. /\ roundId[p] + 2 \in Nat /\ roundId[p] + 1 < roundId[p] + 2
              /\ roundId[p] + 2 <= roundId[q]
          BY <1>1, <4>1, <4>13
        <5>2. PICK c \in Foretold(p) : c.drone # s.drone
          BY <4>9, <5>1
        <5>3. QED
          BY <4>5, <4>6, <4>12, <4>13, <5>2 DEF InLockstep
      <4>14. roundId[q] <= m.round.id + 1
        BY <1>1, <4>1, <4>10
      <4>15. QED
        BY <4>5, <4>11, <4>12, <4>13, <4>14
    <3>3. QED
      BY <1>3, <3>1, <3>2
  <2>2. QED
    BY <1>1, <1>3, <2>1, SettleLate DEF LateRounds
<1>17. QED
  BY <1>10, <1>11, <1>12, <1>13, <1>14, <1>15, <1>16 DEF RoundInv

LEMMA SettleFresh ==
  ASSUME InLockstep, LockInv, TypeInv', NEW p \in Peer, NEW x \in Nat, NEW award, NEW m0,
         Settle(p, x, award), Publishes(p, x, award, {m0}), phase[p] = "resolve",
         News(p) = {}, \A c \in Open(p) : x <= c.cell
  PROVE  RoundInv'
<1> USE DEF LockInv
<1> DEFINE S == On(p, x)
<1>1. /\ \A q \in Peer : roundId[q] \in Nat /\ Front(q) \in Nat
      /\ roundId'[p] = roundId[p] + 1
      /\ \A q \in Peer \ {p} : roundId'[q] = roundId[q]
      /\ \A q \in Peer : Front(q)' = Front(q)
  BY FrontType DEF Settle, TypeInv, TypeOK, StepInv
<1>2. \A q \in Peer : \A m \in Mail(q, "round") : m.round.id \in Nat /\ m.round.cell \in Nat
  BY MailType, RoundType
<1>3. /\ m0.round.id = roundId[p] + 1 /\ m0.round.cell = x /\ m0.round.award = award
      /\ m0.sent = Front(p) + 1
      /\ \A q \in Peer \ {p} : Mail(q, "round")' = Mail(q, "round") \cup {m0}
  BY DEF Publishes
<1>4. PICK s \in S : TRUE
  BY DEF Settle
<1>5. s \in Known(p) /\ s.ts = Front(p) /\ s.cell = x /\ s \in Open(p)
  BY DEF On, Open
<1>6. News(p)' = {} /\ Foretold(p)' = {} /\ Foretold(p) = {}
  <2>1. News(p)' = {}
    BY <1>1, <1>2 DEF Settle, News
  <2>2. QED
    BY <2>1 DEF Foretold
<1>7. Open(p)' = Open(p) \ S
  BY DEF Settle, Open
<1>8. ASSUME NEW q \in Peer \ {p}
      PROVE  /\ roundId[q] <= roundId[p]
             /\ Known(p) = Known(q) \ Foretold(q)
             /\ Front(q) = Front(p)
             /\ News(q)' = News(q) \cup {m0}
             /\ Open(q)' = Open(q)
             /\ \A y : On(q, y)' = On(q, y)
             /\ On(q, x) = S
             /\ \A m \in News(q) : m.round.cell < x
             /\ Foretold(q)' = Foretold(q) \cup S
  <2>1. roundId[q] <= roundId[p]
    <3>1. ASSUME roundId[p] < roundId[q]
          PROVE  FALSE
      BY <1>1, <3>1 DEF RoundInv, Numbered
    <3>2. QED
      BY <1>1, <3>1
  <2>2. Known(p) = Known(q) \ Foretold(q)
    BY CommonClaim
  <2>3. Front(q) = Front(p)
    <3>1. Front(q) <= Front(p)
      BY <1>5, <2>2 DEF StepInv, Waiting
    <3>2. Front(p) <= Front(q)
      BY FrontType DEF StepInv, InPhase, Phase
    <3>3. QED
      BY <1>1, <3>1, <3>2
  <2>4. News(q)' = News(q) \cup {m0}
    BY <1>1, <1>3, <2>1 DEF News
  <2>5. Open(q)' = Open(q)
    BY <1>1 DEF Settle, Open
  <2>6. \A y : On(q, y)' = On(q, y)
    BY <2>5 DEF On
  <2>7. \A c \in S : c \in Open(q) /\ c \notin Foretold(q)
    BY <2>2, <2>3 DEF On, Open
  <2>8. \A m \in News(q) : m.round.cell < x
    BY <1>5, <2>7 DEF RoundInv, NewsSorted
  <2>9. On(q, x) = S
    <3>1. \A c \in On(q, x) : c \notin Foretold(q)
      BY <1>2, <2>8 DEF Foretold, On, News
    <3>2. \A c \in On(q, x) : c \in S
      BY <2>2, <2>3, <3>1 DEF On, Open
    <3>3. \A c \in S : c \in On(q, x)
      BY <2>7 DEF On
    <3>4. QED
      BY <3>2, <3>3
  <2>10. Foretold(q)' = Foretold(q) \cup S
    <3>1. \A c : c \in Foretold(q)' <=> c \in Foretold(q) \/ (c \in Open(q) /\ c.cell = x)
      BY <1>3, <2>4, <2>5 DEF Foretold
    <3>2. QED
      BY <2>9, <3>1 DEF On
  <2>11. QED
    BY <2>1, <2>2, <2>3, <2>4, <2>5, <2>6, <2>8, <2>9, <2>10
<1> HIDE DEF S
<1>9. Numbered'
  <2> SUFFICES ASSUME NEW a \in Peer, NEW b \in Peer, a # b
               PROVE  /\ \A m \in Mail(a, "round")' : m.round.id >= 1 /\ m.round.id <= roundId'[b]
                      /\ \A n \in Nat : roundId'[a] < n /\ n <= roundId'[b]
                                          => \E m \in News(a)' : m.round.id = n
    BY DEF Numbered
  <2>1. /\ \A m \in Mail(a, "round") : m.round.id >= 1 /\ m.round.id <= roundId[b]
        /\ \A n \in Nat : roundId[a] < n /\ n <= roundId[b] => \E m \in News(a) : m.round.id = n
    BY DEF RoundInv, Numbered
  <2>2. CASE a = p
    <3>1. \A m \in Mail(a, "round")' : m.round.id >= 1 /\ m.round.id <= roundId'[b]
      BY <1>1, <2>1, <2>2 DEF Settle
    <3>2. ~(roundId'[a] < roundId'[b]) /\ roundId'[a] \in Nat /\ roundId'[b] \in Nat
      BY <1>1, <1>8, <2>2
    <3>3. QED
      BY <3>1, <3>2
  <2>3. CASE a # p
    <3>1. b = p
      BY <2>3 DEF InLockstep
    <3>2. \A m \in Mail(a, "round")' : m.round.id >= 1 /\ m.round.id <= roundId'[b]
      BY <1>1, <1>2, <1>3, <2>1, <2>3, <3>1
    <3>3. ASSUME NEW n \in Nat, roundId'[a] < n, n <= roundId'[b]
          PROVE  \E m \in News(a)' : m.round.id = n
      <4>1. CASE n = roundId[p] + 1
        BY <1>3, <1>8, <2>3, <4>1
      <4>2. CASE n <= roundId[p]
        BY <1>1, <1>8, <2>1, <2>3, <3>1, <3>3, <4>2
      <4>3. QED
        BY <1>1, <3>1, <3>3, <4>1, <4>2
    <3>4. QED
      BY <3>2, <3>3
  <2>4. QED
    BY <2>2, <2>3
<1>10. LastTwo'
  <2>1. /\ processed'[p] = processed[p] \cup {roundId[p] + 1}
        /\ \A q \in Peer \ {p} : processed'[q] = processed[q]
    BY DEF Settle, TypeInv, TypeOK
  <2>2. QED
    BY <1>1, <2>1 DEF RoundInv, LastTwo
<1>11. NewsDecides'
  <2>1. ASSUME NEW q \in Peer \ {p}, NEW m \in News(q)'
        PROVE  /\ m.sent = Front(q)' + 1
               /\ On(q, m.round.cell)' # {}
               /\ Settles(m.round.award, On(q, m.round.cell)')
    <3>1. CASE m \in News(q)
      BY <1>1, <1>8, <3>1 DEF RoundInv, NewsDecides
    <3>2. CASE m = m0
      BY <1>1, <1>3, <1>4, <1>8, <3>2 DEF Settle, S
    <3>3. QED
      BY <1>8, <2>1, <3>1, <3>2
  <2>2. QED
    BY <1>6, <2>1 DEF NewsDecides, Settles
<1>12. NewsSorted'
  <2>1. ASSUME NEW q \in Peer \ {p}, NEW m \in News(q)'
        PROVE  /\ \A n \in News(q)' : m.round.id < n.round.id <=> m.round.cell < n.round.cell
               /\ \A c \in Open(q)' \ Foretold(q)' : m.round.cell < c.cell
    <3>1. \A n \in News(q) : /\ n.round.id \in Nat /\ n.round.cell \in Nat
                             /\ n.round.id < m0.round.id
                             /\ n.round.cell < m0.round.cell
      <4>1. \A n \in News(q) : n.round.id <= roundId[p] /\ n \in Mail(q, "round")
        BY DEF News, RoundInv, Numbered
      <4>2. QED
        BY <1>1, <1>2, <1>3, <1>8, <4>1
    <3>2. m0.round.id \in Nat /\ m0.round.cell \in Nat
      BY <1>1, <1>3
    <3>3. ASSUME NEW n \in News(q)'
          PROVE  m.round.id < n.round.id <=> m.round.cell < n.round.cell
      <4>1. CASE m \in News(q) /\ n \in News(q)
        BY <4>1 DEF RoundInv, NewsSorted
      <4>2. CASE m = m0 \/ n = m0
        BY <1>8, <2>1, <3>1, <3>2, <3>3, <4>2
      <4>3. QED
        BY <1>8, <2>1, <3>3, <4>1, <4>2
    <3>4. ASSUME NEW c \in Open(q)' \ Foretold(q)'
          PROVE  m.round.cell < c.cell
      <4>1. c \in Open(q) /\ c \notin Foretold(q) /\ c \notin S
        BY <1>8, <3>4
      <4>2. CASE m \in News(q)
        BY <4>1, <4>2 DEF RoundInv, NewsSorted
      <4>3. CASE m = m0
        <5>1. c \in Open(p)
          BY <1>8, <4>1 DEF Open
        <5>2. c.cell # x /\ c.cell \in Nat
          BY <4>1, <5>1, KnownType DEF S, On, Open
        <5>3. QED
          BY <1>3, <4>3, <5>1, <5>2
      <4>4. QED
        BY <1>8, <2>1, <4>2, <4>3
    <3>5. QED
      BY <3>3, <3>4
  <2>2. QED
    BY <1>6, <2>1 DEF NewsSorted
<1>13. NewsFirst'
  <2>1. ASSUME NEW q \in Peer \ {p}, NEW c \in pending'[q], c.ts > Front(q)
        PROVE  FALSE
    <3>1. c \in pending[q] /\ c \in Known(q) /\ c.ts \in Nat /\ c.drone \in Peer
      BY <2>1, KnownType DEF Settle
    <3>2. c.drone # q => c.drone = p
      BY <3>1 DEF InLockstep
    <3>3. /\ c.ts <= now[c.drone]
          /\ phase[c.drone] # "idle" => c.ts < now[c.drone]
      BY <3>1 DEF StepInv, ClaimsOnce
    <3>4. now[p] = Front(p) + 1 /\ now[p] \in Nat /\ now[q] \in Nat
      BY FrontType DEF StepInv
    <3>5. c.drone = q
      BY <1>1, <1>8, <2>1, <3>1, <3>2, <3>3, <3>4
    <3>6. /\ phase[q] \in {"watch", "poll", "resolve"} => now[q] = Front(q) + 1
          /\ phase[q] \in {"act", "idle"} => now[q] = Front(q)
          /\ phase[q] \in Phase
      BY FrontType DEF StepInv
    <3>7. QED
      BY <1>1, <2>1, <3>1, <3>3, <3>4, <3>5, <3>6 DEF Phase
  <2>2. QED
    BY <1>1, <1>6, <2>1 DEF NewsFirst
<1>14. Agreed'
  <2>1. Known(p)' \ Foretold(p)' = Known(p) \ S
    BY <1>6 DEF Settle, S
  <2>2. ASSUME NEW q \in Peer \ {p}
        PROVE  Known(q)' \ Foretold(q)' = Known(p) \ S
    <3>1. Known(q)' = Known(q)
      BY DEF Settle
    <3>2. QED
      BY <1>8, <3>1
  <2>3. QED
    BY <2>1, <2>2 DEF Agreed
<1>15. LateRounds'
  <2>1. ASSUME NEW q \in Peer \ {p}, NEW m \in Mail(q, "round")', m.round.id <= roundId[q]
        PROVE  /\ roundId[q] <= m.round.id + 1
               /\ m.sent = Front(q) + 1 =>
                    /\ \E d \in Peer : \A c \in Open(q) : c.drone # d
                    /\ roundId[q] = m.round.id + 1 => Open(q) = {}
    <3>1. m # m0
      BY <1>1, <1>3, <1>8, <2>1
    <3>2. m \in Mail(q, "round")
      BY <1>3, <3>1
    <3>3. QED
      BY <2>1, <3>2 DEF RoundInv, LateRounds
  <2>2. QED
    BY <1>1, <1>8, <2>1, SettleLate DEF LateRounds
<1>16. QED
  BY <1>9, <1>10, <1>11, <1>12, <1>13, <1>14, <1>15 DEF RoundInv

\* Winners stay apart and known when a contest is settled, be it news of the
\* other's decision (m0) or a decision the other does not have yet.
LEMMA SettleOwners ==
  ASSUME InLockstep, LockInv, TypeInv', NEW p \in Peer, NEW x \in Nat, NEW award, NEW ms,
         Settle(p, x, award), Publishes(p, x, award, ms),
         \/ /\ News(p) = {}
            /\ phase[p] = "resolve"
            /\ ms # {}
         \/ \E m0 \in News(p) : m0.round.cell = x /\ m0.round.id = roundId[p] + 1,
         IsFiniteSet(On(p, x))
  PROVE  OwnerInv'
<1> USE DEF LockInv
<1> DEFINE S == On(p, x)
<1>1. /\ \A q \in Peer : roundId[q] \in Nat /\ Front(q) \in Nat
      /\ roundId'[p] = roundId[p] + 1
      /\ \A q \in Peer \ {p} : roundId'[q] = roundId[q]
  BY FrontType DEF Settle, TypeInv, TypeOK, StepInv
<1>2. \A q \in Peer : \A m \in Mail(q, "round") : m.round.id \in Nat /\ m.round.cell \in Nat
  BY MailType, RoundType
<1>3. /\ S # {} /\ \A c \in S : c \in Known(p) /\ c.ts = Front(p) /\ c.cell = x
      /\ Known(p)' = Known(p) \ S
      /\ Settles(award, S)
      /\ S \in SUBSET Claim
  <2>1. \A c \in S : c \in Known(p) /\ c.ts = Front(p) /\ c.cell = x
    BY DEF On, Open
  <2>2. QED
    BY <2>1, KnownType DEF Settle
<1>4. \A k \in Known(p) : /\ k.ts \in Nat /\ k.drone \in Peer /\ k.ts >= Front(p)
                          /\ k.drone = p => k.ts = Front(p)
  <2>1. \A k \in Known(p) : k.ts \in Nat /\ k.drone \in Peer /\ k.ts >= Front(p)
    BY KnownType DEF StepInv, Waiting
  <2>2. \A k \in Known(p) : k.drone = p => k.ts < now[p]
    BY DEF StepInv, ClaimsOnce, Settle
  <2>3. QED
    BY <1>1, <2>1, <2>2 DEF Settle
<1>5. \A c, d \in Known(p) : c.drone = d.drone /\ c.ts = d.ts => c = d
  BY DEF StepInv, ClaimsOnce
<1>6. \A k \in Known(p)' : k.drone = p => k.cell # x
  <2>1. ASSUME NEW k \in Known(p), k.drone = p, k.cell = x
        PROVE  k \in S
    BY <1>4, <2>1 DEF On, Open
  <2>2. QED
    BY <1>3, <2>1
<1>7. DOMAIN award = Claimants(S)
  BY <1>3 DEF Settles
<1>8. ASSUME NEW d \in Peer, d \in DOMAIN award
      PROVE  /\ award[d].kind \in Kind /\ award[d].cell \in Cell /\ award[d].cell # None
             /\ \E c \in S : c.drone = d
             /\ \A k \in Known(p)' : k.drone = d => k.ts # Front(p)
  <2>1. award[d] \in Seat
    BY <1>8 DEF Settle, Awards
  <2>2. PICK c \in S : c.drone = d
    BY <1>7, <1>8 DEF Claimants
  <2>3. \A k \in Known(p)' : k.drone = d => k.ts # Front(p)
    BY <1>3, <1>5, <2>2
  <2>4. QED
    BY <2>1, <2>2, <2>3, AuctionAssumption DEF Seat
<1>9. \A d \in Peer : (\A k \in Known(p) : k.drone # d) => d \notin DOMAIN award
  BY <1>3, <1>8
<1>10. /\ \A q \in Peer \ {p} : /\ Known(q)' = Known(q)
                                /\ view'[q] = view[q] /\ part'[q] = part[q]
       /\ \A q \in Peer : Mail(q, "state")' = Mail(q, "state")
       /\ \A q \in Peer :
            view'[p][q].cell = IF q \notin DOMAIN award THEN view[p][q].cell
                               ELSE IF award[q].kind = "idle" THEN None ELSE award[q].cell
       /\ part'[p] = IF p \notin DOMAIN award THEN part[p]
                     ELSE IF award[p].kind = "idle" THEN None ELSE award[p].kind
       /\ phase[p] # "idle" /\ now[p] = Front(p) + 1
  BY DEF Settle
<1>11. ASSUME NEW q \in Peer \ {p}
       PROVE  /\ \A m \in News(q) : m \in News(q)'
              /\ \A m \in News(q)' : m \in News(q) \/ m \in ms
              /\ Holds(q)' <=> Holds(q)
  <2>1. Mail(q, "round")' = Mail(q, "round") \cup ms
    BY DEF Publishes
  <2>2. QED
    BY <1>1, <1>10, <2>1 DEF News, Holds, Won
<1>12. \A m \in News(p)' : m \in News(p)
  BY <1>1, <1>2 DEF News, Settle
<1>13. \A m \in ms : /\ m.round.id = roundId[p] + 1 /\ m.round.cell = x
                     /\ m.round.award = award /\ m.sent = Front(p) + 1
  BY DEF Publishes

\* What p makes of a seat in x that the award gives.
<1>14. ASSUME NEW d \in Peer, d \in DOMAIN award, Won(award[d].kind)
       PROVE  /\ view'[p][d].cell = x
              /\ award[d] = [cell |-> x, kind |-> award[d].kind]
              /\ d = p => part'[p] = award[p].kind
  <2>1. award[d].cell = x /\ \E c \in S : award[d] = LeadSeat(c, S) /\ c.cell = x
    <3> HIDE DEF S
    <3>1. Leads(d, S, award)
      BY <1>3, <1>14, WinnersClaim
    <3>2. QED
      BY <1>3, <3>1 DEF Leads, LeadSeat
  <2>2. award[d].kind # "idle"
    BY <1>14 DEF Won
  <2>3. QED
    BY <1>10, <1>14, <2>1, <2>2 DEF LeadSeat
<1>15. Holds(p)' => \/ p \notin DOMAIN award /\ Holds(p) /\ part'[p] = part[p]
                       /\ view'[p][p].cell = view[p][p].cell
                    \/ p \in DOMAIN award /\ Won(award[p].kind) /\ part'[p] = award[p].kind
                       /\ view'[p][p].cell = x
  <2>1. CASE p \notin DOMAIN award
    BY <1>10, <2>1 DEF Holds, Won
  <2>2. CASE p \in DOMAIN award
    <3>1. Holds(p)' => Won(award[p].kind)
      BY <1>10, <2>2, AuctionAssumption DEF Holds, Won
    <3>2. QED
      BY <1>14, <2>2, <3>1
  <2>3. QED
    BY <2>1, <2>2

\* What p has been told of the other's seat before it settles x.
<1>16. ASSUME NEW q \in Peer \ {p}, Holds(q), NEW m \in News(p),
              q \in DOMAIN m.round.award,
              m.round.award[q] = [cell |-> view[q][q].cell, kind |-> part[q]]
       PROVE  /\ view[q][q].cell = m.round.cell
              /\ m.round.cell = x => /\ q \in DOMAIN award /\ award[q] = m.round.award[q]
                                     /\ \E c \in S \ Losers(S) : /\ c.drone = q
                                                                 /\ LeadSeat(c, S).kind = part[q]
              /\ m \in News(p)' \/ m.round.cell = x
  <2>1. Won(m.round.award[q].kind) /\ m.round.award[q].cell = view[q][q].cell
    BY <1>16 DEF Holds
  <2>2. Settles(m.round.award, On(p, m.round.cell))
    BY DEF RoundInv, NewsDecides
  <2>3. /\ Leads(q, On(p, m.round.cell), m.round.award)
        /\ \A other : Settles(other, On(p, m.round.cell))
                        => q \in DOMAIN other /\ other[q] = m.round.award[q]
    BY <1>16, <2>1, <2>2, WinnersClaim
  <2>4. PICK c \in On(p, m.round.cell) \ Losers(On(p, m.round.cell)) :
           c.drone = q /\ m.round.award[q] = LeadSeat(c, On(p, m.round.cell))
    BY <2>3 DEF Leads
  <2>5. view[q][q].cell = m.round.cell
    BY <2>1, <2>4 DEF LeadSeat, On
  <2>6. m.round.cell = x => /\ q \in DOMAIN award /\ award[q] = m.round.award[q]
                            /\ \E d \in S \ Losers(S) : /\ d.drone = q
                                                        /\ LeadSeat(d, S).kind = part[q]
    <3>1. LeadSeat(c, On(p, m.round.cell)).kind = part[q]
      BY <1>16, <2>4
    <3>2. QED
      BY <1>3, <2>3, <2>4, <3>1
  <2>7. m \in News(p)' \/ m.round.cell = x
    <3>1. PICK m0 \in News(p) : m0.round.cell = x /\ m0.round.id = roundId[p] + 1
      OBVIOUS
    <3>2. /\ m.round.id \in Nat /\ m.round.cell \in Nat /\ m.round.id > roundId[p]
          /\ m \in Mail(p, "round")
      BY <1>2 DEF News
    <3>3. CASE m.round.id > roundId[p] + 1
      BY <1>1, <3>2, <3>3 DEF Settle, News
    <3>4. CASE m.round.id = roundId[p] + 1
      <4>1. /\ m0.round.id < m.round.id <=> m0.round.cell < m.round.cell
            /\ m.round.id < m0.round.id <=> m.round.cell < m0.round.cell
        BY DEF RoundInv, NewsSorted
      <4>2. QED
        BY <1>1, <3>1, <3>2, <3>4, <4>1
    <3>5. QED
      BY <1>1, <3>2, <3>3, <3>4
  <2>8. QED
    BY <2>5, <2>6, <2>7
<1> HIDE DEF S
<1>17. Seated'
  <2>1. ASSUME view'[p][p].cell # None
        PROVE  Won(part'[p]) \/ part'[p] = "fallback"
    <3>1. CASE p \notin DOMAIN award
      BY <1>10, <2>1, <3>1 DEF OwnerInv, Seated
    <3>2. CASE p \in DOMAIN award
      BY <1>8, <1>10, <2>1, <3>2 DEF Kind, Won
    <3>3. QED
      BY <3>1, <3>2
  <2>2. QED
    BY <1>10, <2>1 DEF OwnerInv, Seated, Won
<1>18. HoldersQuiet'
  <2>1. ASSUME Holds(p)', NEW c \in Known(p)'
        PROVE  c.drone # p
    <3>1. CASE p \in DOMAIN award
      BY <1>3, <1>4, <1>8, <2>1, <3>1
    <3>2. CASE p \notin DOMAIN award
      BY <1>3, <1>15, <2>1, <3>2 DEF OwnerInv, HoldersQuiet
    <3>3. QED
      BY <3>1, <3>2
  <2>2. QED
    BY <1>10, <1>11, <2>1 DEF OwnerInv, HoldersQuiet

\* The other learns what p won: by the new round, or it seated p itself.
<1>19. ASSUME NEW q \in Peer \ {p}, Holds(p)'
       PROVE  Told(p, q)' \/ Knows(p, q)'
  <2>1. CASE p \notin DOMAIN award
    <3>1. /\ Holds(p) /\ part'[p] = part[p] /\ view'[p][p].cell = view[p][p].cell
      BY <1>15, <1>19, <2>1
    <3>2. CASE Told(p, q)
      BY <1>10, <1>11, <3>1, <3>2 DEF Told
    <3>3. CASE Knows(p, q)
      BY <1>1, <1>10, <3>1, <3>3 DEF Knows, Respects
    <3>4. QED
      BY <3>1, <3>2, <3>3 DEF OwnerInv, WinnersKnown
  <2>2. CASE p \in DOMAIN award
    <3>1. /\ Won(award[p].kind) /\ part'[p] = award[p].kind /\ view'[p][p].cell = x
          /\ award[p] = [cell |-> x, kind |-> award[p].kind]
      BY <1>14, <1>15, <1>19, <2>2
    <3>2. CASE News(p) = {} /\ ms # {}
      <4>1. PICK m \in ms : TRUE
        BY <3>2
      <4>2. m \in Mail(q, "round")' /\ m.type = "round" /\ m.round.id > roundId[q]
        <5>1. m \in Mail(q, "round")'
          BY DEF Publishes
        <5>2. roundId[q] <= roundId[p]
          <6>1. ASSUME roundId[p] < roundId[q]
                PROVE  FALSE
            BY <1>1, <3>2, <6>1 DEF RoundInv, Numbered
          <6>2. QED
            BY <1>1, <6>1
        <5>3. QED
          BY <1>1, <1>13, <5>1, <5>2 DEF Mail
      <4>3. m \in News(q)'
        BY <1>1, <4>2 DEF News
      <4>4. \A n \in Mail(q, "state")' : ~(n.sent >= m.sent)
        <5>1. \A n \in Mail(q, "state") : n \in net[q] /\ n.type = "state" /\ n.sent \in Nat
                                          /\ n.from \in Peer
          BY MailType
        <5>2. \A n \in Mail(q, "state") : n.from = p
          BY <5>1 DEF InLockstep, StepInv, OnTime
        <5>3. \A n \in Mail(q, "state") : n.sent < now[p]
          BY <1>10, <5>1, <5>2 DEF StepInv, OnTime, Unsent
        <5>4. QED
          BY <1>1, <1>10, <1>13, <5>1, <5>3
      <4>5. QED
        BY <1>13, <2>2, <3>1, <4>3, <4>4 DEF Told
    <3>3. CASE \E m0 \in News(p) : m0.round.cell = x /\ m0.round.id = roundId[p] + 1
      <4>1. PICK m0 \in News(p) : m0.round.cell = x /\ m0.round.id = roundId[p] + 1
        BY <3>3
      <4>2. Settles(m0.round.award, S)
        BY <4>1 DEF RoundInv, NewsDecides, S
      <4>3. /\ p \in DOMAIN m0.round.award /\ m0.round.award[p] = award[p]
            /\ award[p].cell = x
        <5>1. p \in DOMAIN m0.round.award /\ m0.round.award[p] = award[p]
          BY <1>3, <2>2, <3>1, <4>2, WinnersClaim
        <5>2. QED
          BY <3>1, <5>1
      <4>4. Respects(q, p, x)
        BY <3>1, <4>1, <4>3 DEF OwnerInv, WinnersAwaited
      <4>5. /\ News(q) = {} /\ Mail(q, "state") = {}
            /\ Known(q) = Known(p) \ Foretold(p)
        BY <4>1, Behind, CommonClaim
      <4>6. \A k \in Known(q) : k.drone # p
        <5> SUFFICES ASSUME NEW k \in Known(q), k.drone = p
                     PROVE  FALSE
          OBVIOUS
        <5>1. k \in Known(p) /\ k \notin Foretold(p) /\ k.ts = Front(p)
          BY <1>4, <4>5
        <5>2. PICK c \in S : c.drone = p
          BY <1>8, <2>2
        <5>3. c = k
          BY <1>3, <1>5, <5>1, <5>2
        <5>4. c \in Foretold(p)
          BY <4>1, <5>2 DEF Foretold, S, On
        <5>5. QED
          BY <5>1, <5>3, <5>4
      <4>7. QED
        BY <1>1, <1>10, <3>1, <4>4, <4>5, <4>6 DEF Knows, Respects
    <3>4. QED
      BY <3>2, <3>3
  <2>3. QED
    BY <2>1, <2>2

\* p learns what the other won, or still has it ahead.
<1>20. ASSUME NEW q \in Peer \ {p}, Holds(q)
       PROVE  Told(q, p)' \/ Knows(q, p)'
  <2>1. CASE Knows(q, p)
    <3>1. q \notin DOMAIN award
      BY <1>9, <2>1 DEF Knows
    <3>2. view'[p][q].cell = view[p][q].cell /\ view'[q] = view[q]
      BY <1>10, <3>1
    <3>3. QED
      BY <1>1, <1>3, <1>10, <2>1, <3>2 DEF Knows, Respects
  <2>2. CASE Told(q, p)
    <3>1. PICK m \in News(p) :
            /\ q \in DOMAIN m.round.award
            /\ m.round.award[q] = [cell |-> view[q][q].cell, kind |-> part[q]]
            /\ \A n \in Mail(p, "state") : n.sent >= m.sent => n.view.cell = view[q][q].cell
      BY <2>2 DEF Told
    <3>2. CASE m \in News(p)'
      BY <1>10, <3>1, <3>2 DEF Told
    <3>3. CASE m.round.cell = x
      <4>1. /\ view[q][q].cell = x /\ q \in DOMAIN award /\ award[q] = m.round.award[q]
        BY <1>16, <1>20, <3>1, <3>3
      <4>2. Won(award[q].kind)
        BY <1>20, <3>1, <4>1 DEF Holds
      <4>3. view'[p][q].cell = x
        BY <1>14, <4>1, <4>2
      <4>4. \A k \in Known(p)' : k.drone # q
        <5> SUFFICES ASSUME NEW k \in Known(p)', k.drone = q
                     PROVE  FALSE
          OBVIOUS
        <5>1. k \in Known(p) /\ k.ts # Front(p)
          BY <1>3, <1>8, <4>1
        <5>2. Known(q) = Known(p) \ Foretold(p)
          BY Behind, CommonClaim
        <5>3. k \in Known(q)
          BY <5>1, <5>2 DEF Foretold, Open
        <5>4. QED
          BY <1>20, <5>3 DEF OwnerInv, HoldersQuiet
      <4>5. \A n \in Mail(p, "state")' : n.view.cell = x
        <5>1. m.sent = Front(p) + 1
          BY DEF RoundInv, NewsDecides
        <5>2. QED
          BY <1>10, <3>1, <4>1, <5>1 DEF Settle
      <4>6. roundId'[p] >= 1
        BY <1>1
      <4>7. view'[q][q].cell = x
        BY <1>10, <4>1
      <4>8. QED
        BY <1>6, <4>3, <4>4, <4>5, <4>6, <4>7 DEF Knows, Respects
    <3>4. QED
      BY <1>16, <1>20, <3>1, <3>2, <3>3
  <2>3. QED
    BY <1>20, <2>1, <2>2 DEF OwnerInv, WinnersKnown
<1>21. WinnersKnown'
  <2> SUFFICES ASSUME NEW a \in Peer, NEW b \in Peer, a # b, Holds(a)'
               PROVE  Told(a, b)' \/ Knows(a, b)'
    BY DEF WinnersKnown
  <2>1. a = p \/ b = p
    BY DEF InLockstep
  <2>2. CASE a = p
    BY <1>19, <2>2
  <2>3. CASE a # p /\ b = p
    BY <1>11, <1>20, <2>3
  <2>4. QED
    BY <2>1, <2>2, <2>3
<1>22. WinnersAwaited'
  <2> SUFFICES ASSUME NEW a \in Peer, NEW b \in Peer, a # b, NEW m \in News(a)',
                      a \in DOMAIN m.round.award, Won(m.round.award[a].kind)
               PROVE  Respects(b, a, m.round.award[a].cell)'
    BY DEF WinnersAwaited, Won
  <2>1. a = p \/ b = p
    BY DEF InLockstep
  <2>2. CASE a = p
    <3>1. Respects(b, a, m.round.award[a].cell)
      BY <1>12, <2>2 DEF OwnerInv, WinnersAwaited
    <3>2. QED
      BY <1>1, <1>10, <2>2, <3>1 DEF Respects
  <2>3. CASE a # p /\ b = p /\ m \in News(a)
    <3>1. Respects(p, a, m.round.award[a].cell)
      BY <2>3 DEF OwnerInv, WinnersAwaited
    <3>2. a \notin DOMAIN award
      <4> SUFFICES ASSUME a \in DOMAIN award
                   PROVE  FALSE
        OBVIOUS
      <4>1. PICK s \in S : s.drone = a
        BY <1>8
      <4>2. /\ s \in Known(p) /\ s.ts = Front(p) /\ News(p) = {}
            /\ Front(a) <= Front(p) /\ phase[a] # "act"
        BY <1>3, <2>3, Behind
      <4>3. Known(p) = Known(a) \ Foretold(a)
        BY <4>2, CommonClaim
      <4>4. /\ s.ts <= now[a]
            /\ phase[a] # "idle" => s.ts < now[a]
        BY <4>1, <4>2, <4>3 DEF StepInv, ClaimsOnce
      <4>5. Front(a) = Front(p)
        <5>1. /\ phase[a] \in {"watch", "poll", "resolve"} => now[a] = Front(a) + 1
              /\ phase[a] \in {"act", "idle"} => now[a] = Front(a)
              /\ phase[a] \in Phase
          BY FrontType DEF StepInv
        <5>2. QED
          BY <1>1, <4>2, <4>4, <5>1 DEF Phase
      <4>6. PICK c \in On(a, m.round.cell) : c.drone = a
        BY <2>3 DEF RoundInv, NewsDecides, Settles, Claimants
      <4>7. c \in Foretold(a) /\ c \in Known(a) /\ c.ts = Front(a)
        BY <2>3, <4>6 DEF On, Foretold, Open
      <4>8. c = s
        BY <4>1, <4>2, <4>3, <4>5, <4>6, <4>7 DEF StepInv, ClaimsOnce
      <4>9. QED
        BY <4>2, <4>3, <4>7, <4>8
    <3>3. view'[p][a].cell = view[p][a].cell
      BY <1>10, <3>2
    <3>4. QED
      BY <1>1, <1>3, <2>3, <3>1, <3>3 DEF Respects
  <2>4. CASE a # p /\ b = p /\ m \in ms
    <3>1. a \in DOMAIN award /\ Won(award[a].kind) /\ m.round.award = award
      BY <1>13, <2>4
    <3>2. view'[p][a].cell = x /\ award[a].cell = x
      BY <1>14, <3>1
    <3>3. roundId'[p] >= 1
      BY <1>1
    <3>4. QED
      BY <1>6, <2>4, <3>1, <3>2, <3>3 DEF Respects
  <2>5. QED
    BY <1>11, <2>1, <2>2, <2>3, <2>4

\* Two winners of one cell are seated by one contest.
<1>23. ASSUME NEW q \in Peer \ {p}, Holds(p)', Holds(q), view'[p][p].cell = view[q][q].cell
       PROVE  {part'[p], part[q]} = {"left", "right"}
  <2>1. CASE p \notin DOMAIN award
    BY <1>15, <1>23, <2>1 DEF OwnerInv, HoldersApart
  <2>2. CASE p \in DOMAIN award
    <3>1. /\ Won(award[p].kind) /\ part'[p] = award[p].kind /\ view'[p][p].cell = x
      BY <1>15, <1>23, <2>2
    <3>2. \A c \in S : c.cell = x
      BY <1>3
    <3>3. PICK c \in S \ Losers(S) : c.drone = p /\ award[p] = LeadSeat(c, S)
      <4>1. Leads(p, S, award)
        BY <1>3, <2>2, <3>1, WinnersClaim
      <4>2. QED
        BY <4>1 DEF Leads
    <3>4. ~Knows(q, p)
      BY <1>3, <1>23, <3>1, <3>3 DEF Knows, Respects
    <3>5. PICK m \in News(p) :
            /\ q \in DOMAIN m.round.award
            /\ m.round.award[q] = [cell |-> view[q][q].cell, kind |-> part[q]]
      BY <1>23, <3>4 DEF OwnerInv, WinnersKnown, Told
    <3>6. m.round.cell = x
      BY <1>16, <1>23, <3>1, <3>5
    <3>7. PICK d \in S \ Losers(S) : d.drone = q /\ LeadSeat(d, S).kind = part[q]
      BY <1>16, <1>23, <3>5, <3>6
    <3>8. {LeadSeat(c, S).kind, LeadSeat(d, S).kind} = {"left", "right"}
      BY <1>3, <3>2, <3>3, <3>7, LeadsApart DEF S
    <3>9. QED
      BY <3>1, <3>3, <3>7, <3>8
  <2>3. QED
    BY <2>1, <2>2
<1>24. HoldersApart'
  <2> SUFFICES ASSUME NEW a \in Peer, NEW b \in Peer, a # b, Holds(a)', Holds(b)',
                      view'[a][a].cell = view'[b][b].cell
               PROVE  {part'[a], part'[b]} = {"left", "right"}
    BY DEF HoldersApart
  <2>1. CASE a = p
    BY <1>10, <1>11, <1>23, <2>1
  <2>2. CASE b = p
    <3>1. {part'[b], part'[a]} = {"left", "right"}
      BY <1>10, <1>11, <1>23, <2>2
    <3>2. QED
      BY <3>1
  <2>3. QED
    BY <2>1, <2>2 DEF InLockstep
<1>25. QED
  BY <1>17, <1>18, <1>21, <1>22, <1>24 DEF OwnerInv
-----------------------------------------------------------------------------
\* apply_round of the next number: what it does to the peer that applies it.
LEMMA ApplyNext ==
  ASSUME TypeInv, RoundsBelow, AllUp, NEW p \in Peer, NEW r \in Round, NEW counter \in Nat,
         r.released = None, r.id = roundId[p] + 1, counter <= r.id,
         ApplyRound(p, r, counter), view' = [view EXCEPT ![p] = ViewAfter(p, r)]
  PROVE  /\ roundId' = [roundId EXCEPT ![p] = @ + 1]
         /\ processed' = [processed EXCEPT ![p] = @ \cup {roundId[p] + 1}]
         /\ pending'[p] = {c \in pending[p] : c.cell # r.cell}
         /\ \A q \in Peer \ {p} : /\ pending'[q] = pending[q]
                                  /\ view'[q] = view[q] /\ part'[q] = part[q]
         /\ \A q \in Peer :
              /\ Active(view'[p][q])
              /\ view'[p][q].cell = IF q \notin DOMAIN r.award THEN view[p][q].cell
                                    ELSE IF r.award[q].kind = "idle" THEN None
                                         ELSE r.award[q].cell
         /\ part'[p] = IF p \notin DOMAIN r.award THEN part[p]
                       ELSE IF r.award[p].kind = "idle" THEN None ELSE r.award[p].kind
<1>1. /\ roundId \in [Peer -> Nat] /\ processed \in [Peer -> SUBSET Nat]
      /\ pending \in [Peer -> SUBSET Claim] /\ part \in [Peer -> Kind \cup {None}]
      /\ view \in [Peer -> [Peer -> DroneView]]
  BY DEF TypeInv, TypeOK
<1>2. r.id \notin processed[p]
  BY <1>1 DEF RoundsBelow
<1>3. /\ roundId' = [roundId EXCEPT ![p] = Larger(counter, r.id)]
      /\ processed' = [processed EXCEPT ![p] = @ \cup {r.id}]
      /\ part' = [part EXCEPT ![p] = AppliedPart(p, r)]
      /\ pending' = [pending EXCEPT ![p] = {c \in @ : c.cell # r.cell}]
  BY <1>2 DEF ApplyRound
<1>4. Larger(counter, r.id) = r.id
  BY <1>1 DEF Larger
<1>5. p # None /\ \A q \in Peer : q # None
  BY AuctionAssumption DEF Peer
<1>6. part'[p] = IF p \notin DOMAIN r.award THEN part[p]
                 ELSE IF r.award[p].kind = "idle" THEN None ELSE r.award[p].kind
  BY <1>1, <1>3, <1>5 DEF AppliedPart
<1>7. view'[p] = AppliedView(p, r)
  BY <1>1, <1>2 DEF ViewAfter
<1>8. ASSUME NEW q \in Peer
      PROVE  /\ Active(view'[p][q])
             /\ view'[p][q].cell = IF q \notin DOMAIN r.award THEN view[p][q].cell
                                   ELSE IF r.award[q].kind = "idle" THEN None
                                        ELSE r.award[q].cell
  <2> DEFINE base == IF q = r.released THEN Gone ELSE view[p][q]
             cell == IF r.award[q].kind = "idle" THEN None ELSE r.award[q].cell
  <2>1. view'[p][q] = IF q \notin DOMAIN r.award THEN base ELSE [base EXCEPT !.cell = cell]
    BY <1>7 DEF AppliedView
  <2>2. base = view[p][q] /\ base \in DroneView /\ Active(base)
    BY <1>1, <1>5 DEF AllUp
  <2>3. cell = IF r.award[q].kind = "idle" THEN None ELSE r.award[q].cell
    OBVIOUS
  <2> HIDE DEF base, cell
  <2>4. CASE q \notin DOMAIN r.award
    BY <2>1, <2>2, <2>4
  <2>5. CASE q \in DOMAIN r.award
    <3>1. /\ [base EXCEPT !.cell = cell].cell = cell
          /\ Active([base EXCEPT !.cell = cell])
      BY <2>2 DEF DroneView, Active
    <3>2. QED
      BY <2>1, <2>3, <2>5, <3>1
  <2>6. QED
    BY <2>4, <2>5
<1>9. QED
  BY <1>1, <1>3, <1>4, <1>6, <1>8

LEMMA HandleNewsLock ==
  ASSUME InLockstep, LockInv, TypeInv', NEW p \in Peer, NEW m, HandleRound(p, m),
         m \in News(p)
  PROVE  StepInv' /\ RoundInv' /\ OwnerInv'
<1> USE DEF LockInv
<1> DEFINE x == m.round.cell
<1>1. /\ m.type = "round" /\ Take(p, m)
      /\ ApplyRound(p, m.round, roundId[p])
      /\ view' = [view EXCEPT ![p] = ViewAfter(p, m.round)]
  BY DEF HandleRound
<1>2. /\ m.from \in Peer \ {p} /\ health' = health /\ m \in net[p] /\ m.sent \in Nat
      /\ now' = now /\ resolved' = resolved
      /\ phase[p] \in {"watch", "poll"} /\ phase'[p] = "poll"
      /\ \A q \in Peer \ {p} : phase'[q] = phase[q] /\ net'[q] = net[q]
      /\ net'[p] = net[p] \ {m}
      /\ \A q \in Peer : Front(q)' = Front(q)
      /\ \A n \in net[p] : ~Earlier(n, m)
      /\ now[p] = Front(p) + 1
      /\ InPhase' /\ OnTime'
  BY <1>1, TakeLock
<1>3. /\ m \in Mail(p, "round") /\ m.round \in Round /\ m.round.id \in Nat
      /\ m.round.id > roundId[p] /\ x \in Nat /\ m.round.award \in Awards
  <2>1. m \in Mail(p, "round") /\ m.round \in Round
    BY <1>1, <1>2, MailType DEF Mail
  <2>2. QED
    BY <2>1, RoundType DEF News, Round
<1>4. Front(p) \in Nat /\ roundId[p] \in Nat /\ \A q \in Peer : roundId[q] \in Nat
  BY FrontType DEF StepInv
<1>5. m.sent = Front(p) + 1
  BY DEF RoundInv, NewsDecides

\* Messages are taken in order: this is the first of the news.
<1>6. \A n \in net[p] : /\ n.sent \in Nat /\ n.sent >= Front(p) + 1
                        /\ n.type = "round" => n.round.id >= m.round.id
  <2> TAKE n \in net[p]
  <2>1. n.sent \in Nat /\ ~(n.sent < m.sent)
    BY <1>2, MailType DEF Earlier
  <2>2. n.sent >= Front(p) + 1
    BY <1>4, <1>5, <2>1
  <2>3. ASSUME n.type = "round"
        PROVE  n.round.id >= m.round.id
    <3>1. n \in Mail(p, "round") /\ n.round.id \in Nat
      BY <2>3, MailType, RoundType DEF Mail
    <3>2. CASE n.round.id <= roundId[p]
      <4>1. Front(p) + 1 = m.sent /\ roundId[p] < m.round.id
        BY <1>3, <1>5
      <4>2. n.from \in Peer /\ n.sent <= now[n.from] /\ now[n.from] \in Nat
        BY MailType, FrontType DEF StepInv, OnTime
      <4>3. m.from = n.from
        BY <1>2, <4>2 DEF InLockstep, StepInv, OnTime
      <4>4. m.sent <= now[m.from] /\ (phase[m.from] \in {"watch", "poll"} => m.sent < now[m.from])
        BY <1>1, <1>2 DEF StepInv, OnTime, Unsent
      <4>5. now[m.from] <= now[p]
        <5>1. now[p] \in Nat /\ now[m.from] \in Nat
          BY <1>2, FrontType DEF StepInv
        <5>2. QED
          BY <1>2, <5>1 DEF StepInv, InPhase
      <4>6. n.sent = m.sent
        BY <1>2, <1>4, <2>1, <4>1, <4>2, <4>3, <4>4, <4>5
      <4>7. QED
        BY <1>1, <1>2, <1>3, <1>4, <2>3, <3>1, <3>2, <4>6 DEF Earlier
    <3>3. CASE n.round.id > roundId[p]
      <4>1. n \in News(p) /\ n.sent = m.sent
        BY <1>5, <3>1, <3>3 DEF News, RoundInv, NewsDecides
      <4>2. QED
        BY <1>1, <1>2, <1>3, <2>3, <3>1, <4>1 DEF Earlier
    <3>4. QED
      BY <1>4, <3>1, <3>2, <3>3
  <2>4. QED
    BY <2>1, <2>2, <2>3
<1>7. m.round.id = roundId[p] + 1
  <2>1. roundId[p] + 1 <= roundId[m.from]
    BY <1>2, <1>4, Behind
  <2>2. PICK n \in News(p) : n.round.id = roundId[p] + 1
    BY <1>2, <1>4, <2>1 DEF RoundInv, Numbered
  <2>3. n.round.id >= m.round.id
    BY <1>6 DEF News, Mail
  <2>4. QED
    BY <1>3, <1>4, <2>2, <2>3
<1>8. m.round.released = None
  BY <1>1, <1>2 DEF StepInv, AllUp
<1>9. /\ roundId' = [roundId EXCEPT ![p] = @ + 1]
      /\ processed' = [processed EXCEPT ![p] = @ \cup {roundId[p] + 1}]
      /\ pending'[p] = {c \in pending[p] : c.cell # x}
      /\ \A q \in Peer \ {p} : /\ pending'[q] = pending[q]
                               /\ view'[q] = view[q] /\ part'[q] = part[q]
      /\ \A q \in Peer :
           /\ Active(view'[p][q])
           /\ view'[p][q].cell = IF q \notin DOMAIN m.round.award THEN view[p][q].cell
                                 ELSE IF m.round.award[q].kind = "idle" THEN None
                                      ELSE m.round.award[q].cell
      /\ part'[p] = IF p \notin DOMAIN m.round.award THEN part[p]
                    ELSE IF m.round.award[p].kind = "idle" THEN None ELSE m.round.award[p].kind
  <2>1. roundId[p] <= m.round.id
    BY <1>4, <1>7
  <2>2. QED
    BY <1>1, <1>3, <1>4, <1>7, <1>8, <2>1, ApplyNext DEF StepInv
<1> HIDE DEF x

\* The claims of the contest are all in hand, and those on its cell are of it.
<1>10. On(p, x) \in SUBSET pending[p] /\ \A c \in pending[p] : c.cell = x => c \in On(p, x)
  <2>1. \A c \in Known(p) : c.ts \in Nat /\ c.ts >= Front(p)
    BY KnownType DEF StepInv, Waiting
  <2>2. ASSUME NEW c \in On(p, x)
        PROVE  c \in pending[p]
    <3>1. c \in Known(p) /\ c.ts = Front(p)
      BY DEF On, Open
    <3>2. ASSUME NEW n \in net[p], n.type = "claim", n.claim = c
          PROVE  FALSE
      <4>1. n.sent = c.ts
        BY <3>2 DEF StepInv, OnTime
      <4>2. QED
        BY <1>4, <1>6, <3>1, <4>1
    <3>3. QED
      BY <3>1, <3>2, KnownOf
  <2>3. ASSUME NEW c \in pending[p], c.cell = x
        PROVE  c \in On(p, x)
    <3>1. c \in Known(p) /\ c.ts \in Nat /\ c.ts >= Front(p)
      BY <2>1, KnownType
    <3>2. ~(c.ts > Front(p))
      BY DEF RoundInv, NewsFirst
    <3>3. QED
      BY <1>4, <2>3, <3>1, <3>2 DEF On, Open
  <2>4. QED
    BY <2>2, <2>3
<1>11. /\ Known(p)' = Known(p) \ On(p, x)
       /\ \A q \in Peer \ {p} : Known(q)' = Known(q)
  <2>1. \A q \in Peer \ {p} : Known(q)' = Known(q)
    BY <1>2, <1>9 DEF Known, Mail
  <2>2. Mail(p, "claim")' = Mail(p, "claim")
    BY <1>1, <1>2 DEF Mail
  <2>3. \A n \in Mail(p, "claim") : n.claim \notin On(p, x)
    <3>1. ASSUME NEW n \in Mail(p, "claim")
          PROVE  n.claim.ts # Front(p)
      <4>1. n \in net[p] /\ n.claim.ts = n.sent
        BY DEF Mail, StepInv, OnTime
      <4>2. QED
        BY <1>4, <1>6, <4>1
    <3>2. QED
      BY <3>1 DEF On, Open
  <2>4. pending'[p] = pending[p] \ On(p, x)
    <3>1. \A c \in On(p, x) : c.cell = x
      BY DEF On
    <3>2. QED
      BY <1>9, <1>10, <3>1
  <2>5. Known(p)' = Known(p) \ On(p, x)
    BY <2>2, <2>3, <2>4 DEF Known
  <2>6. QED
    BY <2>1, <2>5
<1>12. Settle(p, x, m.round.award)
  <2>1. On(p, x) # {} /\ Settles(m.round.award, On(p, x))
    BY DEF RoundInv, NewsDecides, x
  <2>2. \A q \in Peer : Mail(q, "state")' = Mail(q, "state") /\ pending'[q] \in SUBSET pending[q]
    BY <1>1, <1>2, <1>9 DEF Mail
  <2>3. \A n \in Mail(p, "state") : n.sent >= Front(p) + 1
    BY <1>6 DEF Mail
  <2>4. \A n \in Mail(p, "round")' : /\ n \in Mail(p, "round")
                                     /\ n.round.id <= roundId[p] => n.sent = Front(p) + 1
    <3> TAKE n \in Mail(p, "round")'
    <3>1. n \in net[p] /\ n.type = "round" /\ n \in Mail(p, "round")
      BY <1>2 DEF Mail
    <3>2. n.round.id \in Nat /\ n.round.id >= m.round.id
      BY <1>6, <3>1, MailType, RoundType
    <3>3. QED
      BY <1>3, <1>4, <3>1, <3>2
  <2>5. \A n \in Mail(p, "round") : n.round.id > roundId[p] + 1 => n \in Mail(p, "round")'
    BY <1>2, <1>4, <1>7 DEF Mail
  <2>6. phase[p] # "idle"
    BY <1>2
  <2>7. QED
    BY <1>2, <1>3, <1>9, <1>10, <1>11, <2>1, <2>2, <2>3, <2>4, <2>5, <2>6 DEF Settle
<1>13. Publishes(p, x, m.round.award, {})
  BY <1>2 DEF Publishes, Mail
<1>14. IsFiniteSet(On(p, x))
  BY <1>10, FS_Subset DEF TypeInv, FinitePending
<1>15. m.round.cell = x
  BY DEF x
<1>16. RoundInv' /\ OwnerInv'
  <2>1. x \in Nat
    BY <1>3 DEF x
  <2>2. RoundInv'
    BY <1>7, <1>12, <1>13, <1>15, <2>1, SettleForetold
  <2>3. OwnerInv'
    BY <1>7, <1>12, <1>13, <1>14, <1>15, <2>1, SettleOwners
  <2>4. QED
    BY <2>2, <2>3
<1>17. AllUp'
  <2>1. \A a, b \in Peer : Active(view'[a][b])
    BY <1>9 DEF StepInv, AllUp
  <2>2. \A a \in Peer : net'[a] \in SUBSET net[a]
    BY <1>2
  <2>3. QED
    BY <1>2, <2>1, <2>2 DEF StepInv, AllUp
<1>18. \A q \in Peer : /\ phase'[q] # "idle" => phase[q] # "idle"
                       /\ phase[q] = "resolve" => phase'[q] = "resolve"
                       /\ Known(q)' \in SUBSET Known(q)
  BY <1>2, <1>11
<1>19. ClaimsOnce' /\ Waiting'
  <2>1. ClaimsOnce'
    BY <1>2, <1>18, KnownType, ClaimsKept DEF StepInv
  <2>2. Waiting'
    BY <1>2, <1>18, WaitingKept DEF StepInv
  <2>3. QED
    BY <2>1, <2>2
<1>20. QED
  BY <1>2, <1>16, <1>17, <1>19 DEF StepInv
-----------------------------------------------------------------------------
\* A turn of the resolve loop: the first of the open contests, decided.
LEMMA ResolveChoice ==
  ASSUME InLockstep, LockInv, NEW p \in Peer, ResolveCell(p)
  PROVE  /\ phase[p] = "resolve"
         /\ UNCHANGED <<clock, phase, health, released>>
         /\ \E x \in Cell, r \in Round :
              /\ On(p, x) # {} /\ \A c \in Open(p) : x <= c.cell
              /\ Settles(r.award, On(p, x))
              /\ r.id = roundId[p] + 1 /\ r.cell = x /\ r.released = None
              /\ ApplyRound(p, r, roundId[p] + 1)
              /\ view' = [view EXCEPT ![p] = ViewAfter(p, r)]
              /\ Send(p, {RoundMessage(p, r)})
              /\ resolved' = [resolved EXCEPT ![p] = @ \cup On(p, x)]
<1> USE DEF LockInv
<1>1. phase[p] = "resolve" /\ UNCHANGED <<clock, phase, health, released>>
  BY DEF ResolveCell
<1>2. Open(p) = Mature(p) /\ Open(p) \in SUBSET pending[p]
  BY <1>1, OpenIsMature
<1>3. PICK x \in Cell :
        LET S == {c \in Mature(p) : c.cell = x}
        IN  /\ S # {}
            /\ \A c \in Mature(p) : x <= c.cell
            /\ \E pick \in Fallbacks(S, Owned(view[p]) \cup {x}) :
                 LET r == ContestRound(p, x, S, pick)
                 IN  /\ ApplyRound(p, r, NextId(p))
                     /\ view' = [view EXCEPT ![p] = ViewAfter(p, r)]
                     /\ Send(p, {RoundMessage(p, r)})
            /\ resolved' = [resolved EXCEPT ![p] = @ \cup S]
  BY DEF ResolveCell
<1> DEFINE S == On(p, x)
<1>4. {c \in Mature(p) : c.cell = x} = S
  BY <1>2 DEF On
<1>5. PICK pick \in Fallbacks(S, Owned(view[p]) \cup {x}) :
        /\ ApplyRound(p, ContestRound(p, x, S, pick), NextId(p))
        /\ view' = [view EXCEPT ![p] = ViewAfter(p, ContestRound(p, x, S, pick))]
        /\ Send(p, {RoundMessage(p, ContestRound(p, x, S, pick))})
  BY <1>3, <1>4
<1>6. /\ S # {} /\ \A c \in Open(p) : x <= c.cell
      /\ resolved' = [resolved EXCEPT ![p] = @ \cup S]
  BY <1>2, <1>3, <1>4
<1>7. S \in SUBSET Mature(p) /\ S \in SUBSET pending[p]
  BY <1>2 DEF On
<1>8. S \in SUBSET Claim /\ IsFiniteSet(S)
  BY <1>7, FS_Subset DEF TypeInv, TypeOK, FinitePending
<1>9. \A c, d \in S : c.drone = d.drone => c = d
  BY DEF On, Open, StepInv, ClaimsOnce
<1> HIDE DEF S
<1>10. Settles(Award(S, pick), S)
  BY <1>5, <1>8, <1>9, AwardSettles
<1> DEFINE r == ContestRound(p, x, S, pick)
<1>11. r \in Round
  BY <1>3, <1>5, <1>7, ContestRoundType
<1>12. r.award = Award(S, pick) /\ r.id = roundId[p] + 1 /\ r.cell = x /\ r.released = None
  BY DEF ContestRound, NextId
<1>13. /\ ApplyRound(p, r, roundId[p] + 1)
       /\ view' = [view EXCEPT ![p] = ViewAfter(p, r)]
       /\ Send(p, {RoundMessage(p, r)})
  BY <1>5 DEF NextId
<1> HIDE DEF r
<1>14. Settles(r.award, S)
  BY <1>10, <1>12
<1>15. QED
  BY <1>1, <1>3, <1>6, <1>11, <1>12, <1>13, <1>14 DEF S

\* The claims in hand on the first open cell are those of its contest: a claim
\* of this tick can come in only when the other has none of the last one left.
LEMMA ContestIsWhole ==
  ASSUME InLockstep, LockInv, NEW p \in Peer, phase[p] = "resolve",
         NEW x, On(p, x) # {}, NEW c \in pending[p], c.cell = x
  PROVE  c \in On(p, x)
<1> USE DEF LockInv
<1>1. now[p] = Front(p) + 1 /\ Front(p) \in Nat
  BY FrontType DEF StepInv
<1>2. c \in Known(p) /\ c.ts \in Nat /\ c.ts >= Front(p) /\ c.drone \in Peer
  BY KnownType DEF StepInv, Waiting
<1>3. ASSUME c.ts > Front(p)
      PROVE  FALSE
  <2> DEFINE q == c.drone
  <2>1. News(p) = {}
    BY <1>3 DEF RoundInv, NewsFirst
  <2>2. c.ts <= now[q] /\ (phase[q] # "idle" => c.ts < now[q])
    BY <1>2 DEF StepInv, ClaimsOnce
  <2>3. q \in Peer /\ now[q] \in Nat
    BY <1>2, FrontType DEF StepInv
  <2> HIDE DEF q
  <2>4. now[q] <= now[p]
    BY <1>1, <2>3 DEF StepInv, InPhase
  <2>5. now[q] = Front(p) + 1 /\ phase[q] = "idle"
    BY <1>1, <1>2, <1>3, <2>2, <2>3, <2>4
  <2>6. Front(q) = Front(p) + 1
    BY <2>5 DEF Front
  <2>7. PICK s \in On(p, x) : TRUE
    OBVIOUS
  <2>8. s \in Known(p) /\ s.ts = Front(p)
    BY DEF On, Open
  <2>9. s \in Known(q)
    BY <2>1, <2>3, <2>8, CommonClaim
  <2>10. s.ts >= Front(q)
    BY <2>3, <2>9 DEF StepInv, Waiting
  <2>11. QED
    BY <1>1, <2>6, <2>8, <2>10
<1>4. c.ts = Front(p)
  BY <1>1, <1>2, <1>3
<1>5. QED
  BY <1>2, <1>4 DEF On, Open

\* The news of the first open contest, if there is any, is the first of the news.
LEMMA FirstNews ==
  ASSUME InLockstep, LockInv, NEW p \in Peer, NEW x \in Nat, On(p, x) # {},
         \A c \in Open(p) : x <= c.cell
  PROVE  \/ News(p) = {}
         \/ \E m \in News(p) : m.round.cell = x /\ m.round.id = roundId[p] + 1
<1> USE DEF LockInv
<1>1. PICK s \in On(p, x) : TRUE
  OBVIOUS
<1>2. s \in Open(p) /\ s.cell = x
  BY DEF On
<1>3. ASSUME NEW m \in News(p)
      PROVE  /\ m.round.cell \in Nat /\ x <= m.round.cell /\ m.round.id \in Nat
             /\ m.round.id > roundId[p] /\ m.from \in Peer \ {p}
             /\ m \in Mail(p, "round")
  <2>1. /\ m.round.cell \in Nat /\ m.round.id \in Nat /\ m.round.id > roundId[p]
        /\ m \in Mail(p, "round") /\ m \in net[p] /\ m.from \in Peer
    BY MailType, RoundType DEF News
  <2>2. On(p, m.round.cell) # {}
    BY DEF RoundInv, NewsDecides
  <2>3. x <= m.round.cell
    BY <2>2 DEF On
  <2>4. m.from # p
    BY <2>1 DEF StepInv, OnTime
  <2>5. QED
    BY <2>1, <2>3, <2>4
<1>4. ASSUME NEW m \in News(p)
      PROVE  \E n \in News(p) : n.round.cell = x /\ n.round.id = roundId[p] + 1
  <2>1. s \in Foretold(p)
    <3>1. ASSUME s \notin Foretold(p)
          PROVE  m.round.cell < x
      BY <1>2, <3>1 DEF RoundInv, NewsSorted
    <3>2. QED
      BY <1>3, <3>1
  <2>2. PICK n \in News(p) : n.round.cell = x
    BY <1>2, <2>1 DEF Foretold
  <2>3. roundId[p] < roundId[n.from] /\ roundId[p] \in Nat /\ roundId[n.from] \in Nat
    BY <1>3, Behind, FrontType DEF StepInv
  <2>4. PICK k \in News(p) : k.round.id = roundId[p] + 1
    <3>1. roundId[p] + 1 \in Nat /\ roundId[p] < roundId[p] + 1 /\ roundId[p] + 1 <= roundId[n.from]
      BY <2>3
    <3>2. QED
      BY <1>3, <3>1 DEF RoundInv, Numbered
  <2>5. ~(k.round.id < n.round.id)
    <3>1. k.round.id < n.round.id <=> k.round.cell < n.round.cell
      BY DEF RoundInv, NewsSorted
    <3>2. QED
      BY <1>3, <2>2, <3>1
  <2>6. n.round.id = roundId[p] + 1
    BY <1>3, <2>3, <2>4, <2>5
  <2>7. QED
    BY <2>2, <2>6
<1>5. QED
  BY <1>4

LEMMA ResolveCellLock ==
  ASSUME InLockstep, LockInv, TypeInv', NEW p \in Peer, ResolveCell(p)
  PROVE  StepInv' /\ RoundInv' /\ OwnerInv'
<1> USE DEF LockInv
<1>1. phase[p] = "resolve" /\ UNCHANGED <<clock, phase, health, released>>
  BY ResolveChoice
<1>2. PICK x \in Cell, r \in Round :
        /\ On(p, x) # {} /\ \A c \in Open(p) : x <= c.cell
        /\ Settles(r.award, On(p, x))
        /\ r.id = roundId[p] + 1 /\ r.cell = x /\ r.released = None
        /\ ApplyRound(p, r, roundId[p] + 1)
        /\ view' = [view EXCEPT ![p] = ViewAfter(p, r)]
        /\ Send(p, {RoundMessage(p, r)})
        /\ resolved' = [resolved EXCEPT ![p] = @ \cup On(p, x)]
  BY ResolveChoice
<1> DEFINE m == RoundMessage(p, r)
<1>3. m.type = "round" /\ m.from = p /\ m.sent = now[p] /\ m.round = r
  BY DEF RoundMessage, Sent, InLockstep
<1> HIDE DEF m
<1>4. net'[p] = net[p] /\ \A q \in Peer \ {p} : net'[q] = net[q] \cup {m}
  BY <1>2 DEF Send, TypeInv, TypeOK, m
<1>5. /\ \A q \in Peer : /\ now[q] \in Nat /\ Front(q) \in Nat /\ roundId[q] \in Nat
                         /\ now[q] <= now[p] /\ Front(q) <= now[q]
                         /\ phase[q] = "resolve" => now[q] = Front(q) + 1
      /\ now[p] = Front(p) + 1
  <2>1. \A q \in Peer : now[q] \in Nat /\ Front(q) \in Nat /\ roundId[q] \in Nat
    BY FrontType DEF StepInv
  <2>2. ASSUME NEW q \in Peer
        PROVE  /\ now[q] <= now[p] /\ Front(q) <= now[q]
               /\ phase[q] = "resolve" => now[q] = Front(q) + 1
    <3>1. now[q] <= now[p]
      BY <1>1, <2>1 DEF StepInv, InPhase
    <3>2. Front(q) <= now[q] /\ (phase[q] = "resolve" => now[q] = Front(q) + 1)
      BY <2>1, FrontType DEF StepInv, Phase
    <3>3. QED
      BY <3>1, <3>2
  <2>3. QED
    BY <1>1, <2>1, <2>2
<1>6. x \in Nat /\ r.award \in Awards /\ r.id \in Nat
  BY RoundType, AuctionAssumption DEF Round
<1>7. /\ roundId' = [roundId EXCEPT ![p] = @ + 1]
      /\ processed' = [processed EXCEPT ![p] = @ \cup {roundId[p] + 1}]
      /\ pending'[p] = {c \in pending[p] : c.cell # x}
      /\ \A q \in Peer \ {p} : /\ pending'[q] = pending[q]
                               /\ view'[q] = view[q] /\ part'[q] = part[q]
      /\ \A q \in Peer :
           /\ Active(view'[p][q])
           /\ view'[p][q].cell = IF q \notin DOMAIN r.award THEN view[p][q].cell
                                 ELSE IF r.award[q].kind = "idle" THEN None
                                      ELSE r.award[q].cell
      /\ part'[p] = IF p \notin DOMAIN r.award THEN part[p]
                    ELSE IF r.award[p].kind = "idle" THEN None ELSE r.award[p].kind
  <2>1. /\ roundId[p] + 1 \in Nat /\ roundId[p] + 1 <= r.id
        /\ r.released = None /\ r.id = roundId[p] + 1 /\ r.cell = x
        /\ ApplyRound(p, r, roundId[p] + 1)
        /\ view' = [view EXCEPT ![p] = ViewAfter(p, r)]
        /\ TypeInv /\ RoundsBelow /\ AllUp
    BY <1>2, <1>5 DEF StepInv
  <2> DEFINE counter == roundId[p] + 1
  <2>2. counter \in Nat /\ counter <= r.id /\ ApplyRound(p, r, counter)
    BY <2>1
  <2> HIDE DEF counter
  <2>3. /\ roundId' = [roundId EXCEPT ![p] = @ + 1]
        /\ processed' = [processed EXCEPT ![p] = @ \cup {roundId[p] + 1}]
        /\ pending'[p] = {c \in pending[p] : c.cell # r.cell}
        /\ \A q \in Peer \ {p} : /\ pending'[q] = pending[q]
                                 /\ view'[q] = view[q] /\ part'[q] = part[q]
        /\ \A q \in Peer :
             /\ Active(view'[p][q])
             /\ view'[p][q].cell = IF q \notin DOMAIN r.award THEN view[p][q].cell
                                   ELSE IF r.award[q].kind = "idle" THEN None
                                        ELSE r.award[q].cell
        /\ part'[p] = IF p \notin DOMAIN r.award THEN part[p]
                      ELSE IF r.award[p].kind = "idle" THEN None ELSE r.award[p].kind
    BY <2>1, <2>2, ApplyNext
  <2>4. QED
    BY <2>1, <2>3
<1>8. On(p, x) \in SUBSET pending[p] /\ \A c \in pending[p] : c.cell = x => c \in On(p, x)
  <2>1. On(p, x) \in SUBSET pending[p]
    BY <1>1, OpenIsMature DEF On
  <2>2. QED
    BY <1>1, <1>2, <2>1, ContestIsWhole
<1>9. \A q \in Peer : Front(q)' = Front(q)
  BY <1>1 DEF Front
<1>10. \A n \in net[p] : n.sent \in Nat /\ n.sent >= Front(p) + 1
  BY <1>1, MailType DEF StepInv, OnTime
<1>11. /\ Known(p)' = Known(p) \ On(p, x)
       /\ \A q \in Peer \ {p} : Known(q)' = Known(q)
  <2>1. \A q \in Peer : Mail(q, "claim")' = Mail(q, "claim")
    BY <1>3, <1>4 DEF Mail
  <2>2. \A n \in Mail(p, "claim") : n.claim \notin On(p, x)
    <3>1. ASSUME NEW n \in Mail(p, "claim")
          PROVE  n.claim.ts # Front(p)
      <4>1. n \in net[p] /\ n.claim.ts = n.sent
        BY DEF Mail, StepInv, OnTime
      <4>2. QED
        BY <1>5, <1>10, <4>1
    <3>2. QED
      BY <3>1 DEF On, Open
  <2>3. pending'[p] = pending[p] \ On(p, x)
    <3>1. \A c \in On(p, x) : c.cell = x
      BY DEF On
    <3>2. QED
      BY <1>7, <1>8, <3>1
  <2>4. Known(p)' = Known(p) \ On(p, x)
    BY <2>1, <2>2, <2>3 DEF Known
  <2>5. \A q \in Peer \ {p} : Known(q)' = Known(q)
    BY <1>7, <2>1 DEF Known
  <2>6. QED
    BY <2>4, <2>5
<1>12. Settle(p, x, r.award)
  <2>1. \A q \in Peer : Mail(q, "state")' = Mail(q, "state") /\ pending'[q] \in SUBSET pending[q]
    <3>1. \A q \in Peer : Mail(q, "state")' = Mail(q, "state")
      BY <1>3, <1>4 DEF Mail
    <3>2. QED
      BY <1>7, <3>1
  <2>2. \A n \in Mail(p, "state") : n.sent >= Front(p) + 1
    BY <1>10 DEF Mail
  <2>3. Mail(p, "round")' = Mail(p, "round")
    BY <1>4 DEF Mail
  <2>4. \A n \in Mail(p, "round") : n.sent = Front(p) + 1
    <3> TAKE n \in Mail(p, "round")
    <3>1. n \in net[p] /\ n.from \in Peer
      BY MailType
    <3>2. n.sent <= now[n.from]
      BY <3>1 DEF StepInv, OnTime
    <3>3. QED
      BY <1>5, <1>10, <3>1, <3>2
  <2>5. phase[p] # "idle"
    BY <1>1
  <2>6. QED
    BY <1>2, <1>5, <1>6, <1>7, <1>8, <1>9, <1>11, <2>1, <2>2, <2>3, <2>4, <2>5 DEF Settle
<1>13. Publishes(p, x, r.award, {m})
  <2>1. \A q \in Peer \ {p} : Mail(q, "round")' = Mail(q, "round") \cup {m}
    BY <1>3, <1>4 DEF Mail
  <2>2. QED
    BY <1>2, <1>3, <1>5, <2>1 DEF Publishes
<1>14. \/ News(p) = {}
       \/ \E n \in News(p) : n.round.cell = x /\ n.round.id = roundId[p] + 1
  BY <1>2, <1>6, FirstNews
<1>15. RoundInv'
  <2>1. CASE News(p) = {}
    BY <1>1, <1>2, <1>6, <1>12, <1>13, <2>1, SettleFresh
  <2>2. CASE \E n \in News(p) : n.round.cell = x /\ n.round.id = roundId[p] + 1
    BY <1>6, <1>12, <1>13, <2>2, SettleForetold
  <2>3. QED
    BY <1>14, <2>1, <2>2
<1>16. OwnerInv'
  <2>1. IsFiniteSet(On(p, x))
    BY <1>8, FS_Subset DEF TypeInv, FinitePending
  <2>2. {m} # {}
    OBVIOUS
  <2>3. QED
    BY <1>1, <1>6, <1>12, <1>13, <1>14, <2>1, <2>2, SettleOwners
<1>17. AllUp'
  <2>1. \A a, b \in Peer : Active(view'[a][b])
    BY <1>7 DEF StepInv, AllUp
  <2>2. \A a \in Peer : \A n \in net'[a] : n \in net[a] \/ n = m
    BY <1>4
  <2>3. QED
    BY <1>1, <1>2, <1>3, <2>1, <2>2 DEF StepInv, AllUp
<1>18. InPhase'
  BY <1>1 DEF StepInv, InPhase
<1>19. OnTime'
  <2> SUFFICES ASSUME NEW q \in Peer, NEW n \in net'[q]
               PROVE  /\ n.from # q
                      /\ n.sent >= IF phase[q] = "resolve" THEN Front(q) + 1 ELSE Front(q)
                      /\ n.sent <= now[n.from]
                      /\ Unsent(n, n.from) => n.sent < now[n.from]
                      /\ n.type = "claim" => n.claim.drone = n.from /\ n.claim.ts = n.sent
    BY <1>1, <1>9 DEF OnTime, Unsent
  <2>1. CASE n \in net[q]
    BY <2>1 DEF StepInv, OnTime
  <2>2. CASE n = m /\ q # p
    <3>1. ~Unsent(n, p)
      BY <1>1, <1>3, <2>2 DEF Unsent
    <3>2. QED
      BY <1>3, <1>5, <2>2, <3>1
  <2>3. QED
    BY <1>4, <2>1, <2>2
<1>20. ClaimsOnce'
  BY <1>1, <1>11, KnownType, ClaimsKept DEF StepInv
<1>21. Waiting'
  <2>1. \A c \in On(p, x) : c.ts = Front(p)
    BY DEF On, Open
  <2>2. resolved'[p] = resolved[p] \cup On(p, x) /\ \A q \in Peer \ {p} : resolved'[q] = resolved[q]
    BY <1>2 DEF TypeInv, TypeOK
  <2>3. QED
    BY <1>1, <1>5, <1>9, <1>11, <2>1, <2>2 DEF StepInv, Waiting
<1>22. QED
  BY <1>15, <1>16, <1>17, <1>18, <1>19, <1>20, <1>21 DEF StepInv
-----------------------------------------------------------------------------
LEMMA InitLock == InLockstep /\ Init => StepInv /\ RoundInv /\ OwnerInv
<1> SUFFICES ASSUME InLockstep, Init PROVE StepInv /\ RoundInv /\ OwnerInv
  OBVIOUS
<1>1. ASSUME NEW p \in Peer
      PROVE  /\ now[p] = 0 /\ phase[p] = "idle" /\ health[p] = "fresh" /\ roundId[p] = 0
             /\ processed[p] = {} /\ pending[p] = {} /\ resolved[p] = {} /\ part[p] = None
             /\ \A q \in Peer : view[p][q] = Unassigned
             /\ Front(p) = 0
  BY DEF Init, Front
<1>2. ASSUME NEW p \in Peer, NEW m \in net[p]
      PROVE  /\ m.type \in {"alive", "state"} /\ m.from \in Peer \ {p} /\ m.sent = 0
             /\ m.type = "state" => m.view = Unassigned
  <2>1. PICK q \in Peer \ {p} : m \in {AliveMessage(q, 0), StateMessage(q, 0, Unassigned)}
    BY DEF Init
  <2>2. CASE m = AliveMessage(q, 0)
    BY <2>2 DEF AliveMessage, Sent
  <2>3. CASE m = StateMessage(q, 0, Unassigned)
    BY <2>3 DEF StateMessage, Sent
  <2>4. QED
    BY <2>1, <2>2, <2>3
<1>3. \A p \in Peer : /\ Mail(p, "round") = {} /\ Mail(p, "claim") = {}
                      /\ Known(p) = {} /\ News(p) = {} /\ Foretold(p) = {}
  <2> TAKE p \in Peer
  <2>1. Mail(p, "round") = {} /\ Mail(p, "claim") = {}
    BY <1>2 DEF Mail
  <2>2. Known(p) = {}
    BY <1>1, <2>1 DEF Known
  <2>3. QED
    BY <2>1, <2>2 DEF News, Foretold
<1>4. Active(Unassigned) /\ Unassigned.cell = None
  BY DEF Active, Unassigned
<1>5. StepInv
  <2>1. AllUp
    BY <1>1, <1>2, <1>4 DEF AllUp
  <2>2. InPhase
    BY <1>1 DEF InPhase
  <2>3. OnTime
    BY <1>1, <1>2 DEF OnTime, Unsent
  <2>4. ClaimsOnce /\ Waiting
    BY <1>1, <1>3 DEF ClaimsOnce, Waiting
  <2>5. QED
    BY <2>1, <2>2, <2>3, <2>4 DEF StepInv
<1>6. RoundInv
  <2>1. Numbered /\ LastTwo
    BY <1>1, <1>3 DEF Numbered, LastTwo
  <2>2. NewsDecides /\ NewsSorted /\ NewsFirst
    BY <1>3 DEF NewsDecides, NewsSorted, NewsFirst
  <2>3. Agreed /\ LateRounds
    BY <1>3 DEF Agreed, LateRounds
  <2>4. QED
    BY <2>1, <2>2, <2>3 DEF RoundInv
<1>7. OwnerInv
  <2>1. \A p \in Peer : ~Holds(p) /\ view[p][p].cell = None
    BY <1>1, <1>4 DEF Holds
  <2>2. QED
    BY <1>3, <2>1
       DEF OwnerInv, Seated, WinnersKnown, WinnersAwaited, HoldersQuiet, HoldersApart
<1>8. QED
  BY <1>5, <1>6, <1>7

LEMMA NextLock ==
  InLockstep /\ LockInv /\ TypeInv' /\ [Next]_vars => StepInv' /\ RoundInv' /\ OwnerInv'
<1> SUFFICES ASSUME InLockstep, LockInv, TypeInv', [Next]_vars
             PROVE  StepInv' /\ RoundInv' /\ OwnerInv'
  OBVIOUS
<1>1. ASSUME NEW p \in Peer, NEW t \in TickLengths, BeginTick(p, t)
      PROVE  StepInv' /\ RoundInv' /\ OwnerInv'
  BY <1>1, BeginTickLock
<1>2. ASSUME NEW p \in Peer, NEW t \in TickLengths, Fail(p, t)
      PROVE  FALSE
  BY <1>2 DEF Fail, InLockstep
<1>3. ASSUME NEW p \in Peer, NEW t \in TickLengths, Reconnect(p, t)
      PROVE  FALSE
  BY <1>3 DEF Reconnect, LockInv, StepInv, AllUp
<1>4. ASSUME NEW p \in Peer, NEW q \in Peer, DetectStale(p, q)
      PROVE  FALSE
  BY <1>4 DEF DetectStale, InLockstep
<1>5. ASSUME NEW p \in Peer, Receive(p)
      PROVE  StepInv' /\ RoundInv' /\ OwnerInv'
  <2>1. PICK m \in net[p] : \/ HandleAlive(p, m)
                            \/ HandleDroneState(p, m)
                            \/ HandleClaim(p, m)
                            \/ HandleRound(p, m)
    BY <1>5 DEF Receive
  <2>2. CASE HandleAlive(p, m)
    BY <2>2, HandleAliveLock
  <2>3. CASE HandleDroneState(p, m)
    BY <2>3, HandleDroneStateLock
  <2>4. CASE HandleClaim(p, m)
    BY <2>4, HandleClaimLock
  <2>5. CASE HandleRound(p, m)
    <3>1. CASE m \in News(p)
      BY <2>5, <3>1, HandleNewsLock
    <3>2. CASE m \notin News(p)
      BY <2>5, <3>2, HandleLateRoundLock
    <3>3. QED
      BY <3>1, <3>2
  <2>6. QED
    BY <2>1, <2>2, <2>3, <2>4, <2>5
<1>6. ASSUME NEW p \in Peer, BeginResolve(p)
      PROVE  StepInv' /\ RoundInv' /\ OwnerInv'
  BY <1>6, BeginResolveLock
<1>7. ASSUME NEW p \in Peer, ResolveCell(p)
      PROVE  StepInv' /\ RoundInv' /\ OwnerInv'
  BY <1>7, ResolveCellLock
<1>8. ASSUME NEW p \in Peer, EndResolve(p)
      PROVE  StepInv' /\ RoundInv' /\ OwnerInv'
  BY <1>8, EndResolveLock
<1>9. ASSUME NEW p \in Peer, Act(p)
      PROVE  StepInv' /\ RoundInv' /\ OwnerInv'
  BY <1>9, ActLock
<1>10. CASE UNCHANGED vars
  <2>1. UNCHANGED <<clock, phase, health, roundId, processed, pending, resolved, released,
                    view, part, net, decided>>
    BY <1>10 DEF vars
  <2>2. /\ \A q \in Peer : /\ Front(q)' = Front(q) /\ Known(q)' = Known(q)
                           /\ News(q)' = News(q)
        /\ \A q \in Peer : \A t : Mail(q, t)' = Mail(q, t)
    BY <2>1 DEF Front, Known, News, Mail
  <2>3. SameClaims
    BY <2>1, <2>2 DEF SameClaims
  <2>4. StepInv'
    <3>1. AllUp' /\ InPhase'
      BY <2>1 DEF LockInv, StepInv, AllUp, InPhase
    <3>2. OnTime'
      BY <2>1, <2>2 DEF LockInv, StepInv, OnTime, Unsent
    <3>3. ClaimsOnce' /\ Waiting'
      BY <2>1, <2>2 DEF LockInv, StepInv, ClaimsOnce, Waiting
    <3>4. QED
      BY <3>1, <3>2, <3>3 DEF StepInv
  <2>5. RoundInv'
    <3>1. \A q \in Peer : Front(q) \in Nat /\ \A c \in pending'[q] : c.ts \in Nat
      BY <2>1, FrontType, KnownType DEF LockInv, StepInv
    <3>2. QED
      BY <2>1, <2>2, <2>3, <3>1, QuietRounds DEF LockInv
  <2>6. OwnerInv'
    BY <2>1, <2>2, <2>3, QuietOwners DEF LockInv
  <2>7. QED
    BY <2>4, <2>5, <2>6
<1>11. QED
  BY <1>1, <1>2, <1>3, <1>4, <1>5, <1>6, <1>7, <1>8, <1>9, <1>10 DEF Next

LEMMA LockInvariant == ASSUME InLockstep PROVE Spec => []LockInv
<1>1. Init => StepInv /\ RoundInv /\ OwnerInv
  BY InitLock
<1>2. CounterInv /\ CounterInv' /\ StepInv /\ RoundInv /\ OwnerInv /\ [Next]_vars
        => StepInv' /\ RoundInv' /\ OwnerInv'
  BY NextLock DEF CounterInv, LockInv
<1>3. CounterInv /\ StepInv /\ RoundInv /\ OwnerInv => LockInv
  BY DEF CounterInv, LockInv
<1>4. QED
  BY <1>1, <1>2, <1>3, CounterInvariant, PTL DEF Spec

\* Where ticks are in step, nothing is lost or late and nobody fails, two
\* drones never both hold a cell they won, but for the halves of a split: the
\* rounds each decides for itself, out of claims that reach it at different
\* moments, seat both alike (resolve_pending_claims, apply_round).
THEOREM WinnersKeepTheirCells == ASSUME InLockstep PROVE Spec => []WinnersExclusive
<1>1. LockInv => WinnersExclusive
  <2> SUFFICES ASSUME LockInv, NEW p \in Peer, NEW q \in Peer, Sharing(p, q)
               PROVE  \/ "fallback" \in {part[p], part[q]}
                      \/ {part[p], part[q]} = {"left", "right"}
    BY DEF WinnersExclusive
  <2>1. /\ p # q /\ view[p][p].cell # None /\ view[q][q].cell # None
        /\ view[p][p].cell = view[q][q].cell
    BY DEF Sharing, Working
  <2>2. (Won(part[p]) \/ part[p] = "fallback") /\ (Won(part[q]) \/ part[q] = "fallback")
    BY <2>1 DEF LockInv, OwnerInv, Seated
  <2>3. CASE Won(part[p]) /\ Won(part[q])
    <3>1. Holds(p) /\ Holds(q)
      BY <2>1, <2>3 DEF Holds
    <3>2. QED
      BY <2>1, <3>1 DEF LockInv, OwnerInv, HoldersApart
  <2>4. QED
    BY <2>2, <2>3
<1>2. QED
  BY <1>1, LockInvariant, PTL
=============================================================================
