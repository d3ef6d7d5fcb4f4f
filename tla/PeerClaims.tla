---------------------------- MODULE PeerClaims ----------------------------
(***************************************************************************)
(* The peer runtime's claim protocol: one process per drone, each running  *)
(* the tick of simulation/runtime.py over an unreliable datagram mesh.     *)
(* simulation/claim_manager.py collects claims, resolves them with a       *)
(* resolver of its own (core/consensus.py without a mesh) and publishes    *)
(* the round; simulation/mesh_handler.py keeps the peer's view of every    *)
(* drone.                                                                  *)
(*                                                                         *)
(* A tick is cut into the steps between which the code handles another     *)
(* peer's message or reads its own clock:                                  *)
(*   BeginTick -> DetectStale* -> Receive* -> BeginResolve ->              *)
(*   ResolveCell* -> EndResolve -> Act -> idle.                            *)
(* Abstractions: time is in seconds, and the length of a tick is what the  *)
(* control file last said; heartbeat timeouts may strike any peer in       *)
(* Suspectable; certainty, travel and search are reduced to "the drone may *)
(* finish its cell in this tick"; the target and the claimed cell of a     *)
(* drone are always assigned together and are one field.                   *)
(***************************************************************************)
EXTENDS Auction

CONSTANTS
  Transport,    \* "local" (UDP mesh) or "foxmq"
  FailureMode,  \* "crash" (degrade, reconnect) or "partition"
  MayFail,      \* peers with a failure plan
  Suspectable,  \* peers whose heartbeats may time out
  Synchronous,  \* TRUE: lockstep ticks, messages arrive in order by the next one
  MaxTracked,   \* _MAX_TRACKED_SET_SIZE
  TickLengths,  \* tick_seconds, as configured and as the control file sets it
  Duration      \* config.duration

Peer == Drone

ASSUME PeerClaimsAssumption ==
  /\ Transport \in {"local", "foxmq"}
  /\ FailureMode \in {"crash", "partition"}
  /\ MayFail \subseteq Peer
  /\ Suspectable \subseteq Peer
  /\ Synchronous \in BOOLEAN
  /\ MaxTracked \in Nat \ {0}
  /\ TickLengths \subseteq Nat \ {0}
  /\ Duration \in Nat
  /\ IsFiniteSet(Peer)

VARIABLES
  now,        \* now_ms, in seconds
  tick,       \* _tick_seconds
  lastTick,   \* history: the length of the tick before
  phase,      \* where the peer is in its tick
  health,     \* failure plan and _peer_status
  roundId,    \* the resolver's _round_id
  processed,  \* _processed_rounds
  pending,    \* _pending_claims
  resolved,   \* _resolved_claim_ids
  released,   \* _released_stale
  view,       \* peer_drones: what a peer holds of every drone, itself included
  part,       \* how a drone came by its own cell: the reason and subzone of its seat
  net,        \* messages on their way to a peer
  decided     \* history: every round decided so far, and by whom

clock == <<now, tick, lastTick>>
vars == <<clock, phase, health, roundId, processed, pending, resolved, released,
          view, part, net, decided>>

-----------------------------------------------------------------------------
Phase == {"idle", "watch", "poll", "resolve", "act"}
Health == {"fresh", "degraded", "partitioned", "recovered"}
DroneView == [cell : Cell \cup {None}, alive : BOOLEAN, reachable : BOOLEAN]

Awards == UNION {[D -> Seat] : D \in SUBSET Drone}
Round == [id : Nat, cell : Cell, award : Awards, released : Peer \cup {None}]
Message ==
  [type : {"alive"}, from : Peer, sent : Nat]
    \cup [type : {"state"}, from : Peer, sent : Nat, view : DroneView]
    \cup [type : {"claim"}, from : Peer, sent : Nat, claim : Claim]
    \cup [type : {"round"}, from : Peer, sent : Nat, round : Round]
Decision ==
  [by : Peer, id : Nat, claims : SUBSET Claim, released : Peer \cup {None}]

\* Every variable keeps its type: in particular a view never names a cell off
\* the grid, and a drone out of a contest's fallbacks is idle (kind "idle" of
\* _fallback_assignments), not assigned to no cell.
TypeOK ==
  /\ now \in [Peer -> Nat]
  /\ tick \in [Peer -> TickLengths]
  /\ lastTick \in [Peer -> TickLengths]
  /\ phase \in [Peer -> Phase]
  /\ health \in [Peer -> Health]
  /\ roundId \in [Peer -> Nat]
  /\ processed \in [Peer -> SUBSET Nat]
  /\ pending \in [Peer -> SUBSET Claim]
  /\ resolved \in [Peer -> SUBSET Claim]
  /\ released \in [Peer -> SUBSET Peer]
  /\ view \in [Peer -> [Peer -> DroneView]]
  /\ part \in [Peer -> Kind \cup {None}]
  /\ net \in [Peer -> SUBSET Message]
  /\ decided \subseteq Decision

-----------------------------------------------------------------------------
\* claim_resolution_delay_ms and twice that, by the length the tick has now
Delay(p) == tick[p] * (IF Transport = "foxmq" THEN 2 ELSE 1)
TTL(p) == 2 * Delay(p)

Unassigned == [cell |-> None, alive |-> TRUE, reachable |-> TRUE]
Gone == [cell |-> None, alive |-> FALSE, reachable |-> FALSE]   \* mark_stale

Active(v) == v.alive /\ v.reachable

Working(p) == Active(view[p][p]) /\ view[p][p].cell # None

Owned(views) == {views[q].cell : q \in {r \in Peer : Active(views[r])}} \ {None}

Larger(a, b) == IF a > b THEN a ELSE b

IdBefore(a, b) ==     \* the order of the id "peer:x:y:now"
  \/ a.drone < b.drone
  \/ a.drone = b.drone /\ a.cell < b.cell
  \/ a.drone = b.drone /\ a.cell = b.cell /\ a.ts < b.ts

\* Over the cap the first entries by sort order, not by age, leave a set.
CappedRounds(S) == {r \in S : Cardinality({q \in S : r < q}) < MaxTracked}
CappedClaims(S) == {c \in S : Cardinality({d \in S : IdBefore(c, d)}) < MaxTracked}

\* The time of sending matters, and is kept, only where ticks are synchronous.
Sent(t) == IF Synchronous THEN t ELSE 0

AliveMessage(p, t) == [type |-> "alive", from |-> p, sent |-> Sent(t)]
StateMessage(p, t, v) == [type |-> "state", from |-> p, sent |-> Sent(t), view |-> v]
ClaimMessage(p, c) == [type |-> "claim", from |-> p, sent |-> Sent(c.ts), claim |-> c]
RoundMessage(p, r) == [type |-> "round", from |-> p, sent |-> Sent(now[p]), round |-> r]

\* publish: one datagram to every other peer.
Send(p, ms) == net' = [q \in Peer |-> IF q = p THEN net[q] ELSE net[q] \cup ms]

-----------------------------------------------------------------------------
\* apply_round's effect on the drones it names: the released drone goes first.
AppliedView(p, r) ==
  [q \in Peer |->
     LET base == IF q = r.released THEN Gone ELSE view[p][q]
     IN  IF q \notin DOMAIN r.award THEN base
         ELSE [base EXCEPT !.cell = IF r.award[q].kind = "idle" THEN None
                                    ELSE r.award[q].cell]]

AppliedPart(p, r) ==
  IF p \in DOMAIN r.award
    THEN IF r.award[p].kind = "idle" THEN None ELSE r.award[p].kind
    ELSE IF p = r.released THEN None ELSE part[p]

\* Variants with one mistake, named <operator>_<mistake>, are what the checks of
\* the properties put in the place of the operator.
ApplyRound_NoSync(p, r, counter) ==
  IF r.id \in processed[p]
    THEN /\ roundId' = [roundId EXCEPT ![p] = counter]
         /\ UNCHANGED <<processed, part, pending>>
    ELSE /\ roundId' = [roundId EXCEPT ![p] = counter]
         /\ processed' = [processed EXCEPT ![p] = @ \cup {r.id}]
         /\ part' = [part EXCEPT ![p] = AppliedPart(p, r)]
         /\ pending' = [pending EXCEPT ![p] = {c \in @ : c.cell # r.cell}]

\* apply_round, called with the resolver's counter at `counter`; a round id
\* seen before is dropped whoever numbered it.
ApplyRound(p, r, counter) ==
  IF r.id \in processed[p]
    THEN /\ roundId' = [roundId EXCEPT ![p] = counter]
         /\ UNCHANGED <<processed, part, pending>>
    ELSE /\ roundId' = [roundId EXCEPT ![p] = Larger(counter, r.id)]
         /\ processed' = [processed EXCEPT ![p] = @ \cup {r.id}]
         /\ part' = [part EXCEPT ![p] = AppliedPart(p, r)]
         /\ pending' = [pending EXCEPT ![p] = {c \in @ : c.cell # r.cell}]

NextId_NoIncrement(p) == roundId[p]

\* Every round a peer decides, contest or release, takes the next number.
NextId(p) == roundId[p] + 1

Decided(p, S, q) == [by |-> p, id |-> NextId(p), claims |-> S, released |-> q]

ViewAfter_NoGuard(p, r) == AppliedView(p, r)

ViewAfter(p, r) == IF r.id \in processed[p] THEN view[p] ELSE AppliedView(p, r)

-----------------------------------------------------------------------------
\* bootstrap: the first heartbeat and state of every peer are on their way.
Init ==
  /\ now = [p \in Peer |-> 0]
  /\ tick \in [Peer -> TickLengths]
  /\ lastTick = tick
  /\ phase = [p \in Peer |-> "idle"]
  /\ health = [p \in Peer |-> "fresh"]
  /\ roundId = [p \in Peer |-> 0]
  /\ processed = [p \in Peer |-> {}]
  /\ pending = [p \in Peer |-> {}]
  /\ resolved = [p \in Peer |-> {}]
  /\ released = [p \in Peer |-> {}]
  /\ view = [p \in Peer |-> [q \in Peer |-> Unassigned]]
  /\ part = [p \in Peer |-> None]
  /\ net = [p \in Peer |-> UNION {{AliveMessage(q, 0), StateMessage(q, 0, Unassigned)} :
                                   q \in Peer \ {p}}]
  /\ decided = {}

-----------------------------------------------------------------------------
\* In a synchronous run nobody starts tick k + 1 before everybody ended tick k.
InStep(p) ==
  Synchronous => \A q \in Peer : \/ now[q] > now[p]
                                 \/ now[q] = now[p] /\ phase[q] = "idle"

\* The opening of tick(): the length t from the control file or unchanged, the
\* clock, then publish_heartbeat, which a drone marked stale in its own view no
\* longer sends.
StartTick(p, t, h, own, extra) ==
  /\ phase[p] = "idle"
  /\ now[p] < Duration
  /\ InStep(p)
  /\ tick' = [tick EXCEPT ![p] = t]
  /\ lastTick' = [lastTick EXCEPT ![p] = tick[p]]
  /\ now' = [now EXCEPT ![p] = @ + t]
  /\ phase' = [phase EXCEPT ![p] = "watch"]
  /\ health' = [health EXCEPT ![p] = h]
  /\ view' = [view EXCEPT ![p][p] = own]
  /\ Send(p, extra \cup IF own.alive THEN {AliveMessage(p, now[p] + t)} ELSE {})
  /\ UNCHANGED <<roundId, processed, pending, resolved, released, part, decided>>

\* A degraded peer is due to reconnect at its next tick; only the broker of
\* the foxmq transport can make that attempt fail.
BeginTick(p, t) ==
  /\ health[p] = "degraded" => Transport = "foxmq"
  /\ StartTick(p, t, health[p], view[p][p], {})

\* The failure plan fires, once: the drone is off the mesh but keeps its cell.
\* A plan due when the drone is already out is spent without effect.
Fail(p, t) ==
  /\ p \in MayFail
  /\ health[p] = "fresh"
  /\ Active(view[p][p])
  /\ StartTick(p, t, IF FailureMode = "crash" THEN "degraded" ELSE "partitioned",
               [view[p][p] EXCEPT !.reachable = FALSE], {})

\* _attempt_reconnect succeeded: rejoin and state are published.
Reconnect(p, t) ==
  /\ health[p] = "degraded"
  /\ LET own == [view[p][p] EXCEPT !.reachable = TRUE]
     IN  StartTick(p, t, "recovered", own,
                   {AliveMessage(p, now[p] + t), StateMessage(p, now[p] + t, own)})

\* The round that hands back the cell of a peer that stopped beating.
ReleaseRound(p, q) ==
  [id |-> NextId(p), cell |-> view[p][q].cell, award |-> [d \in {} |-> None],
   released |-> q]

DetectStale_NoCellGuard(p, q) ==
  /\ phase[p] = "watch"
  /\ q \in Suspectable \ {p}
  /\ view[p][q].alive
  /\ ApplyRound(p, ReleaseRound(p, q), NextId(p))
  /\ view' = [view EXCEPT ![p] = [ViewAfter(p, ReleaseRound(p, q)) EXCEPT ![q] = Gone]]
  /\ released' = [released EXCEPT ![p] = @ \cup {q}]
  /\ Send(p, {RoundMessage(p, ReleaseRound(p, q))})
  /\ decided' = decided \cup {Decided(p, {}, q)}
  /\ UNCHANGED <<clock, phase, health, resolved>>

DetectStale_Self(p, q) ==
  /\ phase[p] = "watch"
  /\ q \in Suspectable
  /\ view[p][q].alive
  /\ view' = [view EXCEPT ![p][q] = Gone]
  /\ UNCHANGED <<clock, phase, health, resolved, roundId, processed, part, pending,
                 released, net, decided>>

\* detect_stale_peers, for one peer whose heartbeats timed out.
DetectStale(p, q) ==
  /\ phase[p] = "watch"
  /\ q \in Suspectable \ {p}
  /\ view[p][q].alive
  /\ IF q \notin released[p] /\ view[p][q].cell # None
       THEN /\ ApplyRound(p, ReleaseRound(p, q), NextId(p))
            /\ view' = [view EXCEPT ![p] = [ViewAfter(p, ReleaseRound(p, q))
                                              EXCEPT ![q] = Gone]]
            /\ released' = [released EXCEPT ![p] = @ \cup {q}]
            /\ Send(p, {RoundMessage(p, ReleaseRound(p, q))})
            /\ decided' = decided \cup {Decided(p, {}, q)}
       ELSE /\ view' = [view EXCEPT ![p][q] = Gone]
            /\ UNCHANGED <<roundId, processed, part, pending, released, net, decided>>
  /\ UNCHANGED <<clock, phase, health, resolved>>

-----------------------------------------------------------------------------
\* A synchronous mesh keeps the order of a peer's messages: tick by tick, the
\* heartbeat, the rounds of the resolve loop, the claim and the state.
Earlier(m, n) ==
  LET place == [alive |-> 0, round |-> 1, claim |-> 2, state |-> 3]
  IN  \/ m.sent < n.sent
      \/ m.sent = n.sent /\ place[m.type] < place[n.type]
      \/ /\ m.sent = n.sent
         /\ m.type = "round"
         /\ n.type = "round"
         /\ m.round.id < n.round.id

InOrder(p, m) ==
  Synchronous => \A n \in net[p] : n.from = m.from => ~Earlier(n, m)

\* process_incoming_messages takes the inbox in any order the mesh gives it.
Take(p, m) ==
  /\ phase[p] \in {"watch", "poll"}
  /\ m \in net[p]
  /\ InOrder(p, m)
  /\ net' = [net EXCEPT ![p] = @ \ {m}]
  /\ phase' = [phase EXCEPT ![p] = "poll"]
  /\ UNCHANGED <<clock, health, resolved, released, decided>>

HandleAlive(p, m) ==      \* handle_heartbeat, handle_rejoin
  /\ m.type = "alive"
  /\ Take(p, m)
  /\ view' = [view EXCEPT ![p][m.from].alive = TRUE, ![p][m.from].reachable = TRUE]
  /\ UNCHANGED <<roundId, processed, pending, part>>

HandleDroneState(p, m) ==
  /\ m.type = "state"
  /\ Take(p, m)
  /\ view' = [view EXCEPT ![p][m.from] = m.view]
  /\ UNCHANGED <<roundId, processed, pending, part>>

HandleClaim(p, m) ==
  /\ m.type = "claim"
  /\ Take(p, m)
  /\ pending' = [pending EXCEPT ![p] = IF m.claim \in resolved[p] THEN @
                                       ELSE @ \cup {m.claim}]
  /\ UNCHANGED <<roundId, processed, view, part>>

HandleRound(p, m) ==
  /\ m.type = "round"
  /\ Take(p, m)
  /\ ApplyRound(p, m.round, roundId[p])
  /\ view' = [view EXCEPT ![p] = ViewAfter(p, m.round)]

Receive(p) ==
  \E m \in net[p] : \/ HandleAlive(p, m)
                    \/ HandleDroneState(p, m)
                    \/ HandleClaim(p, m)
                    \/ HandleRound(p, m)

-----------------------------------------------------------------------------
Mature(p) ==
  {c \in pending[p] : c.ts + Delay(p) <= now[p] /\ c \notin resolved[p]}

BeginResolve_EarlyExpiry(p) ==
  /\ phase[p] \in {"watch", "poll"}
  /\ Synchronous => \A m \in net[p] : m.sent = now[p]
  /\ phase' = [phase EXCEPT ![p] = "resolve"]
  /\ pending' = [pending EXCEPT ![p] = {c \in @ : now[p] < c.ts + Delay(p)}]
  /\ UNCHANGED <<clock, health, roundId, processed, resolved, released, view, part,
                 net, decided>>

\* resolve_pending_claims first drops the claims older than the TTL.
BeginResolve(p) ==
  /\ phase[p] \in {"watch", "poll"}
  /\ Synchronous => \A m \in net[p] : m.sent = now[p]
  /\ phase' = [phase EXCEPT ![p] = "resolve"]
  /\ pending' = [pending EXCEPT ![p] = {c \in @ : now[p] <= c.ts + TTL(p)}]
  /\ UNCHANGED <<clock, health, roundId, processed, resolved, released, view, part,
                 net, decided>>

\* The round a peer decides alone on the claims S on one cell.
ContestRound(p, cell, S, pick) ==
  [id |-> NextId(p), cell |-> cell, award |-> Award(S, pick), released |-> None]

\* One turn of the loop over sorted(grouped): the claims on the first cell are
\* resolved, and the round is published, applied and the claims marked resolved.
ResolveCell(p) ==
  /\ phase[p] = "resolve"
  /\ \E cell \in Cell :
       LET S == {c \in Mature(p) : c.cell = cell}
       IN  /\ S # {}
           /\ \A c \in Mature(p) : cell <= c.cell
           /\ \E pick \in Fallbacks(S, Owned(view[p]) \cup {cell}) :
                LET r == ContestRound(p, cell, S, pick)
                IN  /\ ApplyRound(p, r, NextId(p))
                    /\ view' = [view EXCEPT ![p] = ViewAfter(p, r)]
                    /\ Send(p, {RoundMessage(p, r)})
           /\ resolved' = [resolved EXCEPT ![p] = @ \cup S]
           /\ decided' = decided \cup {Decided(p, S, None)}
  /\ UNCHANGED <<clock, phase, health, released>>

EndResolve_Break(p) ==
  /\ phase[p] = "resolve"
  /\ phase' = [phase EXCEPT ![p] = "act"]
  /\ pending' = [pending EXCEPT ![p] = @ \ resolved[p]]
  /\ processed' = [processed EXCEPT ![p] = CappedRounds(@)]
  /\ resolved' = [resolved EXCEPT ![p] = CappedClaims(@)]
  /\ UNCHANGED <<clock, health, roundId, released, view, part, net, decided>>

\* The loop is done: resolved claims leave pending, both id sets are capped.
EndResolve(p) ==
  /\ phase[p] = "resolve"
  /\ Mature(p) = {}
  /\ phase' = [phase EXCEPT ![p] = "act"]
  /\ pending' = [pending EXCEPT ![p] = @ \ resolved[p]]
  /\ processed' = [processed EXCEPT ![p] = CappedRounds(@)]
  /\ resolved' = [resolved EXCEPT ![p] = CappedClaims(@)]
  /\ UNCHANGED <<clock, health, roundId, released, view, part, net, decided>>

-----------------------------------------------------------------------------
Candidates_IgnoreOwners(p, views) == Cell

\* _maybe_claim_zone ignores the others' cells in the first three ticks as
\* long as no round was processed.
Candidates(p, views) ==
  Cell \ (IF now[p] <= 3 * tick[p] /\ processed[p] = {} THEN {} ELSE Owned(views))

\* _move_and_search: an active drone may find its cell searched and give it up.
Searched(p) ==
  {view[p]} \cup
    IF Working(p) THEN {[view[p] EXCEPT ![p] = [@ EXCEPT !.cell = None]]} ELSE {}

\* The claims _maybe_claim_zone can build for a drone without a cell.
Fresh(p, views) ==
  IF Active(views[p]) /\ views[p].cell = None
    THEN {[drone |-> p, cell |-> c, ts |-> now[p], dist |-> d] :
            c \in Candidates(p, views), d \in Dist}
    ELSE {}

\* _move_and_search, _maybe_claim_zone, publish_state.  A drone without a cell
\* claims one, unless every free cell is already searched.
Act(p) ==
  /\ phase[p] = "act"
  /\ phase' = [phase EXCEPT ![p] = "idle"]
  /\ \E views \in Searched(p) :
       \E claims \in {{}} \cup {{c} : c \in Fresh(p, views)} :
          /\ view' = [view EXCEPT ![p] = views]
          /\ part' = IF views = view[p] THEN part ELSE [part EXCEPT ![p] = None]
          /\ pending' = [pending EXCEPT ![p] = @ \cup claims]
          /\ Send(p, {StateMessage(p, now[p], views[p])} \cup
                     {ClaimMessage(p, c) : c \in claims})
  /\ UNCHANGED <<clock, health, roundId, processed, resolved, released, decided>>

-----------------------------------------------------------------------------
Next ==
  \E p \in Peer : \/ \E t \in TickLengths : \/ BeginTick(p, t)
                                             \/ Fail(p, t)
                                             \/ Reconnect(p, t)
                  \/ \E q \in Peer : DetectStale(p, q)
                  \/ Receive(p)
                  \/ BeginResolve(p)
                  \/ ResolveCell(p)
                  \/ EndResolve(p)
                  \/ Act(p)

Spec == Init /\ [][Next]_vars
-----------------------------------------------------------------------------
\* A round is numbered above every round its peer has applied, so the
\* duplicate guard of apply_round, which only looks at the number, never
\* discards the decision a peer has just taken and published.  The guard and
\* the counter are two variables that only sync_round_id keeps apart.
OwnRoundsApply ==
  [][\A k \in decided' \ decided : \A id \in processed[k.by] : id < k.id]_vars

\* A peer never numbers two rounds alike, contest or release, with other peers'
\* rounds pushing its counter forward in between (_round_id, sync_round_id).
OwnIdsDiffer ==
  \A k, l \in decided : k.by = l.by /\ k.id = l.id => k = l

\* A peer holds itself dead, and so falls silent for ever, only after another
\* peer released its cell: no suspicion, state message or loss brings it there.
DeadByRelease ==
  \A p \in Peer : ~view[p][p].alive => \E k \in decided : k.released = p /\ k.by # p

\* When resolve_pending_claims returns, no claim is left that was due: each
\* one was resolved, evicted by another round on its cell, or had expired.
NoOverdueClaim ==
  \A p \in Peer : phase[p] = "act" => \A c \in pending[p] : now[p] < c.ts + Delay(p)

\* A drone's own claim leaves _pending_claims only because its peer resolved it
\* or applied a round for the same cell.  Delay and expiry follow the tick's
\* length of the moment, so one thing makes it expire undecided: with the longer
\* delay of foxmq, the control file shortens the tick by more than a third.
OwnClaimDecided ==
  [][\A p \in Peer : \A c \in pending[p] \ pending'[p] :
       c.drone = p => \/ c \in resolved[p] \cup resolved'[p]
                      \/ processed'[p] # processed[p]
                      \/ Transport = "foxmq" /\ 2 * lastTick[p] > 3 * tick[p]]_vars

\* A drone takes up a cell only by applying a round for the first time: neither
\* a state message, nor a rejoin, nor a round applied twice hands it one.
CellOnlyByRound ==
  [][\A p \in Peer : view'[p][p].cell \notin {None, view[p][p].cell}
                      => processed'[p] # processed[p]]_vars

Sharing(p, q) ==
  p # q /\ Working(p) /\ Working(q) /\ view[p][p].cell = view[q][q].cell

\* Two active drones work on one cell only as the two halves of a split.
Exclusive ==
  \A p, q \in Peer : Sharing(p, q) => {part[p], part[q]} = {"left", "right"}

\* The same for cells that were contested and won, not handed to a loser as its
\* fallback: no two active drones think they won one cell.
WinnersExclusive ==
  \A p, q \in Peer : Sharing(p, q) => \/ "fallback" \in {part[p], part[q]}
                                      \/ {part[p], part[q]} = {"left", "right"}
=============================================================================
