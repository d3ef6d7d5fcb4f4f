----------------------------- MODULE MapGossip -----------------------------
(***************************************************************************)
(* How the peers share their certainty maps (core/certainty.py, the map    *)
(* part of simulation/mesh_handler.py and simulation/runtime.py).  A peer  *)
(* searches its own map, keeps a copy of every other peer's map, lets both *)
(* decay, and merges them by timestamp into the map it chooses zones from. *)
(*                                                                         *)
(* A peer's clock counts its own ticks, so the clocks of two peers differ  *)
(* by when they started and how fast they run: ticks interleave freely.    *)
(* Messages are delayed, reordered and lost.  Certainty is a natural, in a *)
(* unit finer than the four digits that to_rows keeps of it, and a decay   *)
(* takes a fixed amount away.  visited_cells is left out: the code of      *)
(* completed_cells with a lower threshold.  Which cell is searched is      *)
(* PeerClaims' subject.                                                    *)
(***************************************************************************)
EXTENDS Integers, FiniteSets, FiniteSetsExt

CONSTANTS
  Peer, Cell,
  Half,        \* _VISITED_THRESHOLD: the certainty of a cell nobody searched
  Done,        \* completion_certainty
  Top,         \* certainty 1.0
  Rounded,     \* Rounded[v]: what to_rows makes of the certainty v
  Decay,       \* decay_rate
  Increment,   \* search_increment
  Interval,    \* map_publish_interval
  Rejoining,   \* peers with a failure plan, which may rejoin the mesh
  MaxClock,    \* bound: ticks of a peer
  MaxLost,     \* bound: messages lost
  None         \* no map

ASSUME MapGossipAssumption ==
  /\ IsFiniteSet(Peer) /\ IsFiniteSet(Cell)
  /\ {Half, Done, Top} \subseteq Nat
  /\ {Increment, Interval} \subseteq Nat \ {0}
  /\ {MaxClock, MaxLost, Decay} \subseteq Nat
  /\ Half < Done /\ Done <= Top
  /\ Rejoining \subseteq Peer
  /\ Rounded \in [0 .. Top -> 0 .. Top]
  /\ \A v, w \in 0 .. Top : v <= w => Rounded[v] <= Rounded[w]
  /\ \A v \in 0 .. Top : Rounded[Rounded[v]] = Rounded[v]
  /\ Rounded[Half] = Half
  /\ None \notin [Cell -> [val : 0 .. Top, stamp : 0 .. MaxClock]]

VARIABLES
  clock,       \* now_ms, in ticks
  phase,       \* "boot", "receive": after decay, "idle": between ticks
  local,       \* local_map
  copy,        \* copy[p][q]: peer_maps[q] of p
  completed,   \* completed_cells
  snapshot,    \* _last_snapshot_rows
  net,         \* messages sent and neither processed nor lost
  lost,        \* how many were lost
  found,       \* history: the cells somebody searched to completion
  shown,       \* history: the same and those left so near to it that rounding shows it
  searched     \* history: the cells each peer searched

history == <<found, shown, searched>>
vars == <<clock, phase, local, copy, completed, snapshot, net, lost, history>>

Entry == [val : 0 .. Top, stamp : 0 .. MaxClock]
Map == [Cell -> Entry]
Rows(m) == DOMAIN m.rows \subseteq Cell /\ m.rows \in [DOMAIN m.rows -> Entry]
Others(p) == Peer \ {p}

\* Every variable keeps its type: a merged or decayed entry is an entry.
TypeOK ==
  /\ clock \in [Peer -> 0 .. MaxClock]
  /\ phase \in [Peer -> {"boot", "receive", "idle"}]
  /\ local \in [Peer -> Map]
  /\ copy \in [Peer -> [Peer -> Map \cup {None}]]
  /\ completed \in [Peer -> SUBSET Cell]
  /\ snapshot \in [Peer -> Map \cup {None}]
  /\ \A m \in net : m.to \in Peer /\ m.from \in Others(m.to) /\ Rows(m)
  /\ lost \in 0 .. MaxLost
  /\ found \subseteq Cell
  /\ shown \subseteq Cell
  /\ searched \in [Peer -> SUBSET Cell]

-----------------------------------------------------------------------------
\* On a tie in time the last one wins.
Supersedes_TieToNew(new, old) == new.stamp >= old.stamp

\* The test of merge_timestamped_from: `new` replaces `old`.
Supersedes(new, old) ==
  \/ new.stamp > old.stamp
  \/ new.stamp = old.stamp /\ new.val > old.val

Newer(old, new) == IF Supersedes(new, old) THEN new ELSE old

\* The map m after rows were merged into it.
Merge(m, rows) ==
  [c \in Cell |-> IF c \in DOMAIN rows THEN Newer(m[c], rows[c]) ELSE m[c]]

Fresh(t) == [c \in Cell |-> [val |-> Half, stamp |-> t]]

\* set_certainty without clamp_certainty: a decay of more than there is left.
Decayed_NoClamp(m, t) ==
  [c \in Cell |-> [val |-> m[c].val - Decay, stamp |-> t]]

Decayed(m, t) ==
  [c \in Cell |-> [val |-> IF m[c].val > Decay THEN m[c].val - Decay ELSE 0, stamp |-> t]]

Searched(e, t) ==
  [val |-> IF e.val + Increment > Top THEN Top ELSE e.val + Increment, stamp |-> t]

\* recompute_merged_map: certainty_map, the map zones are chosen from.
Merged(p) ==
  FoldSet(LAMBDA q, m : Merge(m, copy[p][q]), local[p],
          {q \in Others(p) : copy[p][q] # None})

-----------------------------------------------------------------------------
Init ==
  /\ clock = [p \in Peer |-> 0]
  /\ phase = [p \in Peer |-> "boot"]
  /\ local = [p \in Peer |-> Fresh(0)]
  /\ copy = [p \in Peer |-> [q \in Peer |-> None]]
  /\ completed = [p \in Peer |-> {}]
  /\ snapshot = [p \in Peer |-> None]
  /\ net = {}
  /\ lost = 0
  /\ found = {}
  /\ shown = {}
  /\ searched = [p \in Peer |-> {}]

\* to_rows: what is kept of a map for the others, and for the next comparison.
ToRows(m) == [c \in Cell |-> [m[c] EXCEPT !.val = Rounded[@]]]

\* The whole grid the first time, then the cells changed since the last time.
Changed(last, m) ==
  IF last = None THEN m ELSE [c \in {d \in Cell : m[d] # last[d]} |-> m[c]]

\* The merged map published instead of the own.
Published_Merged(p, m) == Merge(Merged(p), m)

\* publish_local_map_snapshot: the map m of p as the others and the next
\* comparison get it.
Published(p, m) == m

ToAll(p, rows, single) ==
  {[to |-> q, from |-> p, rows |-> rows, single |-> single] :
     q \in IF DOMAIN rows = {} THEN {} ELSE Others(p)}

Bootstrap(p) ==
  /\ phase[p] = "boot"
  /\ net' = net \cup ToAll(p, ToRows(local[p]), FALSE)
  /\ snapshot' = [snapshot EXCEPT ![p] = ToRows(local[p])]
  /\ phase' = [phase EXCEPT ![p] = "idle"]
  /\ UNCHANGED <<clock, local, copy, completed, lost, history>>

\* The first part of tick(): publish the map if it is time or the peer has just
\* rejoined, then let the own map decay and the copies of the peers held reachable.
Tick(p) ==
  /\ phase[p] = "idle" /\ clock[p] < MaxClock
  /\ LET now == clock[p] + 1 IN
     /\ clock' = [clock EXCEPT ![p] = now]
     /\ \/ /\ now % Interval = 0 \/ p \in Rejoining
           /\ LET rows == ToRows(Published(p, local[p])) IN
              /\ net' = net \cup ToAll(p, Changed(snapshot[p], rows), FALSE)
              /\ snapshot' = [snapshot EXCEPT ![p] = rows]
        \/ now % Interval # 0 /\ UNCHANGED <<net, snapshot>>
     /\ local' = [local EXCEPT ![p] = Decayed(@, now)]
     /\ \E reachable \in SUBSET Others(p) :
          copy' = [copy EXCEPT ![p] =
            [q \in Peer |-> IF q \in reachable /\ @[q] # None
                            THEN Decayed(@[q], now) ELSE @[q]]]
  /\ phase' = [phase EXCEPT ![p] = "receive"]
  /\ UNCHANGED <<completed, lost, history>>

Finished(rows) == {c \in DOMAIN rows : rows[c].val >= Done}

\* Who sees rows with such a certainty, before or after rounding, counts the cell
\* as finished.
Showing(rows) ==
  {c \in DOMAIN rows : rows[c].val >= Done \/ Rounded[rows[c].val] >= Done}

\* ensure_peer_map
Held(p, q) == IF copy[p][q] = None THEN Fresh(clock[p]) ELSE copy[p][q]

\* The completion test made only for an entry that was merged.
Learned_IfMerged(p, m) == Finished(Merge(Held(p, m.from), m.rows))

\* The completion test made against the threshold of visited_cells.
Learned_Visited(p, m) == {c \in DOMAIN m.rows : m.rows[c].val >= Half}

\* A single update counts as it was sent, a grid as it was merged.
Learned(p, m) ==
  IF m.single THEN Finished(m.rows) ELSE Finished(Merge(Held(p, m.from), m.rows))

\* handle_certainty_update
HandleUpdate(p, m) ==
  /\ phase[p] = "receive" /\ m.to = p
  /\ copy' = [copy EXCEPT ![p][m.from] = Merge(Held(p, m.from), m.rows)]
  /\ completed' = [completed EXCEPT ![p] = @ \cup Learned(p, m)]
  /\ net' = net \ {m}
  /\ UNCHANGED <<clock, phase, local, snapshot, lost, history>>

\* _move_and_search on its cell: search, report the cell as it is, publish the
\* map rounded.
Search(p, c) ==
  /\ phase[p] = "receive"
  /\ LET entry == Searched(local[p][c], clock[p])
         after == [local[p] EXCEPT ![c] = entry]
         one == [d \in {c} |-> entry]
         rows == ToRows(Published(p, after)) IN
     /\ local' = [local EXCEPT ![p] = after]
     /\ net' = net \cup ToAll(p, one, TRUE)
                   \cup ToAll(p, Changed(snapshot[p], rows), FALSE)
     /\ snapshot' = [snapshot EXCEPT ![p] = rows]
     /\ completed' = [completed EXCEPT ![p] = @ \cup Finished(one)]
     /\ found' = found \cup Finished(one)
     /\ shown' = shown \cup Showing(one)
     /\ searched' = [searched EXCEPT ![p] = @ \cup {c}]
  /\ phase' = [phase EXCEPT ![p] = "idle"]
  /\ UNCHANGED <<clock, copy, lost>>

\* A tick without a search; after the last one of the bound a peer still receives.
EndTick(p) ==
  /\ phase[p] = "receive" /\ clock[p] < MaxClock
  /\ phase' = [phase EXCEPT ![p] = "idle"]
  /\ UNCHANGED <<clock, local, copy, completed, snapshot, net, lost, history>>

Lose(m) ==
  /\ lost < MaxLost
  /\ lost' = lost + 1
  /\ net' = net \ {m}
  /\ UNCHANGED <<clock, phase, local, copy, completed, snapshot, history>>

Next ==
  \/ \E p \in Peer :
       \/ Bootstrap(p) \/ Tick(p) \/ EndTick(p)
       \/ \E c \in Cell : Search(p, c)
       \/ \E m \in net : HandleUpdate(p, m)
  \/ \E m \in net : Lose(m)

Spec == Init /\ [][Next]_vars

-----------------------------------------------------------------------------
\* The merged map holds, for every cell, one of the entries it is made of, and
\* one none of the others supersedes: the order in which copies are merged,
\* that is the order in which peers were first heard of, does not matter.
MergedIsLatest ==
  \A p \in Peer, c \in Cell :
    LET sources == {local[p][c]} \cup
          {copy[p][q][c] : q \in {r \in Others(p) : copy[p][r] # None}}
        m == Merged(p)[c] IN
    /\ m \in sources
    /\ \A e \in sources : e.stamp < m.stamp \/ (e.stamp = m.stamp /\ e.val <= m.val)

\* completed_cells is a completion registry: every cell a peer holds finished was
\* searched to completion by somebody, or so far that rounding shows it, and none
\* is ever forgotten, though the certainty itself decays below the threshold at
\* the next tick and copies are overwritten by older messages of a peer whose
\* clock is ahead.
Registry == INSTANCE CompletionRegistry WITH done <- shown, known <- completed
RegistrySpec == Registry!Spec

\* When everything sent has been processed and nothing was lost, all peers hold
\* the same cells finished, however far their clocks are apart and whatever
\* their copies show by then; they may differ only over a cell that was left a
\* rounding short of completion, which the searcher itself does not hold finished.
QuiescentAgreement ==
  net = {} /\ lost = 0 =>
    \A p, q \in Peer : completed[p] \ completed[q] \subseteq shown \ found

\* A peer's copy of another's map shows a cell above its initial certainty only
\* if that other peer searched the cell itself: what a peer was told by others
\* never comes back to them as its own finding.
NoEcho ==
  \A p \in Peer, c \in Cell : \A q \in Others(p) :
    copy[p][q] # None /\ copy[p][q][c].val > Half => c \in searched[q]
=============================================================================
