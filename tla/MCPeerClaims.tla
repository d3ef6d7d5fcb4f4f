--------------------------- MODULE MCPeerClaims ---------------------------
(***************************************************************************)
(* Small instances of PeerClaims for TLC.                                  *)
(***************************************************************************)
EXTENDS PeerClaims

Two == {1, 2}
Three == {1, 2, 3}
One == {1}
Empty == {}

(***************************************************************************)
(* Once a peer starts on its inbox, the rest of its tick only takes from   *)
(* that inbox and adds to the others', so it commutes with every step the  *)
(* others take in between: running it to the end of the tick at once loses *)
(* no state a peer can observe.                                            *)
(***************************************************************************)
RunsOut(S) ==
  \A p \in Peer : phase[p] \in S =>
    \A q \in Peer \ {p} : /\ phase'[q] = phase[q]
                          /\ view'[q] = view[q]
                          /\ net[q] \subseteq net'[q]

PollRunsOut == RunsOut({"poll", "resolve", "act"})

\* A bound: a peer makes three ticks of four seconds; only peer 1's third one may
\* be shortened to one second by the control file.
Lengths == {1, 4}
StartsLong == \A p \in Peer : now[p] = 0 => tick[p] = 4
LateChange == \A p \in Peer : tick'[p] = 4 \/ (p = 1 /\ now'[p] = 9)

(***************************************************************************)
(* Where no drone fails and none is suspected every drone stays active in  *)
(* every view: a heartbeat changes nothing and the opening of a tick does  *)
(* nothing else a peer can observe, so the whole tick can run at once,     *)
(* after the last message it takes was sent.                               *)
(***************************************************************************)
TickRunsOut == RunsOut({"watch", "poll", "resolve", "act"})

\* A bound: drone 1 is nearer to what it claims than drone 2, or as near.
FirstIsNear == \A c \in pending'[1] : c.drone = 1 => c.dist = 1

Lockstep == TickRunsOut /\ FirstIsNear

\* The history `decided` guides no step.
WithoutHistory ==
  <<now, tick, phase, health, roundId, processed, pending, resolved, released, view,
    part, net>>
=============================================================================
