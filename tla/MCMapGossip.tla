---------------------------- MODULE MCMapGossip ----------------------------
(***************************************************************************)
(* Three peers and a cell.  One search finishes the cell if it comes after *)
(* one decay; after two it leaves the cell a rounding short of that.  Two  *)
(* peers search, one of them for a second tick; the third listens, merges  *)
(* what it heard of both, and may rejoin the mesh.                         *)
(***************************************************************************)
EXTENDS MapGossip, TLC
CONSTANTS p1, p2, p3

\* What four digits tell apart: every third value.
ToThirds == [v \in 0 .. Top |-> ((v + 1) \div 3) * 3]

\* Bounds: who searches and for how many ticks, the messages under way, and no
\* tick before everybody has started.
TwoSearch ==
  /\ Cardinality(net') <= 6
  /\ searched'[p3] = {}
  /\ clock'[p2] <= 1 /\ clock'[p3] <= 1
  /\ clock' # clock => \A p \in Peer : phase[p] # "boot"
=============================================================================
