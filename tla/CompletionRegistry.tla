------------------------ MODULE CompletionRegistry ------------------------
(***************************************************************************)
(* What the peers promise each other about finished cells: a cell is       *)
(* finished because somebody searched it to the completion certainty, or   *)
(* to within what rounding takes away of it, a peer learns only of         *)
(* finished cells, and nobody forgets one.                                 *)
(***************************************************************************)
CONSTANTS Peer, Cell

VARIABLES
  done,   \* cells somebody has finished, as far as anybody can tell
  known   \* known[p]: the cells p holds finished, completed_cells

vars == <<done, known>>

Init == done = {} /\ known = [p \in Peer |-> {}]

Finish(p, c) ==
  /\ done' = done \cup {c}
  /\ known' = [known EXCEPT ![p] = @ \cup {c}]

\* Left a rounding short: finished for whoever is told, not for the searcher.
Approach(c) ==
  /\ done' = done \cup {c}
  /\ UNCHANGED known

Learn(p, C) ==
  /\ C \subseteq done
  /\ known' = [known EXCEPT ![p] = @ \cup C]
  /\ UNCHANGED done

Next ==
  \/ \E p \in Peer : \/ \E c \in Cell : Finish(p, c)
                     \/ \E C \in SUBSET Cell : Learn(p, C)
  \/ \E c \in Cell : Approach(c)

Spec == Init /\ [][Next]_vars
=============================================================================
