--------------------------- MODULE MCQuorumRound ---------------------------
(***************************************************************************)
(* Small instances of QuorumRound for TLC: three peers, so a quorum is two.*)
(***************************************************************************)
EXTENDS QuorumRound

Three == {1, 2, 3}
Two == {1, 2}
\* One run in which the third peer may stall, one in which each may.
OneOrAll == {{3}, Three}

C(d, t, x) == [drone |-> d, cell |-> 1, ts |-> t, dist |-> x]

\* A lone claim, a tie of two, an earlier claim against nearer ones.
Offered == {{C(1, 0, 1)}, {C(2, 0, 1), C(3, 0, 1)}, {C(1, 1, 1), C(2, 0, 2), C(3, 1, 1)}}
=============================================================================
