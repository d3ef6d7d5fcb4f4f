----------------------------- MODULE MCStubSim -----------------------------
(***************************************************************************)
(* A small instance of StubSim for TLC.                                    *)
(***************************************************************************)
EXTENDS StubSim

Four == {1, 2, 3, 4}
Three == {1, 2, 3}
NearFar == {0, 1}

\* The beats of the third drone may be lost to everybody for a second, as long as
\* the timeout, and to the first drone for good: when the second is off the mesh
\* the first is one of two observers, and a majority is both.
ThirdIsFaint ==
  [o \in Three |-> [d \in Three |-> IF d # 3 THEN 0 ELSE IF o = 1 THEN 2 ELSE 1]]

\* A bound on losses: they begin when the second drone is off, and a beat of the
\* third is lost on its way to the first only or, as in a lost publish, to all.
OneLossOrAll ==
  step = "beat" =>
    LET missed == {o \in Drone : age'[o][3] # 0}
    IN  missed = {} \/ (now >= FailAt /\ missed \in {{1}, Drone})

\* A bound on contests: the first drone that claims a cell is as near as any.
\* The failing drone, which is the second, gets a half of the cell or a fallback.
\* Of a claim that nobody contests the distance decides nothing.
FirstIsNear ==
  \A c \in claims' : (\A d \in claims' : d.cell = c.cell => c.drone <= d.drone) => c.dist = 0
=============================================================================
