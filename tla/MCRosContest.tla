---------------------------- MODULE MCRosContest ----------------------------
\* Three drones and as many cells: the first two could be pushed further than the
\* drones before them can push them.  The last drone may fail.
EXTENDS RosContest

Three == {1, 2, 3}
Last == {3}

\* Bound: results on their way to a drone.  Those to the last one may overtake
\* each other.
FewResults == \A d \in Drone : Cardinality(resultsIn'[d]) <= IF d = 3 THEN 2 ELSE 1
=============================================================================
