---------------------------- MODULE MCLiveControl ----------------------------
\* Two POST threads, two GET threads, one peer; a POST changes one of two keys.
EXTENDS LiveControl, TLC

Two == {1, 2}
OneKey == {k :> 2 : k \in Key}

\* Peers and GETs have nothing in common but the file they read, and to a GET
\* overlapping POSTs are only changes of the file: a behaviour has one of these.
Apart ==
  \/ cache' = 0 /\ get' = [r \in Reader |-> NoGet]
  \/ seen' = [p \in Peer |-> 0] /\ ~overlap'
=============================================================================
