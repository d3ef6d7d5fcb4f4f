----------------------------- MODULE MCFoxMQBus -----------------------------
\* One message of another peer, two own ones, a window of two ids, two timers.
EXTENDS FoxMQBus, TLC

\* The names of the timers are interchangeable, and so are the own messages.
Alike == Permutations(Timer) \cup Permutations(Own)

\* A bound: reconnects are scheduled while the inbox holds one message at most.
EarlyLosses == \A t \in Thread : pc[t] = "check" /\ pc'[t] # "check" => Len(log) <= 1

\* The runtime closes its bus once, at the end: it publishes nothing after
\* that, and nothing that happens when close() has returned is explored.
NothingAfterClose == closing => ~(pc["main"] = "idle" /\ pc'["main"] = "mark")
Open == client
=============================================================================
