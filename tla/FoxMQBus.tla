------------------------------ MODULE FoxMQBus ------------------------------
(***************************************************************************)
(* FoxMQMeshBus of core/mesh.py: a bus over an MQTT client.  Three kinds   *)
(* of threads share its fields: the peer's own ("main": publish, connect,  *)
(* close), the client's network loop ("loop": the callbacks) and the       *)
(* reconnect timers.  Only the seen ids have a lock; _reconnect_scheduled, *)
(* _reconnect_attempts and _reconnect_timer are read and written without.  *)
(*                                                                         *)
(* The MQTT client and the broker are modelled by what the callbacks allow: *)
(* a connection opens, is accepted, refused or dropped, the loop may open   *)
(* it again by itself, and with qos 1 a message may come more than once.    *)
(* The back-off delays are left out: an armed timer may fire at any time.   *)
(* HMAC signing, rate limiting and topics other than swarm/# are left out.  *)
(***************************************************************************)
EXTENDS Integers, Sequences, FiniteSets

CONSTANTS
  Foreign,       \* ids of messages other peers publish
  Own,           \* ids of messages this peer publishes
  SeenCap,       \* _seen_ids_cap
  MaxAttempts,   \* _RECONNECT_MAX_ATTEMPTS
  Timer,         \* bound: names of timers, re-used
  MaxLog         \* bound: messages the bus remembers

ASSUME FoxMQBusAssumption ==
  /\ SeenCap \in Nat \ {0} /\ MaxAttempts \in Nat \ {0} /\ MaxLog \in Nat
  /\ Foreign \cap Own = {}
  /\ {"main", "loop", "none"} \cap Timer = {} /\ IsFiniteSet(Timer)

VARIABLES
  link,        \* the client's connection
  connected,   \* _connected
  closing,     \* _closing
  client,      \* is _client not None
  looping,     \* does the client's loop run
  attempts,    \* _reconnect_attempts
  scheduled,   \* _reconnect_scheduled
  timerRef,    \* _reconnect_timer
  pc,          \* what each thread is about to do
  hand,        \* the message a thread is working on
  log,         \* history: ids in the order _remember put them into the inbox
  seen,        \* _seen_order, whose members are _seen_message_ids
  offered,     \* messages the broker has for this peer
  owed,        \* history: a reconnect was asked for, not given up, not achieved
  crashed      \* history: a thread died between making a timer and starting it

conn == <<link, connected, looping>>
retry == <<attempts, scheduled, timerRef, owed, crashed>>
ids == <<hand, log, seen, offered>>
vars == <<conn, retry, ids, closing, client, pc>>

Thread == {"main", "loop"} \cup Timer
Id == Foreign \cup Own

\* Every variable keeps its type.  The attempts may pass their limit: any number
\* of threads may read the counter before one of them raises it, all but the one.
TypeOK ==
  /\ link \in {"down", "opening", "up"}
  /\ {connected, closing, client, looping, scheduled, owed, crashed} \subseteq BOOLEAN
  /\ attempts \in 0 .. MaxAttempts + Cardinality(Thread) - 1
  /\ timerRef \in Timer \cup {"none"}
  /\ pc \in [Thread -> {"idle", "dial", "mark", "send", "closing", "cancel", "forget",
                        "forgotten", "dropped", "store", "note", "check", "test", "flag",
                        "count", "make", "daemon", "start", "made", "cancelled", "armed",
                        "unset", "ask", "call"}]
  /\ hand \in [{"main", "loop"} -> Id \cup {"none"}]
  /\ log \in Seq(Id) /\ Len(log) <= MaxLog
  /\ seen \in Seq(Id) /\ Len(seen) <= SeenCap
  /\ offered \subseteq Id

-----------------------------------------------------------------------------
\* __init__ with lazy_connect: nothing is dialled yet.
Init ==
  /\ link = "down" /\ connected = FALSE /\ looping = FALSE
  /\ attempts = 0 /\ scheduled = FALSE /\ timerRef = "none" /\ owed = FALSE
  /\ crashed = FALSE
  /\ hand = [t \in {"main", "loop"} |-> "none"] /\ log = << >> /\ seen = << >>
  /\ offered = Foreign
  /\ closing = FALSE /\ client = TRUE
  /\ pc = [t \in Thread |-> "idle"]

Goto(t, place) == pc' = [pc EXCEPT ![t] = place]

-----------------------------------------------------------------------------
\* _schedule_reconnect, called in any thread, line by line: the limit, ...
Check(t) ==
  /\ pc[t] = "check"
  /\ Goto(t, IF attempts >= MaxAttempts THEN "idle" ELSE "test")
  /\ owed' = (owed /\ attempts < MaxAttempts)
  /\ UNCHANGED <<conn, attempts, scheduled, timerRef, crashed, ids, closing, client>>

\* ... the test of the flag, ...
Test(t) ==
  /\ pc[t] = "test"
  /\ Goto(t, IF scheduled THEN "idle" ELSE "flag")
  /\ UNCHANGED <<conn, retry, ids, closing, client>>

\* ... the flag, whatever happened in between, ...
Flag(t) ==
  /\ pc[t] = "flag"
  /\ scheduled' = TRUE
  /\ Goto(t, "count")
  /\ UNCHANGED <<conn, attempts, timerRef, owed, crashed, ids, closing, client>>

\* ... the counter, ...
Count(t) ==
  /\ pc[t] = "count"
  /\ attempts' = attempts + 1
  /\ Goto(t, "make")
  /\ UNCHANGED <<conn, scheduled, timerRef, owed, crashed, ids, closing, client>>

\* ... a new timer, put into the field, ...
Make(t) ==
  /\ pc[t] = "make"
  /\ \E n \in Timer :
       /\ pc[n] = "idle"
       /\ pc' = [pc EXCEPT ![t] = "daemon", ![n] = "made"]
       /\ timerRef' = n
  /\ UNCHANGED <<conn, attempts, scheduled, owed, crashed, ids, closing, client>>

\* The field names a timer that was not started yet.
Startable == timerRef \in Timer /\ pc[timerRef] \in {"made", "cancelled"}

\* What is read from the field is None, or a timer another thread has started:
\* the thread dies of the exception, and the client's loop with it unless the
\* client swallows it.
Dies(t) ==
  /\ Goto(t, "idle")
  /\ crashed' = TRUE
  /\ looping' \in IF t = "loop" THEN {looping, FALSE} ELSE {looping}
  /\ UNCHANGED <<link, connected, attempts, scheduled, timerRef, owed, ids, closing, client>>

\* ... made a daemon through the field, ...
Daemon(t) ==
  /\ pc[t] = "daemon"
  /\ \/ ~Startable /\ Dies(t)
     \/ Startable /\ Goto(t, "start") /\ UNCHANGED <<conn, retry, ids, closing, client>>

\* ... and started through the field: a timer that close() has cancelled ends at once.
Start(t) ==
  /\ pc[t] = "start"
  /\ \/ ~Startable /\ Dies(t)
     \/ /\ Startable
        /\ pc' = [pc EXCEPT ![t] = "idle",
                            ![timerRef] = IF pc[timerRef] = "made" THEN "armed" ELSE "idle"]
        /\ UNCHANGED <<conn, retry, ids, closing, client>>

\* The flag left up, when a failed reconnect is to be scheduled.
Fire_KeepsFlag(t) ==
  /\ pc[t] = "armed"
  /\ Goto(t, "unset")
  /\ UNCHANGED <<conn, retry, ids, closing, client>>

\* _do_reconnect in the timer's thread: the flag, ...
Fire(t) ==
  /\ pc[t] = "armed"
  /\ scheduled' = FALSE
  /\ Goto(t, "unset")
  /\ UNCHANGED <<conn, attempts, timerRef, owed, crashed, ids, closing, client>>

\* ... the field, ...
Unset(t) ==
  /\ pc[t] = "unset"
  /\ timerRef' = "none"
  /\ Goto(t, "ask")
  /\ UNCHANGED <<conn, attempts, scheduled, owed, crashed, ids, closing, client>>

\* ... and the test of _client and _closing.
Ask(t) ==
  /\ pc[t] = "ask"
  /\ Goto(t, IF client /\ ~closing THEN "call" ELSE "idle")
  /\ UNCHANGED <<conn, retry, ids, closing, client>>

\* client.reconnect() gets through, fails and is scheduled again, or finds that
\* close() has just taken the client away: the thread dies of that.
Reconnect(t) ==
  /\ pc[t] = "call"
  /\ \/ client /\ link' = "opening" /\ Goto(t, "idle")
     \/ client /\ link' = "down" /\ Goto(t, "check")
     \/ ~client /\ UNCHANGED link /\ Goto(t, "idle")
  /\ UNCHANGED <<connected, looping, retry, ids, closing, client>>

-----------------------------------------------------------------------------
\* connect(): returns at once on a set flag, raises if nobody answers.
Connect ==
  /\ pc["main"] = "idle" /\ client /\ ~closing /\ ~connected
  /\ link' = "opening" /\ looping' = TRUE
  /\ Goto("main", "dial")
  /\ UNCHANGED <<connected, retry, ids, closing, client>>

\* The wait ends with the flag set by the callback or, after half a second, set
\* here although nothing was confirmed.
Connected ==
  /\ pc["main"] = "dial"
  /\ connected' = TRUE
  /\ attempts' = 0
  /\ Goto("main", "idle")
  /\ UNCHANGED <<link, looping, scheduled, timerRef, owed, crashed, ids, closing, client>>

\* _on_connect with success
OnConnect ==
  /\ looping /\ pc["loop"] = "idle" /\ link = "opening"
  /\ link' = "up" /\ connected' = TRUE /\ attempts' = 0 /\ owed' = FALSE
  /\ UNCHANGED <<looping, scheduled, timerRef, crashed, ids, closing, client, pc>>

\* _on_connect with a refusal: the client then reports the disconnection.
OnRefused ==
  /\ looping /\ pc["loop"] = "idle" /\ link = "opening"
  /\ link' = "down" /\ connected' = FALSE
  /\ Goto("loop", "dropped")
  /\ UNCHANGED <<looping, retry, ids, closing, client>>

Drop ==
  /\ looping /\ pc["loop"] = "idle" /\ link \in {"opening", "up"}
  /\ link' = "down"
  /\ Goto("loop", "dropped")
  /\ UNCHANGED <<connected, looping, retry, ids, closing, client>>

\* _on_disconnect: after a clean one, or while closing, nothing is scheduled.
OnDisconnect ==
  /\ pc["loop"] = "dropped"
  /\ connected' = FALSE
  /\ \E clean \in BOOLEAN :
       IF clean \/ closing
         THEN Goto("loop", "idle") /\ owed' = FALSE
         ELSE Goto("loop", "check") /\ owed' = TRUE
  /\ UNCHANGED <<link, looping, attempts, scheduled, timerRef, crashed, ids, closing,
                 client>>

\* The client's loop opens a lost connection by itself.
LoopReopens ==
  /\ looping /\ pc["loop"] = "idle" /\ link = "down"
  /\ link' = "opening"
  /\ UNCHANGED <<connected, looping, retry, ids, closing, client, pc>>

-----------------------------------------------------------------------------
\* The window is cut one id too late.
Within_OffByOne(s) == IF Len(s) > SeenCap + 1 THEN Tail(s) ELSE s

Within(s) == IF Len(s) > SeenCap THEN Tail(s) ELSE s

Known(m) == \E i \in 1 .. Len(seen) : seen[i] = m

\* publish: into the own inboxes first ...
Publish(m) ==
  /\ pc["main"] = "idle" /\ Len(log) < MaxLog
  /\ \A i \in 1 .. Len(log) : log[i] # m
  /\ log' = Append(log, m)
  /\ hand' = [hand EXCEPT !["main"] = m]
  /\ Goto("main", "mark")
  /\ UNCHANGED <<conn, retry, seen, offered, closing, client>>

MarkOwn_NotSeen ==
  /\ pc["main"] = "mark"
  /\ Goto("main", IF client /\ connected THEN "send" ELSE "idle")
  /\ UNCHANGED <<conn, retry, ids, closing, client>>

\* ... then among the seen ids, because the broker sends it back, and out, if
\* the flag says so.
MarkOwn ==
  /\ pc["main"] = "mark"
  /\ seen' = Within(Append(seen, hand["main"]))
  /\ Goto("main", IF client /\ connected THEN "send" ELSE "idle")
  /\ UNCHANGED <<conn, retry, hand, log, offered, closing, client>>

\* client.publish is accepted, or raises: the caller gets MeshPublishError once
\* a reconnect is scheduled.
SendOut ==
  /\ pc["main"] = "send"
  /\ \/ /\ offered' = offered \cup {hand["main"]}
        /\ Goto("main", "idle")
        /\ UNCHANGED <<connected, owed>>
     \/ /\ connected' = FALSE
        /\ owed' = TRUE
        /\ Goto("main", "check")
        /\ UNCHANGED offered
  /\ hand' = [hand EXCEPT !["main"] = "none"]
  /\ UNCHANGED <<link, looping, attempts, scheduled, timerRef, crashed, log, seen, closing,
                 client>>

\* _on_message: the id is looked up under the lock, ...
OnMessage(m) ==
  /\ looping /\ link = "up" /\ pc["loop"] = "idle" /\ Len(log) < MaxLog
  /\ ~Known(m)
  /\ hand' = [hand EXCEPT !["loop"] = m]
  /\ Goto("loop", "store")
  /\ UNCHANGED <<conn, retry, log, seen, offered, closing, client>>

\* ... the message is remembered without it, ...
Store ==
  /\ pc["loop"] = "store"
  /\ Len(log) < MaxLog
  /\ log' = Append(log, hand["loop"])
  /\ Goto("loop", "note")
  /\ UNCHANGED <<conn, retry, hand, seen, offered, closing, client>>

\* ... and the id is added under the lock again.
Note ==
  /\ pc["loop"] = "note"
  /\ seen' = Within(Append(seen, hand["loop"]))
  /\ hand' = [hand EXCEPT !["loop"] = "none"]
  /\ Goto("loop", "idle")
  /\ UNCHANGED <<conn, retry, log, offered, closing, client>>

-----------------------------------------------------------------------------
\* close(): the flag, ...
Close ==
  /\ pc["main"] = "idle" /\ client
  /\ closing' = TRUE
  /\ Goto("main", "closing")
  /\ UNCHANGED <<conn, retry, ids, client>>

\* ... the test of the timer's field, ...
FindTimer ==
  /\ pc["main"] = "closing"
  /\ Goto("main", IF timerRef # "none" THEN "cancel" ELSE "forgotten")
  /\ UNCHANGED <<conn, retry, ids, closing, client>>

\* ... the timer it names by now: close() dies if that is None, a timer that
\* has fired already goes on, ...
CancelTimer ==
  /\ pc["main"] = "cancel"
  /\ pc' = [t \in Thread |->
              IF t = "main" THEN IF timerRef = "none" THEN "idle" ELSE "forget"
              ELSE IF t # timerRef THEN pc[t]
              ELSE CASE pc[t] = "armed" -> "idle"
                     [] pc[t] = "made" -> "cancelled"
                     [] OTHER -> pc[t]]
  /\ UNCHANGED <<conn, retry, ids, closing, client>>

\* ... its field, ...
ForgetTimer ==
  /\ pc["main"] = "forget"
  /\ timerRef' = "none"
  /\ Goto("main", "forgotten")
  /\ UNCHANGED <<conn, attempts, scheduled, owed, crashed, ids, closing, client>>

\* ... and the client; its loop is stopped only if the flag is set.
Closed ==
  /\ pc["main"] = "forgotten"
  /\ connected => pc["loop"] = "idle"
  /\ link' = IF connected THEN "down" ELSE link
  /\ looping' = (looping /\ ~connected)
  /\ connected' = FALSE
  /\ client' = FALSE
  /\ Goto("main", "idle")
  /\ UNCHANGED <<retry, ids, closing>>

-----------------------------------------------------------------------------
Next ==
  \/ \E t \in Thread : \/ Check(t) \/ Test(t) \/ Flag(t) \/ Count(t)
                        \/ Make(t) \/ Daemon(t) \/ Start(t)
                        \/ Fire(t) \/ Unset(t) \/ Ask(t) \/ Reconnect(t)
  \/ Connect \/ Connected \/ OnConnect \/ OnRefused \/ Drop \/ OnDisconnect \/ LoopReopens
  \/ \E m \in Own : Publish(m)
  \/ MarkOwn \/ SendOut
  \/ \E m \in offered : OnMessage(m)
  \/ Store \/ Note
  \/ Close \/ FindTimer \/ CancelTimer \/ ForgetTimer \/ Closed

Spec == Init /\ [][Next]_vars

-----------------------------------------------------------------------------
\* On the way to a reconnect, or to a timer for one.
Underway == {"dropped", "check", "test", "flag", "count", "make", "daemon", "start",
             "unset", "ask", "call"}

Busy == \E t \in Thread : pc[t] \in Underway

\* An unexpected disconnection or a failed publish leaves the bus without a way
\* back (a timer armed, or a thread on its way to one, until the connection is
\* opened, given up or closed) for one reason only: a thread has died between
\* making a timer and starting it, because another one changed _reconnect_timer.
\* Everything else the threads do to the unlocked flag and counter is harmless.
WayBack ==
  owed /\ link = "down" /\ client /\ ~closing /\ ~Busy =>
    crashed \/ \E t \in Timer : pc[t] = "armed"

\* A message enters the inbox again only after SeenCap - 1 others: the own ones,
\* which the broker sends back, included.  One less than the window, because a
\* message is remembered before its id is, and another thread may come between.
OnceInWindow ==
  \A i, j \in 1 .. Len(log) :
    i < j /\ log[i] = log[j] => Cardinality({log[k] : k \in i + 1 .. j - 1}) >= SeenCap - 1
=============================================================================
