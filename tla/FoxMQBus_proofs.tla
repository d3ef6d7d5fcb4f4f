--------------------------- MODULE FoxMQBus_proofs ---------------------------
(***************************************************************************)
(* The reconnect timers of the FoxMQ bus, for any number of them, any      *)
(* limit on the attempts and any messages.  The flag _reconnect_scheduled  *)
(* is tested and set without a lock; what saves the way back is that it is *)
(* up only while a timer is armed or a thread is about to arm one, and     *)
(* cleared only by a timer's thread.  What may lose it is the field        *)
(* _reconnect_timer: a thread dies if another one changes it in between.   *)
(*                                                                         *)
(* The second half is about the window of remembered ids and the inbox.    *)
(***************************************************************************)
EXTENDS FoxMQBus, FiniteSetTheorems, TLAPS

Place == {"idle", "dial", "mark", "send", "closing", "cancel", "forget", "forgotten",
          "dropped", "store", "note", "check", "test", "flag", "count", "make", "daemon",
          "start", "made", "cancelled", "armed", "unset", "ask", "call"}

Typed ==
  /\ link \in {"down", "opening", "up"}
  /\ connected \in BOOLEAN /\ closing \in BOOLEAN /\ client \in BOOLEAN
  /\ looping \in BOOLEAN /\ scheduled \in BOOLEAN /\ owed \in BOOLEAN
  /\ crashed \in BOOLEAN
  /\ attempts \in Nat
  /\ timerRef \in Timer \cup {"none"}
  /\ pc \in [Thread -> Place]
  /\ hand \in [{"main", "loop"} -> Id \cup {"none"}]
  /\ log \in Seq(Id) /\ Len(log) <= MaxLog
  /\ seen \in Seq(Id) /\ Len(seen) <= SeenCap
  /\ offered \in SUBSET Id

\* A thread works on a message as long as it has one.
InHand ==
  /\ pc["main"] \in {"mark", "send"} => hand["main"] \in Id
  /\ pc["loop"] \in {"store", "note"} => hand["loop"] \in Id

\* The threads that passed the test of the counter and have not raised it yet.
Arming == {t \in Thread : pc[t] \in {"test", "flag", "count"}}

Limited == attempts + Cardinality(Arming) <= MaxAttempts + Cardinality(Thread) - 1

\* Between raising the flag and starting the timer.
Setting == {"count", "make", "daemon", "start"}

Armed == \E n \in Timer : pc[n] = "armed"

\* A timer stands behind the flag, or a thread that is about to start one, until
\* close() or the death of such a thread.
Backed == scheduled /\ ~closing => crashed \/ Armed \/ \E t \in Thread : pc[t] \in Setting

\* The body of WayBack, with its reason.
Returning == owed /\ link = "down" /\ client /\ ~closing => crashed \/ Busy \/ Armed

\* Inside close() the flag is up, and it is where timers are cancelled.
ClosingUp ==
  /\ pc["main"] \in {"closing", "cancel", "forget", "forgotten"} => closing
  /\ \A n \in Thread : pc[n] = "cancelled" => closing

FoxInv == Typed /\ InHand /\ Limited /\ Backed /\ Returning /\ ClosingUp

-----------------------------------------------------------------------------
LEMMA Threads ==
  /\ Timer \subseteq Thread /\ "main" \in Thread /\ "loop" \in Thread
  /\ "main" \notin Timer /\ "loop" \notin Timer
  /\ IsFiniteSet(Thread) /\ Cardinality(Thread) \in Nat /\ Cardinality(Thread) >= 1
<1>1. /\ Timer \subseteq Thread /\ "main" \in Thread /\ "loop" \in Thread
      /\ "main" \notin Timer /\ "loop" \notin Timer
  BY FoxMQBusAssumption DEF Thread
<1>2. IsFiniteSet(Thread)
  <2>1. IsFiniteSet({"main"}) /\ IsFiniteSet({"loop"}) /\ IsFiniteSet(Timer)
    BY FS_Singleton, FoxMQBusAssumption
  <2>2. IsFiniteSet({"main"} \cup {"loop"})
    BY <2>1, FS_Union
  <2>3. IsFiniteSet(({"main"} \cup {"loop"}) \cup Timer)
    BY <2>1, <2>2, FS_Union
  <2>4. Thread = ({"main"} \cup {"loop"}) \cup Timer
    BY DEF Thread
  <2>5. QED
    BY <2>3, <2>4
<1>3. Cardinality(Thread) \in Nat /\ Cardinality(Thread) # 0
  BY <1>1, <1>2, FS_CardinalityType, FS_EmptySet
<1>4. QED
  BY <1>1, <1>2, <1>3

\* What a step of one thread does to its program counter.
LEMMA Moved ==
  ASSUME Typed, NEW t \in Thread, NEW place \in Place, Goto(t, place)
  PROVE  /\ pc' \in [Thread -> Place] /\ pc'[t] = place
         /\ \A u \in Thread \ {t} : pc'[u] = pc[u]
BY DEF Typed, Goto

\* The steps of _schedule_reconnect and _do_reconnect.
Retry(t) ==
  \/ Check(t) \/ Test(t) \/ Flag(t) \/ Count(t) \/ Make(t) \/ Daemon(t) \/ Start(t)
  \/ Fire(t) \/ Unset(t) \/ Ask(t) \/ Reconnect(t)

OnTheWay == {"check", "test", "flag", "count", "make", "daemon", "start",
             "armed", "unset", "ask", "call"}

\* They move their own thread along the way, or off it, and touch no other but a
\* timer that is not running.
LEMMA RetryMoves ==
  ASSUME Typed, NEW t \in Thread, Retry(t)
  PROVE  /\ pc' \in [Thread -> Place]
         /\ pc[t] \in OnTheWay /\ pc'[t] \in (OnTheWay \cup {"idle"}) \ {"armed"}
         /\ \A u \in Thread \ {t} :
              \/ pc'[u] = pc[u]
              \/ /\ u \in Timer /\ pc[u] \in {"idle", "made", "cancelled"}
                 /\ pc'[u] \in {"idle", "made", "armed"}
         /\ UNCHANGED <<log, seen, offered, hand, closing, client>>
<1> USE DEF ids
<1>1. UNCHANGED <<log, seen, offered, hand, closing, client>>
  <2>1. CASE Check(t) \/ Test(t) \/ Flag(t) \/ Count(t) \/ Make(t)
    BY <2>1 DEF Check, Test, Flag, Count, Make
  <2>2. CASE Daemon(t) \/ Start(t)
    BY <2>2 DEF Daemon, Start, Dies
  <2>3. CASE Fire(t) \/ Unset(t) \/ Ask(t) \/ Reconnect(t)
    BY <2>3 DEF Fire, Unset, Ask, Reconnect
  <2>4. QED
    BY <2>1, <2>2, <2>3 DEF Retry
<1> DEFINE Away == (OnTheWay \cup {"idle"}) \ {"armed"}
<1>2. \/ pc[t] \in OnTheWay /\ \E place \in Away : Goto(t, place)
      \/ \E n \in Timer : /\ pc[n] = "idle" /\ pc[t] = "make"
                         /\ pc' = [pc EXCEPT ![t] = "daemon", ![n] = "made"]
      \/ \E n \in Timer : /\ pc[n] \in {"made", "cancelled"} /\ pc[t] = "start"
                         /\ \E place \in {"armed", "idle"} :
                              pc' = [pc EXCEPT ![t] = "idle", ![n] = place]
  <2>1. CASE Check(t) \/ Test(t) \/ Flag(t) \/ Count(t)
    BY <2>1 DEF Check, Test, Flag, Count, OnTheWay
  <2>2. CASE Make(t)
    BY <2>2 DEF Make
  <2>3. CASE Daemon(t)
    BY <2>3 DEF Daemon, Dies, OnTheWay
  <2>4. CASE Start(t)
    BY <2>4 DEF Start, Dies, Startable, OnTheWay
  <2>5. CASE Fire(t) \/ Unset(t) \/ Ask(t) \/ Reconnect(t)
    BY <2>5 DEF Fire, Unset, Ask, Reconnect, OnTheWay
  <2>6. QED
    BY <2>1, <2>2, <2>3, <2>4, <2>5 DEF Retry
<1>3. CASE pc[t] \in OnTheWay /\ \E place \in Away : Goto(t, place)
  BY <1>1, <1>3, Moved DEF Place, OnTheWay
<1>4. ASSUME NEW n \in Timer, pc[n] = "idle", pc[t] = "make",
             pc' = [pc EXCEPT ![t] = "daemon", ![n] = "made"]
      PROVE  /\ pc' \in [Thread -> Place] /\ pc'[t] = "daemon" /\ pc'[n] = "made"
             /\ \A u \in Thread \ {t, n} : pc'[u] = pc[u]
  BY <1>4, Threads DEF Typed, Place
<1>5. ASSUME NEW n \in Timer, NEW place \in {"armed", "idle"},
             pc[n] \in {"made", "cancelled"}, pc[t] = "start",
             pc' = [pc EXCEPT ![t] = "idle", ![n] = place]
      PROVE  /\ pc' \in [Thread -> Place] /\ pc'[t] = "idle" /\ pc'[n] = place
             /\ \A u \in Thread \ {t, n} : pc'[u] = pc[u]
  BY <1>5, Threads DEF Typed, Place
<1>6. QED
  BY <1>1, <1>2, <1>3, <1>4, <1>5 DEF OnTheWay

\* Bounding a window keeps it one.
LEMMA WithinType ==
  ASSUME Typed, NEW m \in Id
  PROVE  /\ Within(Append(seen, m)) \in Seq(Id)
         /\ Len(Within(Append(seen, m))) <= SeenCap
<1> DEFINE s == Append(seen, m)
<1>1. /\ s \in Seq(Id) /\ s # << >>
      /\ Len(s) = Len(seen) + 1 /\ Len(seen) \in Nat /\ Len(seen) <= SeenCap
      /\ SeenCap \in Nat
  <2>1. seen \in Seq(Id) /\ Len(seen) <= SeenCap /\ SeenCap \in Nat
    BY FoxMQBusAssumption DEF Typed
  <2>2. s \in Seq(Id) /\ Len(s) = Len(seen) + 1 /\ Len(seen) \in Nat
    BY <2>1
  <2> HIDE DEF s
  <2>3. s # << >>
    BY <2>2
  <2>4. QED
    BY <2>1, <2>2, <2>3
<1> HIDE DEF s
<1>2. Tail(s) \in Seq(Id) /\ Len(Tail(s)) = Len(s) - 1
  BY <1>1
<1>3. Within(s) \in Seq(Id) /\ Len(Within(s)) <= SeenCap
  BY <1>1, <1>2 DEF Within
<1>4. QED
  BY <1>3 DEF s

LEMMA InitFox == Init => FoxInv
<1> SUFFICES ASSUME Init PROVE FoxInv
  OBVIOUS
<1>1. Typed
  <2>1. log \in Seq(Id) /\ Len(log) <= MaxLog /\ seen \in Seq(Id) /\ Len(seen) <= SeenCap
    BY FoxMQBusAssumption DEF Init
  <2>2. offered \in SUBSET Id
    BY DEF Init, Id
  <2>3. QED
    BY <2>1, <2>2 DEF Init, Typed, Place
<1>2. InHand /\ Backed /\ Returning /\ ClosingUp
  BY Threads DEF Init, InHand, Backed, Returning, ClosingUp
<1>3. Limited
  <2>1. Arming = {} /\ attempts = 0
    BY DEF Init, Arming
  <2>2. QED
    BY <2>1, FS_EmptySet, Threads, FoxMQBusAssumption DEF Limited
<1>4. QED
  BY <1>1, <1>2, <1>3 DEF FoxInv
-----------------------------------------------------------------------------
LEMMA TypedNext == FoxInv /\ Next => Typed' /\ InHand'
<1> SUFFICES ASSUME FoxInv, Next PROVE Typed' /\ InHand'
  OBVIOUS
<1> USE DEF conn, retry, ids
<1>0. Typed /\ InHand
  BY DEF FoxInv
<1>1. ASSUME NEW t \in Thread, Retry(t) PROVE Typed' /\ InHand'
  <2>1. /\ pc' \in [Thread -> Place]
        /\ \A u \in {"main", "loop"} :
             pc'[u] \in {"mark", "send", "store", "note"} => pc'[u] = pc[u]
        /\ UNCHANGED <<ids, closing, client>>
    BY <1>0, <1>1, RetryMoves, Threads DEF OnTheWay
  <2>2. /\ link' \in {"down", "opening", "up"} /\ looping' \in BOOLEAN
        /\ attempts' \in Nat /\ timerRef' \in Timer \cup {"none"} /\ connected' = connected
    <3>1. CASE Check(t) \/ Test(t) \/ Flag(t) \/ Count(t) \/ Make(t)
      BY <1>0, <3>1 DEF Check, Test, Flag, Count, Make, Typed
    <3>2. CASE Daemon(t) \/ Start(t)
      BY <1>0, <3>2 DEF Daemon, Start, Dies, Typed
    <3>3. CASE Fire(t) \/ Unset(t) \/ Ask(t) \/ Reconnect(t)
      BY <1>0, <3>3 DEF Fire, Unset, Ask, Reconnect, Typed
    <3>4. QED
      BY <1>1, <3>1, <3>2, <3>3 DEF Retry
  <2>3. scheduled' \in BOOLEAN /\ owed' \in BOOLEAN /\ crashed' \in BOOLEAN
    <3>1. CASE Check(t) \/ Test(t) \/ Flag(t) \/ Count(t) \/ Make(t)
      BY <1>0, <3>1 DEF Check, Test, Flag, Count, Make, Typed
    <3>2. CASE Daemon(t) \/ Start(t)
      BY <1>0, <3>2 DEF Daemon, Start, Dies, Typed
    <3>3. CASE Fire(t) \/ Unset(t) \/ Ask(t) \/ Reconnect(t)
      BY <1>0, <3>3 DEF Fire, Unset, Ask, Reconnect, Typed
    <3>4. QED
      BY <1>1, <3>1, <3>2, <3>3 DEF Retry
  <2>4. Typed'
    BY <1>0, <2>1, <2>2, <2>3 DEF Typed
  <2>5. QED
    BY <1>0, <2>1, <2>4, Threads DEF InHand
<1>3. CASE Connect \/ Connected \/ OnConnect \/ OnRefused \/ Drop \/ LoopReopens
  <2>1. /\ link' \in {"down", "opening", "up"} /\ connected' \in BOOLEAN
        /\ looping' \in BOOLEAN /\ attempts' \in Nat
    <3>1. CASE Connect
      BY <1>0, <3>1 DEF Connect, Typed
    <3>2. CASE Connected
      BY <1>0, <3>2 DEF Connected, Typed
    <3>3. CASE OnConnect
      BY <1>0, <3>3 DEF OnConnect, Typed
    <3>4. CASE OnRefused
      BY <1>0, <3>4 DEF OnRefused, Typed
    <3>5. CASE Drop \/ LoopReopens
      BY <1>0, <3>5 DEF Drop, LoopReopens, Typed
    <3>6. QED
      BY <1>3, <3>1, <3>2, <3>3, <3>4, <3>5
  <2>2. owed' \in BOOLEAN /\ UNCHANGED <<scheduled, timerRef, crashed, ids, closing, client>>
    BY <1>0, <1>3
       DEF Connect, Connected, OnConnect, OnRefused, Drop, LoopReopens, Typed
  <2>3. \/ pc' = pc
        \/ \E t \in {"main", "loop"}, place \in {"dial", "idle", "dropped"} : Goto(t, place)
    BY <1>3 DEF Connect, Connected, OnConnect, OnRefused, Drop, LoopReopens
  <2>4. /\ pc' \in [Thread -> Place]
        /\ \A u \in {"main", "loop"} : pc'[u] = pc[u] \/ pc'[u] \in {"dial", "idle", "dropped"}
    BY <1>0, <2>3, Threads DEF Goto, Typed, Place
  <2>5. Typed'
    BY <1>0, <2>1, <2>2, <2>4 DEF Typed
  <2>6. QED
    BY <1>0, <2>2, <2>4, <2>5 DEF InHand
<1>4. CASE OnDisconnect
  <2>1. /\ connected' = FALSE
        /\ UNCHANGED <<link, looping, attempts, scheduled, timerRef, crashed, ids, closing,
                       client>>
    BY <1>4 DEF OnDisconnect
  <2>2. owed' \in BOOLEAN /\ \E place \in {"idle", "check"} : Goto("loop", place)
    BY <1>4 DEF OnDisconnect
  <2>3. /\ pc' \in [Thread -> Place] /\ pc'["loop"] \in {"idle", "check"}
        /\ pc'["main"] = pc["main"]
    BY <1>0, <2>2, Threads DEF Goto, Typed, Place
  <2>4. Typed'
    BY <1>0, <2>1, <2>2, <2>3 DEF Typed
  <2>5. QED
    BY <1>0, <2>1, <2>3, <2>4 DEF InHand
<1>5. ASSUME NEW m \in Own, Publish(m) PROVE Typed' /\ InHand'
  <2>1. /\ Goto("main", "mark") /\ log' = Append(log, m) /\ Len(log) < MaxLog
        /\ hand' = [hand EXCEPT !["main"] = m]
        /\ UNCHANGED <<conn, retry, seen, offered, closing, client>>
    BY <1>5 DEF Publish
  <2>2. m \in Id /\ log' \in Seq(Id) /\ Len(log') <= MaxLog
    BY <1>0, <2>1, FoxMQBusAssumption DEF Id, Typed
  <2>3. pc' \in [Thread -> Place] /\ pc'["loop"] = pc["loop"]
    BY <1>0, <2>1, Threads, Moved DEF Place
  <2>4. /\ hand' \in [{"main", "loop"} -> Id \cup {"none"}]
        /\ hand'["main"] = m /\ hand'["loop"] = hand["loop"]
    BY <1>0, <2>1, <2>2 DEF Typed
  <2>5. Typed'
    BY <1>0, <2>1, <2>2, <2>3, <2>4 DEF Typed
  <2>6. QED
    BY <1>0, <2>2, <2>3, <2>4, <2>5 DEF InHand
<1>6. CASE MarkOwn
  <2>1. hand["main"] \in Id /\ seen' = Within(Append(seen, hand["main"]))
        /\ UNCHANGED <<conn, retry, hand, log, offered, closing, client>>
    BY <1>0, <1>6 DEF MarkOwn, InHand
  <2>2. PICK place \in {"send", "idle"} : Goto("main", place)
    BY <1>6 DEF MarkOwn
  <2>3. pc' \in [Thread -> Place] /\ pc'["loop"] = pc["loop"]
    BY <1>0, <2>2, Threads, Moved DEF Place
  <2>4. Typed'
    BY <1>0, <2>1, <2>3, WithinType DEF Typed
  <2>5. QED
    BY <2>1, <2>3, <2>4, <1>0 DEF InHand
<1>7. CASE SendOut
  <2>1. /\ hand["main"] \in Id /\ hand' = [hand EXCEPT !["main"] = "none"]
        /\ UNCHANGED <<link, looping, attempts, scheduled, timerRef, crashed, log, seen,
                       closing, client>>
    BY <1>0, <1>7 DEF SendOut, InHand
  <2>2. /\ offered' \in SUBSET Id
    BY <1>0, <1>7, <2>1 DEF SendOut, Typed
  <2>3. connected' \in BOOLEAN /\ owed' \in BOOLEAN
    BY <1>0, <1>7 DEF SendOut, Typed
  <2>4. PICK place \in {"idle", "check"} : Goto("main", place)
    BY <1>7 DEF SendOut
  <2>5. /\ pc' \in [Thread -> Place] /\ pc'["main"] \in {"idle", "check"}
        /\ pc'["loop"] = pc["loop"]
    BY <1>0, <2>4, Threads, Moved DEF Place
  <2>6. /\ hand' \in [{"main", "loop"} -> Id \cup {"none"}] /\ hand'["loop"] = hand["loop"]
    BY <1>0, <2>1 DEF Typed
  <2>7. Typed'
    BY <1>0, <2>1, <2>2, <2>3, <2>5, <2>6 DEF Typed
  <2>8. QED
    BY <1>0, <2>5, <2>6, <2>7 DEF InHand
<1>8. ASSUME NEW m \in offered, OnMessage(m) PROVE Typed' /\ InHand'
  <2>1. /\ Goto("loop", "store") /\ hand' = [hand EXCEPT !["loop"] = m]
        /\ UNCHANGED <<conn, retry, log, seen, offered, closing, client>>
    BY <1>8 DEF OnMessage
  <2>2. m \in Id
    BY <1>0, <1>8 DEF Typed
  <2>3. pc' \in [Thread -> Place] /\ pc'["main"] = pc["main"]
    BY <1>0, <2>1, Threads, Moved DEF Place
  <2>4. /\ hand' \in [{"main", "loop"} -> Id \cup {"none"}]
        /\ hand'["loop"] = m /\ hand'["main"] = hand["main"]
    BY <1>0, <2>1, <2>2 DEF Typed
  <2>5. Typed'
    BY <1>0, <2>1, <2>3, <2>4 DEF Typed
  <2>6. QED
    BY <1>0, <2>2, <2>3, <2>4, <2>5 DEF InHand
<1>9. CASE Store
  <2>1. /\ Goto("loop", "note") /\ log' = Append(log, hand["loop"]) /\ Len(log) < MaxLog
        /\ hand["loop"] \in Id
        /\ UNCHANGED <<conn, retry, hand, seen, offered, closing, client>>
    BY <1>0, <1>9 DEF Store, InHand
  <2>2. log' \in Seq(Id) /\ Len(log') <= MaxLog
    BY <1>0, <2>1, FoxMQBusAssumption DEF Typed
  <2>3. pc' \in [Thread -> Place] /\ pc'["main"] = pc["main"]
    BY <1>0, <2>1, Threads, Moved DEF Place
  <2>4. Typed'
    BY <1>0, <2>1, <2>2, <2>3 DEF Typed
  <2>5. QED
    BY <1>0, <2>1, <2>3, <2>4 DEF InHand
<1>10. CASE Note
  <2>1. /\ Goto("loop", "idle") /\ seen' = Within(Append(seen, hand["loop"]))
        /\ hand["loop"] \in Id /\ hand' = [hand EXCEPT !["loop"] = "none"]
        /\ UNCHANGED <<conn, retry, log, offered, closing, client>>
    BY <1>0, <1>10 DEF Note, InHand
  <2>2. /\ pc' \in [Thread -> Place] /\ pc'["main"] = pc["main"] /\ pc'["loop"] = "idle"
    BY <1>0, <2>1, Threads, Moved DEF Place
  <2>3. /\ hand' \in [{"main", "loop"} -> Id \cup {"none"}] /\ hand'["main"] = hand["main"]
    BY <1>0, <2>1 DEF Typed
  <2>4. Typed'
    BY <1>0, <2>1, <2>2, <2>3, WithinType DEF Typed
  <2>5. QED
    BY <1>0, <2>2, <2>3, <2>4 DEF InHand
<1>11. CASE Close
  <2>1. /\ Goto("main", "closing") /\ closing' = TRUE /\ UNCHANGED <<conn, retry, ids, client>>
    BY <1>11 DEF Close
  <2>2. pc' \in [Thread -> Place] /\ pc'["main"] = "closing" /\ pc'["loop"] = pc["loop"]
    BY <1>0, <2>1, Threads, Moved DEF Place
  <2>3. Typed'
    BY <1>0, <2>1, <2>2 DEF Typed
  <2>4. QED
    BY <1>0, <2>1, <2>2, <2>3 DEF InHand
<1>12. CASE CancelTimer
  <2>1. /\ pc' \in [Thread -> Place] /\ pc'["main"] \in {"idle", "forget"}
        /\ pc'["loop"] \in {pc["loop"], "idle", "cancelled"}
    BY <1>0, <1>12, Threads DEF CancelTimer, Typed, Place
  <2>2. UNCHANGED <<conn, retry, ids, closing, client>>
    BY <1>12 DEF CancelTimer
  <2>3. Typed'
    BY <1>0, <2>1, <2>2 DEF Typed
  <2>4. QED
    BY <1>0, <2>1, <2>2, <2>3 DEF InHand
<1>15. CASE FindTimer \/ ForgetTimer
  <2>1. PICK place \in {"cancel", "forgotten"} : Goto("main", place)
    BY <1>15 DEF FindTimer, ForgetTimer
  <2>2. /\ pc' \in [Thread -> Place] /\ pc'["main"] = place /\ pc'["loop"] = pc["loop"]
    BY <1>0, <2>1, Threads, Moved DEF Place
  <2>3. /\ timerRef' \in {timerRef, "none"}
        /\ UNCHANGED <<conn, attempts, scheduled, owed, crashed, ids, closing, client>>
    BY <1>15 DEF FindTimer, ForgetTimer
  <2>4. Typed'
    BY <1>0, <2>2, <2>3 DEF Typed
  <2>5. QED
    BY <1>0, <2>1, <2>2, <2>3, <2>4 DEF InHand
<1>13. CASE Closed
  <2>1. Goto("main", "idle") /\ UNCHANGED <<retry, ids, closing>>
    BY <1>13 DEF Closed
  <2>2. /\ link' \in {"down", "opening", "up"} /\ looping' \in BOOLEAN
        /\ connected' \in BOOLEAN /\ client' \in BOOLEAN
    BY <1>0, <1>13 DEF Closed, Typed
  <2>3. pc' \in [Thread -> Place] /\ pc'["main"] = "idle" /\ pc'["loop"] = pc["loop"]
    BY <1>0, <2>1, Threads, Moved DEF Place
  <2>4. Typed'
    BY <1>0, <2>1, <2>2, <2>3 DEF Typed
  <2>5. QED
    BY <1>0, <2>1, <2>3, <2>4 DEF InHand
<1>14. QED
  BY <1>1, <1>3, <1>4, <1>5, <1>6, <1>7, <1>8, <1>9, <1>10, <1>11, <1>12, <1>13, <1>15
     DEF Next, Retry

-----------------------------------------------------------------------------
\* A thread that is about to raise the counter had seen it below the limit, and
\* at most as many threads are about to as there are.
LEMMA LimitedNext == FoxInv /\ Next => Limited'
<1> SUFFICES ASSUME FoxInv, Next PROVE Limited'
  OBVIOUS
<1> USE DEF conn, retry, ids
<1>0. /\ Typed /\ Limited /\ attempts \in Nat /\ MaxAttempts \in Nat \ {0}
      /\ pc \in [Thread -> Place]
  BY FoxMQBusAssumption DEF FoxInv, Typed
<1>1. /\ IsFiniteSet(Thread) /\ Cardinality(Thread) \in Nat
      /\ \A S \in SUBSET Thread : /\ IsFiniteSet(S) /\ Cardinality(S) \in Nat
                                  /\ Cardinality(S) <= Cardinality(Thread)
  BY Threads, FS_Subset, FS_CardinalityType
<1>2. Arming \in SUBSET Thread /\ Arming' \in SUBSET Thread
  BY DEF Arming
<1>3. ASSUME attempts' \in Nat, attempts' <= attempts, Arming' \subseteq Arming
      PROVE  Limited'
  <2>1. Cardinality(Arming') <= Cardinality(Arming)
    BY <1>1, <1>2, <1>3, FS_Subset
  <2>2. Cardinality(Arming) \in Nat /\ Cardinality(Arming') \in Nat
    BY <1>1, <1>2
  <2>3. QED
    BY <1>0, <1>1, <1>3, <2>1, <2>2 DEF Limited
<1>4. ASSUME NEW t \in Thread, Check(t) PROVE Limited'
  <2>1. attempts' = attempts
    BY <1>4 DEF Check
  <2>2. CASE attempts < MaxAttempts
    <3>1. Cardinality(Arming') \in Nat /\ Cardinality(Arming') <= Cardinality(Thread)
      BY <1>1, <1>2
    <3>2. QED
      BY <1>0, <1>1, <2>1, <2>2, <3>1 DEF Limited
  <2>3. CASE ~(attempts < MaxAttempts)
    <3>1. attempts >= MaxAttempts
      BY <1>0, <2>3
    <3>2. Goto(t, "idle")
      BY <1>4, <3>1 DEF Check
    <3>3. Arming' \subseteq Arming
      BY <1>0, <3>2 DEF Goto, Arming
    <3>4. QED
      BY <1>0, <1>3, <2>1, <3>3
  <2>4. QED
    BY <2>2, <2>3
<1>5. ASSUME NEW t \in Thread, Count(t) PROVE Limited'
  <2>1. pc[t] = "count" /\ Goto(t, "make")
    BY <1>5 DEF Count
  <2>2. Arming' = Arming \ {t} /\ t \in Arming
    BY <1>0, <2>1, Moved DEF Arming, Place
  <2>3. /\ Cardinality(Arming') = Cardinality(Arming) - 1
        /\ Cardinality(Arming) \in Nat
    BY <1>1, <1>2, <2>2, FS_RemoveElement
  <2>4. attempts' = attempts + 1
    BY <1>5 DEF Count
  <2>5. QED
    BY <1>0, <1>1, <2>3, <2>4 DEF Limited
<1>6. ASSUME NEW t \in Thread, NEW place \in Place \ {"test", "flag", "count"},
             Goto(t, place), attempts' \in {attempts, 0}
      PROVE  Limited'
  <2>1. Arming' \subseteq Arming
    BY <1>0, <1>6 DEF Goto, Arming
  <2>2. QED
    BY <1>0, <1>3, <1>6, <2>1
<1>7. ASSUME NEW t \in Thread, Retry(t), ~Check(t), ~Count(t) PROVE Limited'
  <2>1. pc'[t] \in {"test", "flag", "count"} => pc[t] \in {"test", "flag", "count"}
    <3>1. CASE Test(t) \/ Flag(t)
      BY <3>1 DEF Test, Flag
    <3>2. CASE Make(t)
      BY <1>0, <3>2, Threads DEF Make
    <3>3. CASE Daemon(t) \/ Start(t)
      BY <1>0, <3>3, Threads DEF Daemon, Start, Dies, Startable, Goto
    <3>4. CASE Fire(t) \/ Unset(t) \/ Ask(t) \/ Reconnect(t)
      BY <1>0, <3>4 DEF Fire, Unset, Ask, Reconnect, Goto
    <3>5. QED
      BY <1>7, <3>1, <3>2, <3>3, <3>4 DEF Retry
  <2>2. Arming' \subseteq Arming
    BY <1>0, <1>7, <2>1, RetryMoves DEF Arming
  <2>3. attempts' = attempts
    <3>1. CASE Test(t) \/ Flag(t) \/ Make(t)
      BY <3>1 DEF Test, Flag, Make
    <3>2. CASE Daemon(t) \/ Start(t)
      BY <3>2 DEF Daemon, Start, Dies
    <3>3. CASE Fire(t) \/ Unset(t) \/ Ask(t) \/ Reconnect(t)
      BY <3>3 DEF Fire, Unset, Ask, Reconnect
    <3>4. QED
      BY <1>7, <3>1, <3>2, <3>3 DEF Retry
  <2>4. QED
    BY <1>0, <1>3, <2>2, <2>3
<1>8. CASE OnConnect \/ LoopReopens
  <2>1. Arming' = Arming /\ attempts' \in {attempts, 0}
    BY <1>8 DEF OnConnect, LoopReopens, Arming
  <2>2. QED
    BY <1>0, <1>3, <2>1
<1>9. CASE CancelTimer
  <2>1. Arming' \subseteq Arming /\ attempts' = attempts
    BY <1>0, <1>9 DEF CancelTimer, Arming
  <2>2. QED
    BY <1>0, <1>3, <2>1
<1>10. CASE \/ Connect \/ Connected \/ OnRefused \/ Drop \/ OnDisconnect \/ MarkOwn \/ SendOut
            \/ Store \/ Note \/ Close \/ FindTimer \/ ForgetTimer \/ Closed
            \/ \E m \in Own : Publish(m)
            \/ \E m \in offered : OnMessage(m)
  <2>1. \E t \in {"main", "loop"}, place \in {"dial", "idle", "dropped", "check", "mark",
                                              "send", "store", "note", "closing", "cancel",
                                              "forgotten"} : Goto(t, place)
    BY <1>10 DEF Connect, Connected, OnRefused, Drop, OnDisconnect, MarkOwn, SendOut,
                 Store, Note, Close, FindTimer, ForgetTimer, Closed, Publish, OnMessage
  <2>2. attempts' \in {attempts, 0}
    BY <1>10 DEF Connect, Connected, OnRefused, Drop, OnDisconnect, MarkOwn, SendOut,
                 Store, Note, Close, FindTimer, ForgetTimer, Closed, Publish, OnMessage
  <2>3. QED
    BY <1>6, <2>1, <2>2, Threads DEF Place
<1>11. QED
  BY <1>4, <1>5, <1>7, <1>8, <1>9, <1>10 DEF Next, Retry
-----------------------------------------------------------------------------
\* A thread on its way to a timer, or a connection that opens: only the timers
\* behind the flag must stay.
LEMMA BusyStep ==
  ASSUME FoxInv, NEW t \in Thread, NEW place \in Place, Goto(t, place),
         t \notin Timer \/ pc[t] # "armed", pc[t] \notin Setting,
         scheduled' => scheduled, closing => closing', crashed => crashed',
         \/ place \in Underway
         \/ link' # "down"
         \/ ~owed'
         \/ ~client'
         \/ closing'
  PROVE  Backed' /\ Returning'
<1>1. /\ pc'[t] = place /\ \A u \in Thread \ {t} : pc'[u] = pc[u]
  BY Moved DEF FoxInv
<1>2. Armed => Armed'
  BY <1>1, Threads DEF Armed
<1>3. \A u \in Thread : pc[u] \in Setting => pc'[u] \in Setting
  BY <1>1
<1>4. Backed'
  BY <1>2, <1>3 DEF FoxInv, Backed
<1>5. place \in Underway => Busy'
  BY <1>1 DEF Busy, Underway
<1>6. QED
  BY <1>4, <1>5 DEF Returning

\* A thread between raising the flag and starting the timer is reason enough.
LEMMA SettingStep ==
  ASSUME NEW t \in Thread, pc'[t] \in Setting
  PROVE  Backed' /\ Returning'
BY DEF Backed, Returning, Busy, Setting, Underway

\* Steps of the peer's thread and the network loop that are not on that way and
\* ask for no reconnect.
LEMMA AsideStep ==
  ASSUME FoxInv, NEW t \in {"main", "loop"}, NEW place \in Place, Goto(t, place),
         pc[t] \notin Underway, pc[t] # "armed",
         scheduled' = scheduled, crashed' = crashed, owed' => owed, link' = "down" => link = "down",
         client' => client, closing => closing'
  PROVE  Backed' /\ Returning'
<1>1. /\ t \in Thread /\ t \notin Timer /\ \A u \in Thread \ {t} : pc'[u] = pc[u]
  BY Threads, Moved DEF FoxInv
<1>2. Armed => Armed'
  BY <1>1, Threads DEF Armed
<1>3. /\ Busy => Busy'
      /\ \A u \in Thread : pc[u] \in Setting => pc'[u] \in Setting
  BY <1>1 DEF Busy, Underway, Setting
<1>4. QED
  BY <1>2, <1>3 DEF FoxInv, Backed, Returning

LEMMA ClosingStep ==
  ASSUME FoxInv, FindTimer \/ CancelTimer \/ ForgetTimer \/ Closed
  PROVE  Backed' /\ Returning'
<1>1. closing /\ closing' = closing
  BY DEF FoxInv, ClosingUp, FindTimer, CancelTimer, ForgetTimer, Closed
<1>2. QED
  BY <1>1 DEF Backed, Returning

\* Nobody but the peer's own thread enters close(), and nobody lowers the flag.
LEMMA ClosingUpNext == FoxInv /\ Next => ClosingUp'
<1> SUFFICES ASSUME FoxInv, Next PROVE ClosingUp'
  OBVIOUS
<1> USE DEF conn, retry, ids
<1>0. /\ Typed /\ ClosingUp
  BY DEF FoxInv
<1>1. CASE Close \/ FindTimer \/ CancelTimer \/ ForgetTimer \/ Closed
  <2>1. closing'
    BY <1>0, <1>1 DEF Close, FindTimer, CancelTimer, ForgetTimer, Closed, ClosingUp
  <2>2. QED
    BY <2>1 DEF ClosingUp
<1>2. ASSUME closing' = closing,
             \A u \in Thread :
               pc'[u] \in {"closing", "cancel", "forget", "forgotten", "cancelled"} =>
                 pc'[u] = pc[u]
      PROVE  ClosingUp'
  BY <1>0, <1>2, Threads DEF ClosingUp
<1>3. ASSUME NEW t \in Thread, Retry(t) PROVE ClosingUp'
  <2>1. closing' = closing
    BY <1>0, <1>3, RetryMoves
  <2>2. \A u \in Thread :
          pc'[u] \in {"closing", "cancel", "forget", "forgotten", "cancelled"} =>
            pc'[u] = pc[u]
    BY <1>0, <1>3, RetryMoves DEF OnTheWay
  <2>3. QED
    BY <1>2, <2>1, <2>2
<1>4. CASE OnConnect \/ LoopReopens
  <2>1. closing' = closing /\ pc' = pc
    BY <1>4 DEF OnConnect, LoopReopens
  <2>2. QED
    BY <1>2, <2>1
<1>5. CASE \/ Connect \/ Connected \/ OnRefused \/ Drop \/ OnDisconnect \/ MarkOwn \/ SendOut
           \/ Store \/ Note
           \/ \E m \in Own : Publish(m)
           \/ \E m \in offered : OnMessage(m)
  <2>1. closing' = closing
    BY <1>5 DEF Connect, Connected, OnRefused, Drop, OnDisconnect, MarkOwn, SendOut,
                Store, Note, Publish, OnMessage
  <2>2. \E t \in {"main", "loop"}, place \in {"dial", "idle", "dropped", "check", "mark",
                                              "send", "store", "note"} : Goto(t, place)
    BY <1>5 DEF Connect, Connected, OnRefused, Drop, OnDisconnect, MarkOwn, SendOut,
                Store, Note, Publish, OnMessage
  <2>3. \A u \in Thread :
          pc'[u] \in {"closing", "cancel", "forget", "forgotten", "cancelled"} =>
            pc'[u] = pc[u]
    BY <1>0, <2>2, Threads, Moved DEF Place
  <2>4. QED
    BY <1>2, <2>1, <2>3
<1>6. QED
  BY <1>1, <1>3, <1>4, <1>5 DEF Next, Retry

LEMMA ReturningNext == FoxInv /\ Next => Backed' /\ Returning'
<1> SUFFICES ASSUME FoxInv, Next PROVE Backed' /\ Returning'
  OBVIOUS
<1> USE DEF conn, retry, ids
<1>0. Typed /\ Backed /\ Returning
  BY DEF FoxInv
<1>1. ASSUME NEW t \in Thread, Check(t) PROVE Backed' /\ Returning'
  <2>1. /\ pc[t] = "check" /\ UNCHANGED <<link, scheduled, crashed, closing, client>>
        /\ Goto(t, IF attempts >= MaxAttempts THEN "idle" ELSE "test")
        /\ owed' => attempts < MaxAttempts
    BY <1>1 DEF Check
  <2>2. attempts \in Nat /\ MaxAttempts \in Nat
    BY <1>0, FoxMQBusAssumption DEF Typed
  <2>3. CASE attempts >= MaxAttempts
    <3>1. Goto(t, "idle") /\ ~owed'
      BY <2>1, <2>2, <2>3
    <3>2. QED
      BY <2>1, <3>1, BusyStep DEF Place, Setting
  <2>4. CASE ~(attempts >= MaxAttempts)
    <3>1. Goto(t, "test")
      BY <2>1, <2>4
    <3>2. QED
      BY <2>1, <3>1, BusyStep DEF Place, Underway, Setting
  <2>5. QED
    BY <2>3, <2>4
<1>2. ASSUME NEW t \in Thread, Test(t) PROVE Backed' /\ Returning'
  <2>1. /\ pc[t] = "test" /\ UNCHANGED <<retry, link, closing, client>>
        /\ Goto(t, IF scheduled THEN "idle" ELSE "flag")
    BY <1>2 DEF Test
  <2>2. CASE ~scheduled
    BY <2>1, <2>2, BusyStep DEF Place, Underway, Setting
  <2>3. CASE scheduled
    <3>1. \A u \in Thread \ {t} : pc'[u] = pc[u]
      BY <1>0, <2>1, <2>3, Moved DEF Place
    <3>2. \A u \in Thread : pc[u] \in Setting => pc'[u] \in Setting
      BY <2>1, <3>1 DEF Setting
    <3>3. Armed => Armed'
      BY <2>1, <3>1, Threads DEF Armed
    <3>4. Backed'
      BY <1>0, <2>1, <3>2, <3>3 DEF Backed
    <3>5. (\E u \in Thread : pc'[u] \in Setting) => Busy'
      BY DEF Busy, Underway, Setting
    <3>6. QED
      BY <2>1, <2>3, <3>4, <3>5 DEF Backed, Returning
  <2>4. QED
    BY <2>2, <2>3
<1>3. ASSUME NEW t \in Thread, Flag(t) \/ Count(t) \/ Make(t) PROVE Backed' /\ Returning'
  <2>1. pc'[t] \in Setting
    <3>1. CASE Flag(t) \/ Count(t)
      BY <1>0, <3>1, Moved DEF Flag, Count, Place, Setting
    <3>2. CASE Make(t)
      BY <1>0, <3>2, Threads DEF Make, Typed, Setting
    <3>3. QED
      BY <1>3, <3>1, <3>2
  <2>2. QED
    BY <2>1, SettingStep
<1>19. ASSUME NEW t \in Thread, Dies(t) PROVE Backed' /\ Returning'
  BY <1>19 DEF Dies, Backed, Returning
<1>20. ASSUME NEW t \in Thread, Daemon(t) PROVE Backed' /\ Returning'
  <2>1. Goto(t, "start") => pc'[t] \in Setting
    BY <1>0, Moved DEF Place, Setting
  <2>2. QED
    BY <1>19, <1>20, <2>1, SettingStep DEF Daemon
<1>21. ASSUME NEW t \in Thread, Start(t) PROVE Backed' /\ Returning'
  <2>1. CASE Dies(t)
    BY <1>19, <2>1
  <2>2. CASE Startable /\ pc[timerRef] = "made" /\ ~Dies(t)
    <3>1. /\ timerRef \in Timer
          /\ pc' = [pc EXCEPT ![t] = "idle", ![timerRef] = "armed"]
      BY <1>21, <2>2 DEF Start, Startable
    <3>2. pc'[timerRef] = "armed"
      BY <1>0, <3>1, Threads DEF Typed
    <3>3. Armed'
      BY <3>1, <3>2 DEF Armed
    <3>4. QED
      BY <3>3 DEF Backed, Returning
  <2>3. CASE Startable /\ pc[timerRef] # "made" /\ ~Dies(t)
    <3>1. closing /\ closing' = closing
      BY <1>21, <2>3, Threads DEF Start, Startable, FoxInv, ClosingUp
    <3>2. QED
      BY <3>1 DEF Backed, Returning
  <2>4. QED
    BY <1>21, <2>1, <2>2, <2>3 DEF Start
<1>22. ASSUME NEW t \in Thread, Fire(t) PROVE Backed' /\ Returning'
  <2>1. ~scheduled' /\ Goto(t, "unset")
    BY <1>22 DEF Fire
  <2>2. Busy'
    BY <1>0, <2>1, Moved DEF Place, Busy, Underway
  <2>3. QED
    BY <2>1, <2>2 DEF Backed, Returning
<1>23. ASSUME NEW t \in Thread, Unset(t) PROVE Backed' /\ Returning'
  <2>1. /\ pc[t] = "unset" /\ Goto(t, "ask") /\ UNCHANGED <<scheduled, crashed, closing>>
    BY <1>23 DEF Unset
  <2>2. QED
    BY <2>1, BusyStep DEF Place, Underway, Setting
<1>24. ASSUME NEW t \in Thread, Ask(t) PROVE Backed' /\ Returning'
  <2>1. /\ pc[t] = "ask" /\ UNCHANGED <<scheduled, crashed, closing, client>>
        /\ \/ Goto(t, "call")
           \/ Goto(t, "idle") /\ (~client' \/ closing')
    BY <1>24 DEF Ask
  <2>2. QED
    BY <2>1, BusyStep DEF Place, Underway, Setting
<1>4. ASSUME NEW t \in Thread, Reconnect(t) PROVE Backed' /\ Returning'
  <2>1. /\ pc[t] = "call" /\ UNCHANGED <<scheduled, crashed, closing, client>>
        /\ \/ link' = "opening" /\ Goto(t, "idle")
           \/ Goto(t, "check")
           \/ ~client' /\ Goto(t, "idle")
    BY <1>4 DEF Reconnect
  <2>2. QED
    BY <2>1, BusyStep DEF Place, Underway, Setting
<1>5. CASE Connect
  <2>1. /\ Goto("main", "dial") /\ pc["main"] = "idle" /\ link' = "opening"
        /\ UNCHANGED <<scheduled, crashed, closing>>
    BY <1>5 DEF Connect
  <2>2. QED
    BY <2>1, BusyStep, Threads DEF Place, Setting
<1>6. CASE Connected
  <2>1. /\ Goto("main", "idle") /\ pc["main"] = "dial"
        /\ UNCHANGED <<link, owed, client, scheduled, crashed, closing>>
    BY <1>6 DEF Connected
  <2>2. QED
    BY <2>1, AsideStep DEF Place, Underway, Setting
<1>7. CASE OnConnect \/ LoopReopens
  <2>1. pc' = pc /\ link' # "down" /\ UNCHANGED <<scheduled, crashed, closing>>
    BY <1>7 DEF OnConnect, LoopReopens
  <2>2. QED
    BY <1>0, <2>1 DEF Backed, Returning, Armed
<1>8. CASE OnRefused \/ Drop
  <2>1. pc["loop"] = "idle" /\ Goto("loop", "dropped") /\ UNCHANGED <<scheduled, crashed, closing>>
    BY <1>8 DEF OnRefused, Drop
  <2>2. QED
    BY <2>1, BusyStep, Threads DEF Place, Underway, Setting
<1>9. CASE OnDisconnect
  <2>1. /\ pc["loop"] = "dropped" /\ UNCHANGED <<scheduled, crashed, closing>>
        /\ (Goto("loop", "idle") /\ ~owed') \/ Goto("loop", "check")
    BY <1>9 DEF OnDisconnect
  <2>2. QED
    BY <2>1, BusyStep, Threads DEF Place, Underway, Setting
<1>10. ASSUME NEW m \in Own, Publish(m) PROVE Backed' /\ Returning'
  <2>1. /\ Goto("main", "mark") /\ pc["main"] = "idle"
        /\ UNCHANGED <<link, owed, client, scheduled, crashed, closing>>
    BY <1>10 DEF Publish
  <2>2. QED
    BY <2>1, AsideStep DEF Place, Underway, Setting
<1>11. CASE MarkOwn
  <2>1. /\ \E place \in {"send", "idle"} : Goto("main", place)
        /\ pc["main"] = "mark" /\ UNCHANGED <<link, owed, client, scheduled, crashed, closing>>
    BY <1>11 DEF MarkOwn
  <2>2. QED
    BY <2>1, AsideStep DEF Place, Underway, Setting
<1>12. CASE SendOut
  <2>1. /\ pc["main"] = "send" /\ UNCHANGED <<link, client, scheduled, crashed, closing>>
        /\ (Goto("main", "idle") /\ owed' = owed) \/ Goto("main", "check")
    BY <1>12 DEF SendOut
  <2>2. CASE Goto("main", "idle") /\ owed' = owed
    BY <2>1, <2>2, AsideStep DEF Place, Underway, Setting
  <2>3. CASE Goto("main", "check")
    BY <2>1, <2>3, BusyStep, Threads DEF Place, Underway, Setting
  <2>4. QED
    BY <2>1, <2>2, <2>3
<1>13. ASSUME NEW m \in offered, OnMessage(m) PROVE Backed' /\ Returning'
  <2>1. /\ Goto("loop", "store") /\ pc["loop"] = "idle"
        /\ UNCHANGED <<link, owed, client, scheduled, crashed, closing>>
    BY <1>13 DEF OnMessage
  <2>2. QED
    BY <2>1, AsideStep DEF Place, Underway, Setting
<1>14. CASE Store
  <2>1. /\ Goto("loop", "note") /\ pc["loop"] = "store"
        /\ UNCHANGED <<link, owed, client, scheduled, crashed, closing>>
    BY <1>14 DEF Store
  <2>2. QED
    BY <2>1, AsideStep DEF Place, Underway, Setting
<1>15. CASE Note
  <2>1. /\ Goto("loop", "idle") /\ pc["loop"] = "note"
        /\ UNCHANGED <<link, owed, client, scheduled, crashed, closing>>
    BY <1>15 DEF Note
  <2>2. QED
    BY <2>1, AsideStep DEF Place, Underway, Setting
<1>16. CASE Close
  <2>1. closing' = TRUE
    BY <1>16 DEF Close
  <2>2. QED
    BY <2>1 DEF Backed, Returning
<1>17. CASE FindTimer \/ CancelTimer \/ ForgetTimer \/ Closed
  BY <1>17, ClosingStep
<1>18. QED
  BY <1>1, <1>2, <1>3, <1>4, <1>5, <1>6, <1>7, <1>8, <1>9, <1>10, <1>11, <1>12, <1>13,
     <1>14, <1>15, <1>16, <1>17, <1>20, <1>21, <1>22, <1>23, <1>24 DEF Next
-----------------------------------------------------------------------------
LEMMA FoxInvariant == Spec => []FoxInv
<1>1. FoxInv /\ [Next]_vars => FoxInv'
  <2> SUFFICES ASSUME FoxInv, [Next]_vars PROVE FoxInv'
    OBVIOUS
  <2>1. CASE Next
    BY <2>1, TypedNext, LimitedNext, ReturningNext, ClosingUpNext DEF FoxInv
  <2>2. CASE UNCHANGED vars
    BY <2>2 DEF vars, conn, retry, ids, FoxInv, Typed, InHand, Limited, Arming, Backed,
                Returning, Busy, Armed, ClosingUp
  <2>3. QED
    BY <2>1, <2>2
<1>2. QED
  BY <1>1, InitFox, PTL DEF Spec

\* Types, and how far the unlocked counter may pass its limit: by one attempt
\* for every other thread.
THEOREM FoxTypeCorrect == Spec => []TypeOK
<1>1. FoxInv => TypeOK
  <2> SUFFICES ASSUME FoxInv PROVE TypeOK
    OBVIOUS
  <2>1. Typed /\ Limited
    BY DEF FoxInv
  <2>2. Cardinality(Arming) \in Nat
    <3>1. Arming \in SUBSET Thread
      BY DEF Arming
    <3>2. QED
      BY <3>1, Threads, FS_Subset, FS_CardinalityType
  <2>3. attempts \in 0 .. MaxAttempts + Cardinality(Thread) - 1
    BY <2>1, <2>2, Threads, FoxMQBusAssumption DEF Typed, Limited
  <2>4. {connected, closing, client, looping, scheduled, owed, crashed} \subseteq BOOLEAN
    BY <2>1 DEF Typed
  <2>5. QED
    BY <2>1, <2>3, <2>4 DEF Typed, Place, TypeOK
<1>2. QED
  BY <1>1, FoxInvariant, PTL

\* Until the connection is opened, given up or closed, a bus that lost it has a
\* timer armed or a thread on its way to one, unless a thread has died between
\* making a timer and starting it: for any number of timers, with the threads
\* cut at every line of _schedule_reconnect, _do_reconnect and close().
THEOREM AlwaysAWayBack == Spec => []WayBack
<1>1. FoxInv => WayBack
  BY DEF FoxInv, Returning, Armed, WayBack
<1>2. QED
  BY <1>1, FoxInvariant, PTL
-----------------------------------------------------------------------------
(***************************************************************************)
(* The window of seen ids.  Two threads put messages into the inbox and    *)
(* their ids into the window, each in two steps and in no common order, so *)
(* the window is not a suffix of the log: an id may be followed in the     *)
(* window by one that the log has before it, but by one only, the message  *)
(* the other thread was working on.                                        *)
(***************************************************************************)
Stored == {log[k] : k \in 1 .. Len(log)}

\* What was remembered after the last time x was.
Since(x) == {log[k] : k \in {n \in 1 .. Len(log) : \A i \in 1 .. Len(log) : log[i] = x => i < n}}

Remembered == {seen[a] : a \in 1 .. Len(seen)}

Newer(a) == {seen[b] : b \in a + 1 .. Len(seen)}

\* In the inbox, and not yet among the seen ids.
InFlight == {m \in Id : \/ pc["main"] = "mark" /\ hand["main"] = m
                        \/ pc["loop"] = "note" /\ hand["loop"] = m}

Hands ==
  /\ pc["main"] = "mark" => hand["main"] \in Stored \ (offered \cup Remembered)
  /\ pc["main"] = "send" => hand["main"] \in Stored
  /\ pc["loop"] \in {"store", "note"} => hand["loop"] \in offered \ Remembered
  /\ pc["loop"] = "note" => hand["loop"] \in Stored

Distinct == \A a, b \in 1 .. Len(seen) : seen[a] = seen[b] => a = b

Sources == offered \subseteq Foreign \cup Stored /\ Remembered \subseteq Stored

InOrder ==
  \A a \in 1 .. Len(seen) :
    \E late \in Id : (Newer(a) \cup InFlight) \ {late} \subseteq Since(seen[a])

\* A message that left the window left it after SeenCap - 1 others.
Gone == \A x \in Stored \ (Remembered \cup InFlight) : Cardinality(Since(x)) >= SeenCap - 1

WindowInv == Hands /\ Distinct /\ Sources /\ InOrder /\ Gone /\ OnceInWindow

\* The ids of a log are finitely many, and so are those of a part of it.
LEMMA StoredFinite == Typed => IsFiniteSet(Stored) /\ \A x : Since(x) \subseteq Stored
<1> SUFFICES ASSUME Typed PROVE IsFiniteSet(Stored) /\ \A x : Since(x) \subseteq Stored
  OBVIOUS
<1>1. log \in [1 .. Len(log) -> Id] /\ Len(log) \in Nat
  BY DEF Typed
<1>2. log \in Surjection(1 .. Len(log), Stored)
  BY <1>1 DEF Surjection, Stored
<1>3. IsFiniteSet(1 .. Len(log))
  BY <1>1, FS_Interval
<1>4. IsFiniteSet(Stored)
  BY <1>2, <1>3, FS_Surjection
<1>5. QED
  BY <1>4 DEF Since, Stored

\* One more message in the inbox comes after all others.
LEMMA Appended ==
  ASSUME Typed, NEW m \in Id, log' = Append(log, m)
  PROVE  /\ Stored' = Stored \cup {m}
         /\ \A x \in Id \ {m} : Since(x)' = Since(x) \cup {m}
<1>1. /\ Len(log) \in Nat /\ Len(log') = Len(log) + 1 /\ log'[Len(log) + 1] = m
      /\ \A k \in 1 .. Len(log) : log'[k] = log[k] /\ k # Len(log) + 1
      /\ 1 .. Len(log') = 1 .. Len(log) \cup {Len(log) + 1}
  BY DEF Typed
<1>2. Stored' = Stored \cup {m}
  BY <1>1 DEF Stored
<1>3. ASSUME NEW x \in Id \ {m} PROVE Since(x)' = Since(x) \cup {m}
  <2> DEFINE late(n) == \A i \in 1 .. Len(log) : log[i] = x => i < n
             lateNow(n) == \A i \in 1 .. Len(log') : log'[i] = x => i < n
  <2>1. \A n \in 1 .. Len(log) + 1 : lateNow(n) <=> late(n)
    BY <1>1
  <2>2. late(Len(log) + 1)
    BY <1>1
  <2> DEFINE old == {n \in 1 .. Len(log) : late(n)}
             new == {n \in 1 .. Len(log') : lateNow(n)}
  <2>3. new = old \cup {Len(log) + 1}
    BY <1>1, <2>1, <2>2
  <2>4. Since(x) = {log[k] : k \in old} /\ Since(x)' = {log'[k] : k \in new}
    BY DEF Since
  <2>5. \A k \in old : k \in 1 .. Len(log)
    OBVIOUS
  <2> HIDE DEF old, new
  <2>6. QED
    BY <1>1, <2>3, <2>4, <2>5
<1>4. QED
  BY <1>2, <1>3

\* One more id in the window: the others stay in place, or move up by one and
\* the first leaves.
LEMMA Marked ==
  ASSUME Typed, NEW m \in Id, seen' = Within(Append(seen, m))
  PROVE  \E d \in {0, 1} :
           /\ d = 1 => Len(seen) = SeenCap
           /\ Len(seen) \in Nat /\ Len(seen') = Len(seen) + 1 - d /\ Len(seen') >= 1
           /\ seen'[Len(seen')] = m
           /\ \A a \in 1 .. Len(seen') - 1 : seen'[a] = seen[a + d] /\ a + d \in 1 .. Len(seen)
<1> DEFINE s == Append(seen, m)
<1>1. /\ SeenCap \in Nat /\ SeenCap >= 1 /\ seen \in Seq(Id) /\ Len(seen) \in Nat
      /\ Len(seen) <= SeenCap
  BY FoxMQBusAssumption DEF Typed
<1>2. /\ s \in Seq(Id) /\ Len(s) = Len(seen) + 1 /\ s[Len(seen) + 1] = m
      /\ \A a \in 1 .. Len(seen) : s[a] = seen[a]
  BY <1>1
<1>3. seen' = IF Len(s) > SeenCap THEN Tail(s) ELSE s
  BY DEF Within
<1> HIDE DEF s
<1>4. CASE Len(s) > SeenCap
  <2>1. Len(seen) = SeenCap /\ seen' = Tail(s)
    BY <1>1, <1>2, <1>3, <1>4
  <2>2. s # << >>
    BY <1>1, <1>2
  <2>3. Len(seen') = Len(seen) /\ \A a \in 1 .. Len(seen) : seen'[a] = s[a + 1]
    BY <1>1, <1>2, <2>1, <2>2
  <2>4. seen'[Len(seen')] = m /\ Len(seen') >= 1
    BY <1>1, <1>2, <2>1, <2>3
  <2>5. \A a \in 1 .. Len(seen') - 1 : seen'[a] = seen[a + 1] /\ a + 1 \in 1 .. Len(seen)
    BY <1>1, <1>2, <2>3
  <2>6. Len(seen') = Len(seen) + 1 - 1
    BY <1>1, <2>3
  <2>7. QED
    BY <1>1, <2>1, <2>4, <2>5, <2>6
<1>5. CASE ~(Len(s) > SeenCap)
  <2>1. seen' = s
    BY <1>3, <1>5
  <2>2. \A a \in 1 .. Len(seen') - 1 : seen'[a] = seen[a + 0] /\ a + 0 \in 1 .. Len(seen)
    BY <1>1, <1>2, <2>1
  <2>3. Len(seen') = Len(seen) + 1 - 0 /\ Len(seen') >= 1 /\ seen'[Len(seen')] = m
    BY <1>1, <1>2, <2>1
  <2>4. QED
    BY <1>1, <2>2, <2>3
<1>6. QED
  BY <1>4, <1>5

\* A message that comes again does so after all that came since the last time.
LEMMA OnceAppended ==
  ASSUME Typed, OnceInWindow, NEW m \in Id, log' = Append(log, m),
         m \in Stored => Cardinality(Since(m)) >= SeenCap - 1
  PROVE  OnceInWindow'
<1>1. /\ Len(log) \in Nat /\ Len(log') = Len(log) + 1 /\ log'[Len(log) + 1] = m
      /\ \A k \in 1 .. Len(log) : log'[k] = log[k]
  BY DEF Typed
<1>2. SUFFICES ASSUME NEW i \in 1 .. Len(log'), NEW j \in 1 .. Len(log'),
                      i < j, log'[i] = log'[j]
               PROVE  Cardinality({log'[k] : k \in i + 1 .. j - 1}) >= SeenCap - 1
  BY DEF OnceInWindow
<1>3. {log'[k] : k \in i + 1 .. j - 1} = {log[k] : k \in i + 1 .. j - 1}
  <2>1. \A k \in i + 1 .. j - 1 : log'[k] = log[k]
    BY <1>1, <1>2
  <2>2. QED
    BY <2>1
<1>4. CASE j <= Len(log)
  <2>1. i \in 1 .. Len(log) /\ j \in 1 .. Len(log) /\ log[i] = log[j]
    BY <1>1, <1>2, <1>4
  <2>2. QED
    BY <1>2, <1>3, <2>1 DEF OnceInWindow
<1>5. CASE j = Len(log) + 1
  <2> DEFINE between == {log[k] : k \in i + 1 .. j - 1}
  <2>1. i \in 1 .. Len(log) /\ log[i] = m
    BY <1>1, <1>2, <1>5
  <2>2. Since(m) \subseteq between
    <3> SUFFICES ASSUME NEW y \in Since(m) PROVE y \in between
      OBVIOUS
    <3>1. PICK n \in 1 .. Len(log) : /\ y = log[n]
                                     /\ \A l \in 1 .. Len(log) : log[l] = m => l < n
      BY DEF Since
    <3>2. n \in i + 1 .. j - 1
      BY <1>1, <1>5, <2>1, <3>1
    <3>3. QED
      BY <3>1, <3>2
  <2>3. between \subseteq Stored /\ IsFiniteSet(Stored)
    <3>1. i + 1 .. j - 1 \subseteq 1 .. Len(log)
      BY <1>1, <1>5, <2>1
    <3>2. QED
      BY <3>1, StoredFinite DEF Stored
  <2> HIDE DEF between
  <2>4. IsFiniteSet(between) /\ IsFiniteSet(Since(m))
    BY <2>2, <2>3, FS_Subset
  <2>5. /\ Cardinality(Since(m)) <= Cardinality(between)
        /\ Cardinality(Since(m)) \in Nat /\ Cardinality(between) \in Nat
    BY <2>2, <2>4, FS_Subset, FS_CardinalityType
  <2>6. Cardinality(Since(m)) >= SeenCap - 1
    BY <2>1 DEF Stored
  <2>7. Cardinality(between) >= SeenCap - 1
    BY <2>5, <2>6, FoxMQBusAssumption
  <2>8. QED
    BY <1>3, <2>7 DEF between
<1>6. j <= Len(log) \/ j = Len(log) + 1
  BY <1>1, <1>2
<1>7. QED
  BY <1>4, <1>5, <1>6

\* What is left of the first id of a full window: the SeenCap - 1 others and the
\* one that pushes it out are after it in the log, one of them perhaps not.
LEMMA PushedOut ==
  ASSUME Typed, Distinct, InOrder, NEW m \in InFlight \ Remembered, Len(seen) = SeenCap
  PROVE  Cardinality(Since(seen[1])) >= SeenCap - 1
<1>1. /\ SeenCap \in Nat /\ SeenCap >= 1 /\ seen \in [1 .. Len(seen) -> Id]
      /\ 1 \in 1 .. Len(seen)
  BY FoxMQBusAssumption DEF Typed
<1> DEFINE others == Newer(1)
           rest == 2 .. SeenCap
           f == [b \in rest |-> seen[b]]
<1>2. f \in Bijection(rest, others)
  <2>1. rest \subseteq 1 .. Len(seen) /\ others = {seen[b] : b \in rest}
    BY <1>1 DEF Newer
  <2>2. \A b \in rest : f[b] = seen[b]
    OBVIOUS
  <2>3. f \in [rest -> others] /\ \A y \in others : \E b \in rest : f[b] = y
    BY <2>1, <2>2
  <2>4. \A a, b \in rest : f[a] = f[b] => a = b
    BY <2>1, <2>2 DEF Distinct
  <2> HIDE DEF f, rest, others
  <2>5. QED
    BY <2>3, <2>4 DEF Bijection, Injection, Surjection, IsInjective
<1>3. IsFiniteSet(rest) /\ Cardinality(rest) = SeenCap - 1
  BY <1>1, FS_Interval
<1>4. others \subseteq Remembered
  BY <1>1 DEF Newer, Remembered
<1> HIDE DEF f, rest, others
<1>5. IsFiniteSet(others) /\ Cardinality(others) = SeenCap - 1
  <2>1. ExistsBijection(rest, others)
    BY <1>2 DEF ExistsBijection
  <2>2. QED
    BY <1>3, <2>1, FS_Bijection
<1>6. IsFiniteSet(others \cup {m}) /\ Cardinality(others \cup {m}) = SeenCap
  <2>1. m \notin others
    BY <1>4
  <2>2. QED
    BY <1>1, <1>5, <2>1, FS_AddElement
<1>7. PICK late \in Id : (Newer(1) \cup InFlight) \ {late} \subseteq Since(seen[1])
  BY <1>1 DEF InOrder
<1> DEFINE left == (others \cup {m}) \ {late}
<1>8. IsFiniteSet(left) /\ Cardinality(left) >= SeenCap - 1 /\ Cardinality(left) \in Nat
  <2>1. /\ IsFiniteSet(left)
        /\ Cardinality(left) \in {Cardinality(others \cup {m}) - 1, Cardinality(others \cup {m})}
    BY <1>6, FS_RemoveElement
  <2> HIDE DEF left
  <2>2. QED
    BY <1>1, <1>6, <2>1, FS_CardinalityType
<1>9. left \subseteq Since(seen[1])
  BY <1>7 DEF others
<1> HIDE DEF left
<1>10. IsFiniteSet(Since(seen[1]))
  BY StoredFinite, FS_Subset
<1>11. Cardinality(left) <= Cardinality(Since(seen[1])) /\ Cardinality(Since(seen[1])) \in Nat
  BY <1>9, <1>10, FS_Subset, FS_CardinalityType
<1>12. QED
  BY <1>1, <1>8, <1>11

\* A message goes from the hand of a thread into the window.
LEMMA WindowMarked ==
  ASSUME Typed, WindowInv, NEW m \in InFlight, m \notin Remembered,
         seen' = Within(Append(seen, m)), UNCHANGED <<log, offered>>,
         InFlight' = InFlight \ {m},
         \A x, y \in InFlight' : x = y
  PROVE  /\ Distinct' /\ Sources' /\ InOrder' /\ Gone' /\ OnceInWindow'
         /\ Remembered' \subseteq Remembered \cup {m} /\ Stored' = Stored
<1>1. PICK d \in {0, 1} :
         /\ d = 1 => Len(seen) = SeenCap
         /\ Len(seen) \in Nat /\ Len(seen') = Len(seen) + 1 - d /\ Len(seen') >= 1
         /\ seen'[Len(seen')] = m
         /\ \A a \in 1 .. Len(seen') - 1 : seen'[a] = seen[a + d] /\ a + d \in 1 .. Len(seen)
  <2>1. m \in Id
    BY DEF InFlight
  <2>2. QED
    BY <2>1, Marked
<1>2. /\ \A a \in 1 .. Len(seen') : a = Len(seen') \/ a \in 1 .. Len(seen') - 1
      /\ d \in Nat
  BY <1>1
<1>3. Remembered' \subseteq Remembered \cup {m} /\ m \in Remembered'
  <2>1. \A a \in 1 .. Len(seen') : seen'[a] \in Remembered \cup {m}
    BY <1>1, <1>2 DEF Remembered
  <2>2. Len(seen') \in 1 .. Len(seen')
    BY <1>1
  <2>3. QED
    BY <1>1, <2>1, <2>2 DEF Remembered
<1>4. Stored' = Stored /\ \A x : Since(x)' = Since(x)
  BY DEF Stored, Since
<1>5. Distinct'
  <2> SUFFICES ASSUME NEW a \in 1 .. Len(seen'), NEW b \in 1 .. Len(seen'), seen'[a] = seen'[b]
               PROVE  a = b
    BY DEF Distinct
  <2>1. \A c \in 1 .. Len(seen') - 1 : seen'[c] # m
    BY <1>1 DEF Remembered
  <2>2. CASE a = Len(seen') \/ b = Len(seen')
    BY <1>1, <1>2, <2>1, <2>2
  <2>3. CASE a \in 1 .. Len(seen') - 1 /\ b \in 1 .. Len(seen') - 1
    <3>1. a + d = b + d
      BY <1>1, <2>3 DEF WindowInv, Distinct
    <3>2. QED
      BY <1>1, <1>2, <3>1
  <2>4. QED
    BY <1>2, <2>2, <2>3
<1>6. m \in Stored
  BY DEF WindowInv, Hands, InFlight
<1>7. Sources'
  BY <1>3, <1>4, <1>6 DEF WindowInv, Sources
<1>8. InOrder'
  <2> SUFFICES ASSUME NEW a \in 1 .. Len(seen')
               PROVE  (\E late \in Id : (Newer(a) \cup InFlight) \ {late} \subseteq Since(seen[a]))'
    BY DEF InOrder
  <2>1. CASE a = Len(seen')
    <3>1. Newer(a)' = {}
      BY <1>1, <2>1 DEF Newer
    <3>2. \E late \in Id : InFlight' \subseteq {late}
      BY DEF InFlight
    <3>3. QED
      BY <3>1, <3>2
  <2>2. CASE a \in 1 .. Len(seen') - 1
    <3>1. seen'[a] = seen[a + d] /\ a + d \in 1 .. Len(seen)
      BY <1>1, <2>2
    <3>2. PICK late \in Id : (Newer(a + d) \cup InFlight) \ {late} \subseteq Since(seen[a + d])
      BY <3>1 DEF WindowInv, InOrder
    <3>3. Newer(a)' \subseteq Newer(a + d) \cup {m}
      <4> SUFFICES ASSUME NEW b \in a + 1 .. Len(seen') PROVE seen'[b] \in Newer(a + d) \cup {m}
        BY DEF Newer
      <4>1. CASE b = Len(seen')
        BY <1>1, <4>1
      <4>2. CASE b \in 1 .. Len(seen') - 1
        <5>1. seen'[b] = seen[b + d] /\ b + d \in (a + d) + 1 .. Len(seen)
          BY <1>1, <1>2, <4>2
        <5>2. QED
          BY <5>1 DEF Newer
      <4>3. QED
        BY <1>1, <1>2, <4>1, <4>2
    <3>4. Since(seen[a])' = Since(seen[a + d])
      BY <3>1 DEF Since
    <3>5. QED
      BY <3>2, <3>3, <3>4
  <2>3. QED
    BY <1>2, <2>1, <2>2
<1>9. Gone'
  <2> SUFFICES ASSUME NEW x \in Stored' \ (Remembered' \cup InFlight')
               PROVE  Cardinality(Since(x)') >= SeenCap - 1
    BY DEF Gone
  <2>1. x \in Stored /\ x \notin InFlight
    BY <1>3, <1>4
  <2>2. CASE x \notin Remembered
    BY <1>4, <2>1, <2>2 DEF WindowInv, Gone
  <2>3. CASE x \in Remembered
    <3>1. PICK b \in 1 .. Len(seen) : x = seen[b]
      BY <2>3 DEF Remembered
    <3>2. d = 1 /\ b = 1
      <4>1. SUFFICES ASSUME ~(d = 1 /\ b = 1) PROVE FALSE
        OBVIOUS
      <4>2. b - d \in 1 .. Len(seen') - 1 /\ (b - d) + d = b
        BY <1>1, <1>2, <4>1
      <4>3. seen'[b - d] = x /\ b - d \in 1 .. Len(seen')
        BY <1>1, <3>1, <4>2
      <4>4. QED
        BY <4>3 DEF Remembered
    <3>3. Cardinality(Since(seen[1])) >= SeenCap - 1
      BY <1>1, <3>2, PushedOut DEF WindowInv
    <3>4. QED
      BY <1>4, <3>1, <3>2, <3>3
  <2>4. QED
    BY <2>2, <2>3
<1>10. OnceInWindow'
  BY DEF WindowInv, OnceInWindow
<1>11. QED
  BY <1>3, <1>4, <1>5, <1>7, <1>8, <1>9, <1>10

\* A message goes into the inbox and stays in the hand of its thread.
LEMMA WindowStored ==
  ASSUME Typed, WindowInv, NEW m \in Id, m \notin Remembered, m \notin InFlight,
         log' = Append(log, m), UNCHANGED <<seen, offered>>, InFlight' = InFlight \cup {m}
  PROVE  /\ Distinct' /\ Sources' /\ InOrder' /\ Gone' /\ OnceInWindow'
         /\ Stored' = Stored \cup {m} /\ Remembered' = Remembered
<1>1. /\ Stored' = Stored \cup {m} /\ \A x \in Id \ {m} : Since(x)' = Since(x) \cup {m}
  BY Appended
<1>2. Remembered' = Remembered /\ Stored \subseteq Id /\ Remembered \subseteq Id
  BY DEF Remembered, Stored, Typed
<1>3. Distinct' /\ Sources'
  BY <1>1, <1>2 DEF WindowInv, Distinct, Sources
<1>4. InOrder'
  <2> SUFFICES ASSUME NEW a \in 1 .. Len(seen')
               PROVE  (\E late \in Id : (Newer(a) \cup InFlight) \ {late} \subseteq Since(seen[a]))'
    BY DEF InOrder
  <2>1. seen[a] \in Remembered /\ seen[a] \in Id \ {m}
    BY <1>2 DEF Remembered
  <2>2. PICK late \in Id : (Newer(a) \cup InFlight) \ {late} \subseteq Since(seen[a])
    BY DEF WindowInv, InOrder
  <2>3. Since(seen[a])' = Since(seen[a]) \cup {m}
    <3>1. PICK x \in Id \ {m} : x = seen[a]
      BY <2>1
    <3>2. Since(x)' = Since(x) \cup {m} /\ Since(x) = Since(seen[a]) /\ x = seen'[a]
      BY <1>1, <3>1
    <3>3. Since(seen[a])' = Since(x)'
      BY <3>2 DEF Since
    <3>4. QED
      BY <3>2, <3>3
  <2>4. Newer(a)' = Newer(a)
    BY DEF Newer
  <2>5. QED
    BY <2>2, <2>3, <2>4
<1>5. Gone'
  <2> SUFFICES ASSUME NEW x \in Stored' \ (Remembered' \cup InFlight')
               PROVE  Cardinality(Since(x)') >= SeenCap - 1
    BY DEF Gone
  <2>1. x \in Id \ {m} /\ x \in Stored \ (Remembered \cup InFlight)
    BY <1>1, <1>2
  <2>2. Cardinality(Since(x)) >= SeenCap - 1
    BY <2>1 DEF WindowInv, Gone
  <2>3. Since(x)' = Since(x) \cup {m}
    BY <1>1, <2>1
  <2>4. IsFiniteSet(Since(x)) /\ Cardinality(Since(x)) \in Nat
    BY StoredFinite, FS_Subset, FS_CardinalityType
  <2>5. Cardinality(Since(x)') \in {Cardinality(Since(x)), Cardinality(Since(x)) + 1}
    BY <2>3, <2>4, FS_AddElement
  <2>6. QED
    BY <2>2, <2>4, <2>5, FoxMQBusAssumption
<1>6. OnceInWindow'
  <2>1. m \in Stored => Cardinality(Since(m)) >= SeenCap - 1
    BY DEF WindowInv, Gone
  <2>2. QED
    BY <2>1, OnceAppended DEF WindowInv
<1>7. QED
  BY <1>1, <1>2, <1>3, <1>4, <1>5, <1>6

\* The places where a thread has a message.
Holding == {"mark", "send", "store", "note"}

LEMMA OrderKept ==
  ASSUME InOrder, UNCHANGED <<log, seen>>, InFlight' = InFlight
  PROVE  InOrder'
<1> SUFFICES ASSUME NEW a \in 1 .. Len(seen')
             PROVE  (\E late \in Id : (Newer(a) \cup InFlight) \ {late} \subseteq Since(seen[a]))'
  BY DEF InOrder
<1>1. \E late \in Id : (Newer(a) \cup InFlight) \ {late} \subseteq Since(seen[a])
  BY DEF InOrder
<1>2. Newer(a)' = Newer(a) /\ Since(seen[a])' = Since(seen[a])
  BY DEF Newer, Since
<1>3. QED
  BY <1>1, <1>2

\* Every other step leaves the inbox and the window alone, and the hands.
LEMMA WindowAside ==
  ASSUME WindowInv, UNCHANGED <<log, seen, offered, hand>>,
         \A t \in {"main", "loop"} :
           pc'[t] = pc[t] \/ (pc[t] \notin Holding /\ pc'[t] \notin Holding)
  PROVE  WindowInv'
<1>1. Stored' = Stored /\ Remembered' = Remembered /\ \A x : Since(x)' = Since(x)
  BY DEF Stored, Remembered, Since
<1>2. InFlight' = InFlight
  BY DEF InFlight, Holding
<1>3. Hands' /\ Distinct' /\ Sources'
  BY <1>1 DEF WindowInv, Hands, Distinct, Sources, Holding
<1>4. InOrder'
  BY <1>2, OrderKept DEF WindowInv
<1>5. Gone' /\ OnceInWindow'
  BY <1>1, <1>2 DEF WindowInv, Gone, OnceInWindow
<1>6. QED
  BY <1>3, <1>4, <1>5 DEF WindowInv

LEMMA WindowInit == Init => WindowInv
<1> SUFFICES ASSUME Init PROVE WindowInv
  OBVIOUS
<1>1. Len(log) = 0 /\ Len(seen) = 0 /\ 1 .. Len(log) = {} /\ 1 .. Len(seen) = {}
  BY DEF Init
<1>2. Stored = {} /\ Remembered = {}
  BY <1>1 DEF Stored, Remembered
<1>3. Hands
  BY Threads DEF Init, Hands
<1>4. Distinct /\ Sources /\ InOrder /\ Gone /\ OnceInWindow
  BY <1>1, <1>2 DEF Init, Distinct, Sources, InOrder, Gone, OnceInWindow
<1>5. QED
  BY <1>3, <1>4 DEF WindowInv

LEMMA WindowNext == FoxInv /\ WindowInv /\ Next => WindowInv'
<1> SUFFICES ASSUME FoxInv, WindowInv, Next PROVE WindowInv'
  OBVIOUS
<1> USE DEF conn, retry, ids
<1>0. Typed /\ Hands /\ Sources
  BY DEF FoxInv, WindowInv
<1>1. ASSUME UNCHANGED <<log, seen, offered, hand>>,
             NEW t \in Thread, NEW place \in Place \ Holding, Goto(t, place), pc[t] \notin Holding
      PROVE  WindowInv'
  <2>1. pc'[t] = place /\ \A u \in Thread \ {t} : pc'[u] = pc[u]
    BY <1>0, <1>1, Moved
  <2>2. QED
    BY <1>1, <2>1, Threads, WindowAside
<1>2. ASSUME NEW t \in Thread, Retry(t) PROVE WindowInv'
  <2>1. /\ UNCHANGED <<log, seen, offered, hand>>
        /\ \A u \in {"main", "loop"} :
             pc'[u] = pc[u] \/ (pc[u] \notin Holding /\ pc'[u] \notin Holding)
    BY <1>0, <1>2, RetryMoves, Threads DEF OnTheWay, Holding
  <2>2. QED
    BY <2>1, WindowAside
<1>4. CASE Connect \/ Connected \/ OnRefused \/ Drop \/ OnDisconnect
          \/ Close \/ FindTimer \/ ForgetTimer \/ Closed
  <2>1. UNCHANGED <<log, seen, offered, hand>>
    BY <1>4 DEF Connect, Connected, OnRefused, Drop, OnDisconnect, Close,
                FindTimer, ForgetTimer, Closed
  <2>2. \E t \in {"main", "loop"}, place \in {"dial", "idle", "dropped", "check", "closing",
                                              "cancel", "forgotten"} :
          Goto(t, place) /\ pc[t] \in {"idle", "dial", "dropped", "closing", "forget", "forgotten"}
    BY <1>4 DEF Connect, Connected, OnRefused, Drop, OnDisconnect, Close,
                FindTimer, ForgetTimer, Closed
  <2>3. QED
    BY <1>1, <2>1, <2>2, Threads DEF Place, Holding
<1>5. CASE OnConnect \/ LoopReopens
  <2>1. pc' = pc /\ UNCHANGED <<log, seen, offered, hand>>
    BY <1>5 DEF OnConnect, LoopReopens
  <2>2. QED
    BY <2>1, WindowAside
<1>6. CASE CancelTimer
  <2>1. /\ pc["main"] = "cancel" /\ UNCHANGED <<log, seen, offered, hand>>
        /\ pc'["main"] \in {"idle", "forget"} /\ pc'["loop"] = pc["loop"]
    BY <1>0, <1>6, Threads DEF CancelTimer, Typed
  <2>2. QED
    BY <2>1, WindowAside DEF Holding
<1>7. ASSUME NEW m \in Own, Publish(m) PROVE WindowInv'
  <2>1. /\ Goto("main", "mark") /\ log' = Append(log, m) /\ pc["main"] = "idle"
        /\ hand' = [hand EXCEPT !["main"] = m] /\ UNCHANGED <<seen, offered>>
        /\ m \notin Stored
    BY <1>7 DEF Publish, Stored
  <2>2. /\ m \in Id /\ m \notin offered /\ m \notin Remembered
    BY <1>0, <2>1, FoxMQBusAssumption DEF Id, Sources
  <2>3. /\ pc'["main"] = "mark" /\ pc'["loop"] = pc["loop"]
        /\ hand'["main"] = m /\ hand'["loop"] = hand["loop"]
    BY <1>0, <2>1, Threads, Moved DEF Place, Typed
  <2>4. m \notin InFlight /\ InFlight' = InFlight \cup {m}
    BY <1>0, <2>1, <2>2, <2>3 DEF InFlight, Hands
  <2>5. /\ Distinct' /\ Sources' /\ InOrder' /\ Gone' /\ OnceInWindow'
        /\ Stored' = Stored \cup {m} /\ Remembered' = Remembered
    BY <1>0, <2>1, <2>2, <2>4, WindowStored
  <2>6. Hands'
    BY <1>0, <2>1, <2>2, <2>3, <2>5 DEF Hands
  <2>7. QED
    BY <2>5, <2>6 DEF WindowInv
<1>8. CASE MarkOwn
  <2> DEFINE m == hand["main"]
  <2>1. /\ pc["main"] = "mark" /\ m \in Id /\ seen' = Within(Append(seen, m))
        /\ \E place \in {"send", "idle"} : Goto("main", place)
        /\ UNCHANGED <<hand, log, offered>>
    BY <1>8 DEF MarkOwn, FoxInv, InHand
  <2>2. pc'["main"] \in {"send", "idle"} /\ pc'["loop"] = pc["loop"]
    BY <1>0, <2>1, Threads, Moved DEF Place
  <2>3. m \in Stored /\ m \notin offered /\ m \notin Remembered
    BY <1>0, <2>1 DEF Hands
  <2>4. pc["loop"] = "note" => hand["loop"] # m
    BY <1>0, <2>3 DEF Hands
  <2>5. /\ m \in InFlight /\ InFlight' = InFlight \ {m}
        /\ \A x, y \in InFlight' : x = y
    BY <2>1, <2>2, <2>4 DEF InFlight
  <2>6. /\ Distinct' /\ Sources' /\ InOrder' /\ Gone' /\ OnceInWindow'
        /\ Remembered' \subseteq Remembered \cup {m} /\ Stored' = Stored
    <3> HIDE DEF m
    <3>1. QED
      BY <1>0, <2>1, <2>3, <2>5, WindowMarked
  <2>7. Hands'
    BY <1>0, <2>1, <2>2, <2>3, <2>6 DEF Hands
  <2>8. QED
    BY <2>6, <2>7 DEF WindowInv
<1>9. CASE SendOut
  <2>1. /\ pc["main"] = "send" /\ hand' = [hand EXCEPT !["main"] = "none"]
        /\ offered \subseteq offered' /\ offered' \subseteq offered \cup {hand["main"]}
        /\ \E place \in {"check", "idle"} : Goto("main", place)
        /\ UNCHANGED <<seen, log>>
    BY <1>9 DEF SendOut
  <2>2. /\ pc'["main"] \in {"check", "idle"} /\ pc'["loop"] = pc["loop"]
        /\ hand'["loop"] = hand["loop"]
    BY <1>0, <2>1, Threads, Moved DEF Place, Typed
  <2>3. Stored' = Stored /\ Remembered' = Remembered /\ \A x : Since(x)' = Since(x)
    BY <2>1 DEF Stored, Remembered, Since
  <2>4. InFlight' = InFlight
    BY <2>1, <2>2 DEF InFlight
  <2>5. Hands' /\ Sources'
    BY <1>0, <2>1, <2>2, <2>3 DEF Hands, Sources
  <2>6. InOrder'
    BY <2>1, <2>4, OrderKept DEF WindowInv
  <2>7. Distinct' /\ Gone' /\ OnceInWindow'
    BY <2>1, <2>3, <2>4 DEF WindowInv, Distinct, Gone, OnceInWindow
  <2>8. QED
    BY <2>5, <2>6, <2>7 DEF WindowInv
<1>10. ASSUME NEW m \in offered, OnMessage(m) PROVE WindowInv'
  <2>1. /\ Goto("loop", "store") /\ pc["loop"] = "idle" /\ m \notin Remembered
        /\ hand' = [hand EXCEPT !["loop"] = m] /\ UNCHANGED <<log, seen, offered>>
    BY <1>10 DEF OnMessage, Known, Remembered
  <2>2. /\ pc'["loop"] = "store" /\ pc'["main"] = pc["main"]
        /\ hand'["loop"] = m /\ hand'["main"] = hand["main"]
    BY <1>0, <2>1, Threads, Moved DEF Place, Typed
  <2>3. Stored' = Stored /\ Remembered' = Remembered /\ \A x : Since(x)' = Since(x)
    BY <2>1 DEF Stored, Remembered, Since
  <2>4. InFlight' = InFlight
    BY <2>1, <2>2 DEF InFlight
  <2>5. Hands' /\ Sources'
    BY <1>0, <2>1, <2>2, <2>3 DEF Hands, Sources
  <2>6. InOrder'
    BY <2>1, <2>4, OrderKept DEF WindowInv
  <2>7. Distinct' /\ Gone' /\ OnceInWindow'
    BY <2>1, <2>3, <2>4 DEF WindowInv, Distinct, Gone, OnceInWindow
  <2>8. QED
    BY <2>5, <2>6, <2>7 DEF WindowInv
<1>11. CASE Store
  <2> DEFINE m == hand["loop"]
  <2>1. /\ pc["loop"] = "store" /\ Goto("loop", "note") /\ m \in Id /\ log' = Append(log, m)
        /\ UNCHANGED <<hand, seen, offered>>
    BY <1>11 DEF Store, FoxInv, InHand
  <2>2. pc'["loop"] = "note" /\ pc'["main"] = pc["main"]
    BY <1>0, <2>1, Threads, Moved DEF Place
  <2>3. m \in offered /\ m \notin Remembered
    BY <1>0, <2>1 DEF Hands
  <2>4. pc["main"] = "mark" => hand["main"] # m
    BY <1>0, <2>3 DEF Hands
  <2>5. m \notin InFlight /\ InFlight' = InFlight \cup {m}
    BY <2>1, <2>2, <2>4 DEF InFlight
  <2>6. /\ Distinct' /\ Sources' /\ InOrder' /\ Gone' /\ OnceInWindow'
        /\ Stored' = Stored \cup {m} /\ Remembered' = Remembered
    <3> HIDE DEF m
    <3>1. QED
      BY <1>0, <2>1, <2>3, <2>5, WindowStored
  <2>7. Hands'
    BY <1>0, <2>1, <2>2, <2>3, <2>6 DEF Hands
  <2>8. QED
    BY <2>6, <2>7 DEF WindowInv
<1>12. CASE Note
  <2> DEFINE m == hand["loop"]
  <2>1. /\ pc["loop"] = "note" /\ m \in Id /\ seen' = Within(Append(seen, m))
        /\ Goto("loop", "idle") /\ hand' = [hand EXCEPT !["loop"] = "none"]
        /\ UNCHANGED <<log, offered>>
    BY <1>12 DEF Note, FoxInv, InHand
  <2>2. pc'["loop"] = "idle" /\ pc'["main"] = pc["main"] /\ hand'["main"] = hand["main"]
    BY <1>0, <2>1, Threads, Moved DEF Place, Typed
  <2>3. m \in Stored /\ m \in offered /\ m \notin Remembered
    BY <1>0, <2>1 DEF Hands
  <2>4. pc["main"] = "mark" => hand["main"] # m
    BY <1>0, <2>3 DEF Hands
  <2>5. /\ m \in InFlight /\ InFlight' = InFlight \ {m}
        /\ \A x, y \in InFlight' : x = y
    BY <2>1, <2>2, <2>4 DEF InFlight
  <2>6. /\ Distinct' /\ Sources' /\ InOrder' /\ Gone' /\ OnceInWindow'
        /\ Remembered' \subseteq Remembered \cup {m} /\ Stored' = Stored
    <3> HIDE DEF m
    <3>1. QED
      BY <1>0, <2>1, <2>3, <2>5, WindowMarked
  <2>7. Hands'
    BY <1>0, <2>1, <2>2, <2>4, <2>6 DEF Hands
  <2>8. QED
    BY <2>6, <2>7 DEF WindowInv
<1>13. QED
  BY <1>2, <1>4, <1>5, <1>6, <1>7, <1>8, <1>9, <1>10, <1>11, <1>12 DEF Next, Retry

\* However the two threads interleave, and whatever the broker delivers again, a
\* message is remembered a second time only after SeenCap - 1 others.
THEOREM RememberedOnce == Spec => []OnceInWindow
<1>1. FoxInv /\ WindowInv /\ [Next]_vars => WindowInv'
  <2> SUFFICES ASSUME FoxInv, WindowInv, [Next]_vars PROVE WindowInv'
    OBVIOUS
  <2>1. CASE Next
    BY <2>1, WindowNext
  <2>2. CASE UNCHANGED vars
    BY <2>2, WindowAside DEF vars, ids
  <2>3. QED
    BY <2>1, <2>2
<1>2. WindowInv => OnceInWindow
  BY DEF WindowInv
<1>3. QED
  BY <1>1, <1>2, WindowInit, FoxInvariant, PTL DEF Spec
=============================================================================
