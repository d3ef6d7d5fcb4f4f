-------------------------- MODULE VertexBus_proofs --------------------------
(***************************************************************************)
(* Invariants of the vertex bus for any threshold, any number of messages  *)
(* and any traffic of other nodes.  The caller and the helper meet in the  *)
(* pipe, the event and the marker lines; each part of the invariant says   *)
(* what one of these holds of the other side.                              *)
(***************************************************************************)
EXTENDS VertexBus, FiniteSetTheorems, TLAPS

Typed ==
  /\ strict \in BOOLEAN /\ bridge \in BOOLEAN /\ event \in BOOLEAN
  /\ readError \in BOOLEAN /\ ready \in BOOLEAN
  /\ mode \in {"real", "stub"}
  /\ stalls \in 0 .. Threshold
  /\ pc \in {"start", "greet", "idle", "test", "write", "wait", "failed", "raised",
             "refused", "closed"}
  /\ helper \in {"none", "up", "dead"}
  /\ pipe \in Seq(1 .. MaxMsg)
  /\ lines \in Nat /\ heard \in 0 .. MaxHeard
  /\ relayed \in SUBSET (1 .. MaxMsg) /\ read \in Nat /\ left \in 0 .. MaxMsg
  /\ verdicts \in Seq({"ok", "stall", "local"}) /\ Len(verdicts) <= MaxMsg

\* A caller is inside a publish over the bridge only while there is a bridge.
Placed ==
  /\ pc \in {"greet", "test", "write", "wait", "failed", "raised"} => bridge
  /\ pc \in {"test", "write", "wait", "failed", "raised"} => Len(verdicts) < MaxMsg
  /\ pc = "start" => helper = "none"
  /\ helper = "none" => stalls = 0
  /\ bridge => helper # "none" /\ stalls < Threshold

\* The stall counter counts the last verdicts.
Counted ==
  bridge => /\ stalls <= Len(verdicts)
            /\ \A j \in Len(verdicts) - stalls + 1 .. Len(verdicts) : verdicts[j] = "stall"

\* Past the test of the helper, a dead one died under this very publish.
Mourned ==
  /\ pc \in {"write", "wait", "raised"} /\ helper = "dead" => left = Len(verdicts) + 1
  /\ pc = "raised" => helper = "dead"
  /\ helper = "dead" /\ bridge => Len(verdicts) - left <= stalls

\* An event seen by a waiting caller was set after its publish cleared it.
Earned ==
  /\ Oks \in Nat
  /\ Oks <= read
  /\ event /\ pc \in {"test", "write", "wait"} => Oks < read

Written == Len(verdicts) + (IF pc \in {"wait", "failed"} THEN 1 ELSE 0)

\* The pipe is in order and nothing in it was relayed before.
Ordered ==
  /\ \A i, j \in 1 .. Len(pipe) : i < j => pipe[i] < pipe[j]
  /\ \A i \in 1 .. Len(pipe) : pipe[i] <= Written
  /\ \A m \in relayed : m <= Written /\ \A i \in 1 .. Len(pipe) : m < pipe[i]

\* Every marker line, read or not, is a relayed message, a packet heard or the
\* announcement.
Accounted ==
  lines + read = Cardinality(relayed) + heard + (IF ready THEN 1 ELSE 0)

BusInv ==
  /\ Typed /\ Placed /\ Counted /\ GivenUpInARow /\ Mourned
  /\ Earned /\ Ordered /\ Accounted

-----------------------------------------------------------------------------
\* What Append does to a history, elementwise.
LEMMA Appended ==
  ASSUME NEW S, NEW s \in Seq(S), NEW e \in S
  PROVE  /\ Append(s, e) \in Seq(S)
         /\ Len(Append(s, e)) = Len(s) + 1
         /\ \A i \in 1 .. Len(s) : Append(s, e)[i] = s[i]
         /\ Append(s, e)[Len(s) + 1] = e
OBVIOUS

LEMMA Elements ==
  ASSUME NEW S, NEW s \in Seq(S)
  PROVE  \A i \in 1 .. Len(s) : s[i] \in S
OBVIOUS

\* And what Tail leaves of a queue.
LEMMA Taken ==
  ASSUME NEW S, NEW s \in Seq(S), s # << >>
  PROVE  /\ Tail(s) \in Seq(S) /\ Head(s) \in S /\ Head(s) = s[1]
         /\ Len(s) >= 1 /\ Len(Tail(s)) = Len(s) - 1
         /\ \A i \in 1 .. Len(s) - 1 : Tail(s)[i] = s[i + 1]
OBVIOUS

LEMMA InitBus == Init => BusInv
<1> SUFFICES ASSUME Init PROVE BusInv
  OBVIOUS
<1>0. Typed
  <2>1. /\ pipe \in Seq(1 .. MaxMsg) /\ verdicts \in Seq({"ok", "stall", "local"})
        /\ Len(verdicts) = 0
    BY DEF Init
  <2>2. 0 \in 0 .. MaxMsg /\ 0 \in 0 .. MaxHeard /\ 0 \in 0 .. Threshold /\ 0 <= MaxMsg
    BY VertexBusAssumption
  <2>3. QED
    BY <2>1, <2>2 DEF Init, Typed
<1>1. Placed /\ Mourned /\ Counted /\ GivenUpInARow
  BY DEF Init, Placed, Mourned, Counted, GivenUpInARow
<1>2. Earned
  <2>1. {i \in DOMAIN verdicts : verdicts[i] = "ok"} = {}
    BY DEF Init
  <2>2. Oks = 0
    BY <2>1, FS_EmptySet DEF Oks
  <2>3. QED
    BY <2>2 DEF Init, Earned
<1>3. Ordered
  BY DEF Init, Ordered
<1>4. Accounted
  BY FS_EmptySet DEF Init, Accounted
<1>5. QED
  BY <1>0, <1>1, <1>2, <1>3, <1>4 DEF BusInv
-----------------------------------------------------------------------------
LEMMA TypedNext == BusInv /\ Next => Typed'
<1> SUFFICES ASSUME BusInv, Next PROVE Typed'
  OBVIOUS
<1> USE VertexBusAssumption DEF bus, process, reader
<1>0. Typed /\ Placed
  BY DEF BusInv
<1>1. CASE StartFails \/ StartHelper \/ Greeted \/ Ungreeted
  BY <1>0, <1>1 DEF StartFails, StartHelper, Greeted, Ungreeted, Typed, Refused,
                    WithoutHelper
<1>2. CASE PublishLocally
  BY <1>0, <1>2, Appended DEF PublishLocally, Another, Typed
<1>3. CASE Publish
  <2>1. event' \in BOOLEAN
    BY <1>3 DEF Publish
  <2>2. pc' \in {"failed", "test"} /\ UNCHANGED <<bus, process, reader, verdicts>>
    BY <1>3 DEF Publish
  <2>3. QED
    BY <1>0, <2>1, <2>2 DEF Typed
<1>4. CASE Test \/ TimedOut
  BY <1>0, <1>4 DEF Test, TimedOut, Typed
<1>5. CASE Write
  <2>1. CASE helper = "up"
    <3>1. Len(verdicts) + 1 \in 1 .. MaxMsg
      BY <1>0, <1>5 DEF Write, Placed, Typed
    <3>2. pipe' \in Seq(1 .. MaxMsg)
      <4>1. pipe' = Append(pipe, Len(verdicts) + 1) /\ pipe \in Seq(1 .. MaxMsg)
        BY <1>0, <1>5, <2>1 DEF Write, Typed
      <4>2. QED
        BY <3>1, <4>1, Appended
    <3>3. QED
      BY <1>0, <1>5, <2>1, <3>2 DEF Write, Typed
  <2>2. CASE helper # "up"
    BY <1>0, <1>5, <2>2 DEF Write, Typed
  <2>3. QED
    BY <2>1, <2>2
<1>6. CASE Confirmed
  <2>1. verdicts' \in Seq({"ok", "stall", "local"}) /\ Len(verdicts') <= MaxMsg
    BY <1>0, <1>6, Appended DEF Confirmed, Placed, Typed
  <2>2. QED
    BY <1>0, <1>6, <2>1 DEF Confirmed, Typed
<1>7. CASE Stalled
  <2>1. verdicts' \in Seq({"ok", "stall", "local"}) /\ Len(verdicts') <= MaxMsg
    BY <1>0, <1>7, Appended DEF Stalled, Placed, Typed
  <2>2. Begun \in 0 .. MaxMsg /\ stalls + 1 \in 0 .. Threshold
    BY <1>0, <1>7 DEF Stalled, Placed, Typed, Begun
  <2>3. CASE stalls + 1 >= Threshold
    <3>1. left' \in 0 .. MaxMsg
      BY <1>0, <1>7, <2>2, <2>3 DEF Stalled, Dead, Typed
    <3>2. QED
      BY <1>0, <1>7, <2>1, <2>2, <2>3, <3>1 DEF Stalled, Dead, Typed
  <2>4. CASE ~(stalls + 1 >= Threshold)
    BY <1>0, <1>7, <2>1, <2>2, <2>4 DEF Stalled, Typed
  <2>5. QED
    BY <2>3, <2>4
<1>8. CASE Close \/ HelperDies
  <2>1. Begun \in 0 .. MaxMsg
    BY <1>0 DEF Begun, Placed, Typed
  <2>2. left' \in 0 .. MaxMsg
    BY <1>0, <1>8, <2>1 DEF Close, HelperDies, Dead, Typed
  <2>3. QED
    BY <1>0, <1>8, <2>2 DEF Close, HelperDies, Dead, Typed
<1>9. CASE ReadLine
  BY <1>0, <1>9 DEF ReadLine, Typed
<1>10. CASE ReadCrash \/ HelperReady
  <2>1. lines' \in Nat /\ readError' \in BOOLEAN /\ ready' \in BOOLEAN
    <3>1. CASE ReadCrash
      BY <1>0, <3>1 DEF ReadCrash, Typed
    <3>2. CASE HelperReady
      BY <1>0, <3>2 DEF HelperReady, Typed
    <3>3. QED
      BY <1>10, <3>1, <3>2
  <2>2. UNCHANGED <<bus, helper, pipe, heard, relayed, left, read, pc, event, verdicts>>
    BY <1>10 DEF ReadCrash, HelperReady
  <2>3. QED
    BY <1>0, <2>1, <2>2 DEF Typed
<1>11. CASE Hear
  <2>1. heard' \in 0 .. MaxHeard /\ lines' \in Nat
    BY <1>0, <1>11 DEF Hear, Typed
  <2>2. QED
    BY <1>0, <1>11, <2>1 DEF Hear, Typed
<1>12. CASE Relay
  <2>1. pipe \in Seq(1 .. MaxMsg) /\ pipe # << >> /\ lines \in Nat
        /\ relayed \in SUBSET (1 .. MaxMsg)
    BY <1>0, <1>12 DEF Relay, Typed
  <2>2. Tail(pipe) \in Seq(1 .. MaxMsg) /\ Head(pipe) \in 1 .. MaxMsg
    BY <2>1, Taken
  <2>3. /\ pipe' = Tail(pipe) /\ relayed' = relayed \cup {Head(pipe)}
        /\ lines' = lines + 1
        /\ UNCHANGED <<bus, helper, ready, heard, left, read, readError, pc, event,
                       verdicts>>
    BY <1>12 DEF Relay
  <2>4. /\ pipe' \in Seq(1 .. MaxMsg) /\ relayed' \in SUBSET (1 .. MaxMsg)
        /\ lines' \in Nat
    <3>1. pipe' \in Seq(1 .. MaxMsg)
      BY <2>2, <2>3
    <3>2. relayed' \in SUBSET (1 .. MaxMsg)
      BY <2>1, <2>2, <2>3
    <3>3. lines' \in Nat
      BY <2>1, <2>3
    <3>4. QED
      BY <3>1, <3>2, <3>3
  <2>5. QED
    BY <1>0, <2>3, <2>4 DEF Typed
<1>13. QED
  BY <1>1, <1>2, <1>3, <1>4, <1>5, <1>6, <1>7, <1>8, <1>9, <1>10, <1>11, <1>12 DEF Next

\* The caller's own actions change where it is, the helper's never do.
LEMMA PlacedNext == BusInv /\ Next => Placed'
<1> SUFFICES ASSUME BusInv, Next PROVE Placed'
  OBVIOUS
<1> USE VertexBusAssumption DEF bus, process, reader
<1>0. Typed /\ Placed
  BY DEF BusInv
<1>1. CASE StartFails \/ StartHelper \/ Greeted \/ Ungreeted
  BY <1>0, <1>1 DEF StartFails, StartHelper, Greeted, Ungreeted, Typed, Placed, Refused
<1>2. CASE PublishLocally \/ Publish
  BY <1>0, <1>2 DEF PublishLocally, Publish, Another, Typed, Placed
<1>3. CASE Test \/ Write \/ TimedOut
  BY <1>0, <1>3 DEF Test, Write, TimedOut, Typed, Placed
<1>4. CASE Confirmed
  BY <1>0, <1>4 DEF Confirmed, Typed, Placed
<1>5. CASE Stalled
  <2>1. CASE stalls + 1 >= Threshold
    BY <1>0, <1>5, <2>1 DEF Stalled, Dead, Typed, Placed
  <2>2. CASE ~(stalls + 1 >= Threshold)
    BY <1>0, <1>5, <2>2 DEF Stalled, Typed, Placed
  <2>3. QED
    BY <2>1, <2>2
<1>6. CASE Close \/ HelperDies
  BY <1>0, <1>6 DEF Close, HelperDies, Dead, Typed, Placed
<1>7. CASE ReadLine \/ ReadCrash \/ HelperReady \/ Relay \/ Hear
  BY <1>0, <1>7 DEF ReadLine, ReadCrash, HelperReady, Relay, Hear, Typed, Placed
<1>8. QED
  BY <1>1, <1>2, <1>3, <1>4, <1>5, <1>6, <1>7 DEF Next

\* stalls starts again from 0 at every confirmation, so what it counts is a run.
LEMMA CountedNext == BusInv /\ Next => Counted' /\ GivenUpInARow'
<1> SUFFICES ASSUME BusInv, Next PROVE Counted' /\ GivenUpInARow'
  OBVIOUS
<1> USE VertexBusAssumption DEF bus, process, reader
<1>0. Typed /\ Placed /\ Counted /\ GivenUpInARow
  BY DEF BusInv
<1>1. CASE StartFails \/ StartHelper \/ Greeted \/ Ungreeted
  <2>1. verdicts' = verdicts /\ stalls' = stalls
    BY <1>1 DEF StartFails, StartHelper, Greeted, Ungreeted
  <2>2. \/ bridge' = bridge /\ helper' = helper
        \/ bridge' = TRUE /\ stalls = 0 /\ helper' = "up"
    BY <1>0, <1>1 DEF StartFails, StartHelper, Greeted, Ungreeted, Placed
  <2>3. CASE bridge' = bridge /\ helper' = helper
    BY <1>0, <2>1, <2>3 DEF Counted, GivenUpInARow
  <2>4. CASE bridge' = TRUE /\ stalls = 0
    BY <1>0, <2>1, <2>4 DEF Counted, GivenUpInARow, Typed
  <2>5. QED
    BY <2>2, <2>3, <2>4
<1>2. CASE PublishLocally
  <2>1. /\ ~bridge /\ UNCHANGED <<bridge, stalls, helper>>
        /\ verdicts' = Append(verdicts, "local")
        /\ verdicts \in Seq({"ok", "stall", "local"})
    BY <1>0, <1>2 DEF PublishLocally, Typed
  <2>2. /\ Len(verdicts') = Len(verdicts) + 1
        /\ \A i \in 1 .. Len(verdicts) : verdicts'[i] = verdicts[i]
    BY <2>1, Appended
  <2>3. Counted'
    BY <2>1 DEF Counted
  <2>4. ASSUME helper # "none" PROVE GivenUpInARow'
    <3>1. PICK i \in Threshold .. Len(verdicts) :
             \A j \in i - Threshold + 1 .. i : verdicts[j] = "stall"
      BY <1>0, <2>1, <2>4 DEF GivenUpInARow
    <3>2. \A j \in i - Threshold + 1 .. i : verdicts'[j] = "stall"
      BY <2>2, <3>1
    <3>3. i \in Threshold .. Len(verdicts')
      BY <2>1, <2>2, <3>1
    <3>4. QED
      BY <3>2, <3>3 DEF GivenUpInARow
  <2>5. QED
    BY <2>1, <2>3, <2>4 DEF GivenUpInARow
<1>3. CASE Confirmed
  <2>1. /\ bridge /\ bridge' = bridge /\ stalls' = 0
        /\ verdicts' = Append(verdicts, "ok")
        /\ verdicts \in Seq({"ok", "stall", "local"})
    BY <1>0, <1>3 DEF Confirmed, Typed, Placed
  <2>2. Len(verdicts') \in Nat
    BY <2>1, Appended
  <2>3. QED
    BY <2>1, <2>2 DEF Counted, GivenUpInARow
<1>4. CASE Stalled
  <2>1. /\ bridge /\ stalls \in Nat /\ stalls' = stalls + 1
        /\ verdicts' = Append(verdicts, "stall")
        /\ verdicts \in Seq({"ok", "stall", "local"})
        /\ stalls + 1 < Threshold => bridge'
        /\ stalls + 1 >= Threshold => ~bridge'
    <3>1. bridge /\ stalls \in Nat /\ verdicts \in Seq({"ok", "stall", "local"})
      BY <1>0, <1>4 DEF Stalled, Typed, Placed
    <3>2. CASE stalls + 1 >= Threshold
      BY <1>4, <3>1, <3>2 DEF Stalled
    <3>3. CASE ~(stalls + 1 >= Threshold)
      BY <1>4, <3>1, <3>3 DEF Stalled, Typed
    <3>4. QED
      BY <3>2, <3>3
  <2>2. /\ Len(verdicts') = Len(verdicts) + 1 /\ Len(verdicts) \in Nat
        /\ \A i \in 1 .. Len(verdicts) : verdicts'[i] = verdicts[i]
        /\ verdicts'[Len(verdicts) + 1] = "stall"
    BY <2>1, Appended
  <2>3. /\ stalls' <= Len(verdicts')
        /\ \A j \in Len(verdicts') - stalls' + 1 .. Len(verdicts') : verdicts'[j] = "stall"
    BY <1>0, <2>1, <2>2 DEF Counted
  <2>4. CASE stalls + 1 < Threshold
    BY <2>1, <2>3, <2>4 DEF Counted, GivenUpInARow
  <2>5. CASE ~(stalls + 1 < Threshold)
    <3>1. stalls' = Threshold
      BY <1>0, <2>1, <2>5 DEF Typed, Placed
    <3>2. Len(verdicts') \in Threshold .. Len(verdicts')
      BY <2>2, <2>3, <3>1
    <3>3. QED
      BY <1>0, <2>1, <2>3, <2>5, <3>1, <3>2 DEF Counted, GivenUpInARow, Typed
  <2>6. QED
    BY <2>4, <2>5
<1>5. CASE Publish \/ Test \/ Write \/ TimedOut \/ ReadLine \/ ReadCrash \/ HelperReady
           \/ Relay \/ Hear
  <2>1. UNCHANGED <<bridge, stalls, verdicts, helper>>
    BY <1>5 DEF Publish, Test, Write, TimedOut, ReadLine, ReadCrash, HelperReady, Relay, Hear
  <2>2. QED
    BY <1>0, <2>1 DEF Counted, GivenUpInARow
<1>6. CASE Close \/ HelperDies
  <2>1. UNCHANGED <<bridge, stalls, verdicts>>
    BY <1>6 DEF Close, HelperDies
  <2>2. helper' = helper \/ bridge \/ helper = "up"
    BY <1>6 DEF Close, HelperDies
  <2>3. QED
    BY <1>0, <2>1, <2>2 DEF Counted, GivenUpInARow
<1>7. QED
  BY <1>1, <1>2, <1>3, <1>4, <1>5, <1>6 DEF Next

LEMMA MournedNext == BusInv /\ Next => Mourned'
<1> SUFFICES ASSUME BusInv, Next PROVE Mourned'
  OBVIOUS
<1> USE VertexBusAssumption DEF bus, process, reader
<1>0. Typed /\ Placed /\ Mourned
  BY DEF BusInv
<1>1. CASE StartFails \/ StartHelper \/ Greeted \/ Ungreeted
  BY <1>0, <1>1 DEF StartFails, StartHelper, Greeted, Ungreeted, Typed, Placed, Mourned,
                    Refused
<1>2. CASE PublishLocally
  <2>1. pc' = pc /\ pc = "idle" /\ bridge' = FALSE
    BY <1>0, <1>2 DEF PublishLocally, Another, Typed
  <2>2. QED
    BY <2>1 DEF Mourned
<1>3. CASE Publish \/ Test \/ TimedOut
  BY <1>0, <1>3 DEF Publish, Another, Test, TimedOut, Typed, Mourned
<1>4. CASE Write
  <2>1. CASE helper = "up"
    BY <1>0, <1>4, <2>1 DEF Write, Typed, Mourned
  <2>2. CASE helper # "up"
    BY <1>0, <1>4, <2>2 DEF Write, Typed, Placed, Mourned
  <2>3. QED
    BY <2>1, <2>2
<1>5. CASE Confirmed
  <2>1. /\ pc = "wait" /\ pc' = "idle" /\ stalls' = 0
        /\ UNCHANGED <<helper, left, bridge>>
        /\ Len(verdicts') = Len(verdicts) + 1
    BY <1>0, <1>5, Appended DEF Confirmed, Typed
  <2>2. QED
    BY <1>0, <2>1 DEF Mourned, Typed
<1>6. CASE Stalled
  <2>1. /\ pc = "failed" /\ pc' = "idle" /\ stalls' = stalls + 1
        /\ Len(verdicts') = Len(verdicts) + 1
    BY <1>0, <1>6, Appended DEF Stalled, Typed
  <2>2. CASE stalls + 1 >= Threshold
    BY <1>6, <2>1, <2>2 DEF Stalled, Mourned
  <2>3. CASE ~(stalls + 1 >= Threshold)
    <3>1. UNCHANGED <<bridge, helper, left>>
      BY <1>6, <2>3 DEF Stalled
    <3>2. QED
      BY <1>0, <2>1, <3>1 DEF Mourned, Typed
  <2>4. QED
    BY <2>2, <2>3
<1>7. CASE Close \/ HelperDies
  <2>1. CASE UNCHANGED <<helper, left, stalls, verdicts, bridge>>
    BY <1>0, <1>7, <2>1 DEF Close, HelperDies, Mourned
  <2>2. CASE helper = "up"
    BY <1>0, <1>7, <2>2 DEF Close, HelperDies, Dead, Begun, Typed, Mourned
  <2>3. CASE helper # "up" /\ Dead /\ bridge
    BY <1>0, <1>7, <2>3 DEF Close, HelperDies, Dead, Typed, Placed, Mourned
  <2>4. QED
    BY <1>7, <2>1, <2>2, <2>3 DEF Close, HelperDies
<1>8. CASE ReadLine \/ ReadCrash \/ HelperReady \/ Relay \/ Hear
  BY <1>0, <1>8 DEF ReadLine, ReadCrash, HelperReady, Relay, Hear, Mourned
<1>9. QED
  BY <1>1, <1>2, <1>3, <1>4, <1>5, <1>6, <1>7, <1>8 DEF Next

\* An appended verdict is one more "ok" or leaves their number alone.
LEMMA OkAppended ==
  ASSUME Typed, NEW v \in {"ok", "stall", "local"}, verdicts' = Append(verdicts, v)
  PROVE  IF v = "ok" THEN Oks' = Oks + 1 ELSE Oks' = Oks
<1> DEFINE S == {i \in DOMAIN verdicts : verdicts[i] = "ok"}
           T == {i \in DOMAIN verdicts' : verdicts'[i] = "ok"}
<1>1. /\ DOMAIN verdicts = 1 .. Len(verdicts) /\ Len(verdicts) \in Nat
      /\ DOMAIN verdicts' = 1 .. Len(verdicts) + 1
      /\ \A i \in 1 .. Len(verdicts) : verdicts'[i] = verdicts[i]
      /\ verdicts'[Len(verdicts) + 1] = v
  BY Appended DEF Typed
<1>2. IsFiniteSet(S)
  <2>1. IsFiniteSet(1 .. Len(verdicts))
    BY <1>1, FS_Interval
  <2>2. S \in SUBSET (1 .. Len(verdicts))
    BY <1>1
  <2> HIDE DEF S
  <2>3. QED
    BY <2>1, <2>2, FS_Subset
<1>3. CASE v = "ok"
  <2>1. T = S \cup {Len(verdicts) + 1} /\ Len(verdicts) + 1 \notin S
    BY <1>1, <1>3
  <2> HIDE DEF S, T
  <2>2. Cardinality(T) = Cardinality(S) + 1
    BY <1>2, <2>1, FS_AddElement
  <2>3. QED
    BY <1>3, <2>2 DEF Oks, S, T
<1>4. CASE v # "ok"
  <2>1. T = S
    BY <1>1, <1>4
  <2>2. QED
    BY <1>4, <2>1 DEF Oks
<1>5. QED
  BY <1>3, <1>4

LEMMA EarnedNext == BusInv /\ Next => Earned'
<1> SUFFICES ASSUME BusInv, Next PROVE Earned'
  OBVIOUS
<1> USE DEF bus, process, reader
<1>0. Typed /\ Earned /\ read \in Nat
  BY DEF BusInv, Typed
<1>1. CASE PublishLocally
  <2>1. Oks' = Oks
    BY <1>0, <1>1, OkAppended DEF PublishLocally
  <2>2. UNCHANGED <<read, event, pc>>
    BY <1>1 DEF PublishLocally
  <2>3. QED
    BY <1>0, <2>1, <2>2 DEF Earned
<1>2. CASE Confirmed
  <2>1. Oks' = Oks + 1
    BY <1>0, <1>2, OkAppended DEF Confirmed
  <2>2. UNCHANGED read /\ pc' = "idle" /\ Oks < read
    BY <1>0, <1>2 DEF Confirmed, Earned
  <2>3. QED
    BY <1>0, <2>1, <2>2 DEF Earned
<1>3. CASE Stalled
  <2>1. Oks' = Oks
    BY <1>0, <1>3, OkAppended DEF Stalled
  <2>2. UNCHANGED read /\ pc' = "idle"
    BY <1>3 DEF Stalled
  <2>3. QED
    BY <1>0, <2>1, <2>2 DEF Earned
<1>4. CASE Publish
  <2>1. Oks' = Oks /\ read' = read
    BY <1>4 DEF Publish, Oks
  <2>2. ~(event' /\ pc' \in {"test", "write", "wait"})
    BY <1>4 DEF Publish
  <2>3. QED
    BY <1>0, <2>1, <2>2 DEF Earned
<1>5. CASE ReadLine
  <2>1. Oks' = Oks /\ read' = read + 1
    BY <1>5 DEF ReadLine, Oks
  <2>2. QED
    BY <1>0, <2>1 DEF Earned
<1>6. CASE Test \/ Write \/ TimedOut
  <2>1. Oks' = Oks /\ read' = read /\ event' = event
    BY <1>6 DEF Test, Write, TimedOut, Oks
  <2>2. pc' \in {"test", "write", "wait"} => pc \in {"test", "write", "wait"}
    BY <1>6 DEF Test, Write, TimedOut
  <2>3. QED
    BY <1>0, <2>1, <2>2 DEF Earned
<1>7. CASE StartFails \/ StartHelper \/ Greeted \/ Ungreeted \/ Close
  <2>1. Oks' = Oks /\ read' = read /\ pc' \notin {"test", "write", "wait"}
    BY <1>7 DEF StartFails, StartHelper, Greeted, Ungreeted, Close, Oks, Refused
  <2>2. QED
    BY <1>0, <2>1 DEF Earned
<1>8. CASE ReadCrash \/ HelperReady \/ Relay \/ Hear \/ HelperDies
  <2>1. Oks' = Oks /\ read' = read /\ event' = event /\ pc' = pc
    BY <1>8 DEF ReadCrash, HelperReady, Relay, Hear, HelperDies, Oks
  <2>2. QED
    BY <1>0, <2>1 DEF Earned
<1>9. QED
  BY <1>1, <1>2, <1>3, <1>4, <1>5, <1>6, <1>7, <1>8 DEF Next

\* The helper reads the pipe from its head, the caller writes at its end.
LEMMA OrderedNext == BusInv /\ Next => Ordered'
<1> SUFFICES ASSUME BusInv, Next PROVE Ordered'
  OBVIOUS
<1> USE DEF bus, process, reader
<1>0. /\ Typed /\ Placed /\ Ordered
      /\ pipe \in Seq(1 .. MaxMsg) /\ Len(pipe) \in Nat /\ Len(verdicts) \in Nat
      /\ relayed \in SUBSET Nat /\ \A i \in 1 .. Len(pipe) : pipe[i] \in Nat
  <2>1. Typed /\ Placed /\ Ordered
    BY DEF BusInv
  <2>2. pipe \in Seq(1 .. MaxMsg) /\ relayed \in SUBSET Nat /\ Len(verdicts) \in Nat
    BY <2>1 DEF Typed
  <2>3. \A i \in 1 .. Len(pipe) : pipe[i] \in Nat
    <3>1. \A i \in 1 .. Len(pipe) : pipe[i] \in 1 .. MaxMsg
      BY <2>2, Elements
    <3>2. QED
      BY <3>1
  <2>4. QED
    BY <2>1, <2>2, <2>3
<1>1. Written \in Nat
  BY <1>0 DEF Written
<1>2. ASSUME pipe' = pipe, relayed' = relayed, Written' \in Nat, Written <= Written'
      PROVE  Ordered'
  BY <1>0, <1>1, <1>2 DEF Ordered
<1>3. CASE Write
  <2>1. CASE helper = "up"
    <3>1. /\ pipe' = Append(pipe, Len(verdicts) + 1) /\ pc = "write" /\ pc' = "wait"
          /\ relayed' = relayed /\ verdicts' = verdicts
      BY <1>3, <2>1 DEF Write
    <3>2. Written = Len(verdicts) /\ Written' = Len(verdicts) + 1
      BY <1>0, <3>1 DEF Written
    <3>3. Len(verdicts) + 1 \in 1 .. MaxMsg
      BY <1>0, <3>1, VertexBusAssumption DEF Placed, Typed
    <3>4. /\ Len(pipe') = Len(pipe) + 1
          /\ \A i \in 1 .. Len(pipe) : pipe'[i] = pipe[i]
          /\ pipe'[Len(pipe) + 1] = Len(verdicts) + 1
      BY <1>0, <3>1, <3>3, Appended
    <3>5. QED
      BY <1>0, <3>1, <3>2, <3>4 DEF Ordered
  <2>2. CASE helper # "up"
    <3>1. Written' = Written /\ pipe' = pipe /\ relayed' = relayed
      BY <1>3, <2>2 DEF Write, Written
    <3>2. QED
      BY <1>1, <1>2, <3>1
  <2>3. QED
    BY <2>1, <2>2
<1>4. CASE Relay
  <2>1. /\ pipe # << >> /\ pipe' = Tail(pipe) /\ relayed' = relayed \cup {Head(pipe)}
        /\ Written' = Written
    BY <1>4 DEF Relay, Written
  <2>2. /\ Head(pipe) = pipe[1] /\ Len(pipe) >= 1 /\ Len(pipe') = Len(pipe) - 1
        /\ \A i \in 1 .. Len(pipe) - 1 : pipe'[i] = pipe[i + 1]
    BY <1>0, <2>1, Taken
  <2>3. ASSUME NEW i \in 1 .. Len(pipe'), NEW j \in 1 .. Len(pipe'), i < j
        PROVE  pipe'[i] < pipe'[j]
    <3>1. /\ i + 1 \in 1 .. Len(pipe) /\ j + 1 \in 1 .. Len(pipe) /\ i + 1 < j + 1
          /\ i \in 1 .. Len(pipe) - 1 /\ j \in 1 .. Len(pipe) - 1
      BY <1>0, <2>2, <2>3
    <3>2. pipe[i + 1] < pipe[j + 1]
      BY <1>0, <3>1 DEF Ordered
    <3>3. QED
      BY <2>2, <3>1, <3>2
  <2>4. \A i \in 1 .. Len(pipe') : pipe'[i] <= Written
    BY <1>0, <2>2 DEF Ordered
  <2>5. ASSUME NEW m \in relayed' PROVE m <= Written /\ \A i \in 1 .. Len(pipe') : m < pipe'[i]
    <3>1. CASE m \in relayed
      <4>1. m <= Written /\ \A i \in 1 .. Len(pipe) : m < pipe[i]
        BY <1>0, <3>1 DEF Ordered
      <4>2. \A i \in 1 .. Len(pipe') : /\ i \in 1 .. Len(pipe) - 1
                                      /\ i + 1 \in 1 .. Len(pipe)
        BY <1>0, <2>2
      <4>3. \A i \in 1 .. Len(pipe') : m < pipe'[i]
        BY <2>2, <4>1, <4>2
      <4>4. QED
        BY <4>1, <4>3
    <3>2. CASE m = pipe[1]
      <4>1. 1 \in 1 .. Len(pipe)
        BY <1>0, <2>2
      <4>2. pipe[1] <= Written
        BY <1>0, <4>1 DEF Ordered
      <4>3. ASSUME NEW i \in 1 .. Len(pipe') PROVE pipe[1] < pipe'[i]
        <5>1. i + 1 \in 1 .. Len(pipe) /\ i \in 1 .. Len(pipe) - 1 /\ 1 < i + 1
          BY <1>0, <2>2
        <5>2. pipe[1] < pipe[i + 1]
          BY <1>0, <4>1, <5>1 DEF Ordered
        <5>3. QED
          BY <2>2, <5>1, <5>2
      <4>4. QED
        BY <3>2, <4>2, <4>3
    <3>3. QED
      BY <2>1, <2>2, <3>1, <3>2
  <2>6. QED
    BY <2>1, <2>3, <2>4, <2>5 DEF Ordered
<1>5. CASE PublishLocally \/ Confirmed \/ Stalled
  <2>1. PICK v \in {"ok", "stall", "local"} : verdicts' = Append(verdicts, v)
    BY <1>5 DEF PublishLocally, Confirmed, Stalled
  <2>2. Len(verdicts') = Len(verdicts) + 1
    BY <1>0, <2>1, Appended DEF Typed
  <2>3. Written' \in Nat /\ Written <= Written'
    BY <1>0, <1>5, <2>2 DEF Written, PublishLocally, Confirmed, Stalled
  <2>4. pipe' = pipe /\ relayed' = relayed
    BY <1>5 DEF PublishLocally, Confirmed, Stalled, Dead
  <2>5. QED
    BY <1>2, <2>3, <2>4
<1>6. CASE Publish \/ Test \/ TimedOut
  <2>1. Written' \in Nat /\ Written <= Written'
    BY <1>0, <1>6 DEF Written, Publish, Another, Test, TimedOut
  <2>2. pipe' = pipe /\ relayed' = relayed
    BY <1>6 DEF Publish, Test, TimedOut
  <2>3. QED
    BY <1>2, <2>1, <2>2
<1>7. CASE StartFails \/ StartHelper \/ Greeted \/ Ungreeted \/ Close
  <2>1. Written' \in Nat /\ Written <= Written'
    BY <1>0, <1>7 DEF Written, StartFails, StartHelper, Greeted, Ungreeted, Close, Refused
  <2>2. pipe' = pipe /\ relayed' = relayed
    BY <1>7 DEF StartFails, StartHelper, Greeted, Ungreeted, Close, Dead
  <2>3. QED
    BY <1>2, <2>1, <2>2
<1>8. CASE ReadLine \/ ReadCrash \/ HelperReady \/ Hear \/ HelperDies
  <2>1. pipe' = pipe /\ relayed' = relayed /\ Written' = Written
    BY <1>8 DEF ReadLine, ReadCrash, HelperReady, Hear, HelperDies, Dead, Written
  <2>2. QED
    BY <1>1, <1>2, <2>1
<1>9. QED
  BY <1>3, <1>4, <1>5, <1>6, <1>7, <1>8 DEF Next

LEMMA AccountedNext == BusInv /\ Next => Accounted'
<1> SUFFICES ASSUME BusInv, Next PROVE Accounted'
  OBVIOUS
<1> USE DEF bus, process, reader
<1>0. /\ Accounted /\ Ordered
      /\ pipe \in Seq(1 .. MaxMsg) /\ relayed \in SUBSET (1 .. MaxMsg)
      /\ lines \in Nat /\ read \in Nat /\ heard \in Nat
  BY DEF BusInv, Typed
<1>1. IsFiniteSet(relayed) /\ Cardinality(relayed) \in Nat
  <2>1. IsFiniteSet(1 .. MaxMsg)
    BY VertexBusAssumption, FS_Interval
  <2>2. IsFiniteSet(relayed)
    BY <1>0, <2>1, FS_Subset
  <2>3. QED
    BY <2>2, FS_CardinalityType
<1>2. CASE Relay
  <2>1. /\ pipe # << >> /\ relayed' = relayed \cup {Head(pipe)} /\ lines' = lines + 1
        /\ UNCHANGED <<read, heard, ready>>
    BY <1>2 DEF Relay
  <2>2. Head(pipe) = pipe[1] /\ 1 \in 1 .. Len(pipe) /\ pipe[1] \in Nat
    <3>1. Head(pipe) = pipe[1] /\ Head(pipe) \in 1 .. MaxMsg /\ Len(pipe) >= 1
      BY <1>0, <2>1, Taken
    <3>2. Len(pipe) \in Nat
      BY <1>0
    <3>3. QED
      BY <3>1, <3>2
  <2>3. Head(pipe) \notin relayed
    BY <1>0, <2>2 DEF Ordered
  <2>4. Cardinality(relayed') = Cardinality(relayed) + 1
    BY <1>1, <2>1, <2>3, FS_AddElement
  <2>5. QED
    BY <1>0, <1>1, <2>1, <2>4 DEF Accounted
<1>3. CASE ReadLine \/ HelperReady \/ Hear
  BY <1>0, <1>1, <1>3 DEF ReadLine, HelperReady, Hear, Accounted
<1>4. CASE ReadCrash \/ HelperDies \/ StartFails \/ StartHelper \/ Greeted \/ Ungreeted
           \/ PublishLocally \/ Publish \/ Test \/ Write \/ Confirmed \/ TimedOut
           \/ Stalled \/ Close
  <2>1. UNCHANGED <<lines, read, relayed, heard, ready>>
    BY <1>4 DEF ReadCrash, HelperDies, StartFails, StartHelper, Greeted, Ungreeted,
                PublishLocally, Publish, Test, Write, Confirmed, TimedOut, Stalled, Close,
                Dead
  <2>2. QED
    BY <1>0, <2>1 DEF Accounted
<1>5. QED
  BY <1>2, <1>3, <1>4 DEF Next
-----------------------------------------------------------------------------
LEMMA BusInvariant == Spec => []BusInv
<1>1. BusInv /\ [Next]_vars => BusInv'
  <2> SUFFICES ASSUME BusInv, [Next]_vars PROVE BusInv'
    OBVIOUS
  <2>1. CASE Next
    BY <2>1, TypedNext, PlacedNext, CountedNext, MournedNext, EarnedNext, OrderedNext,
       AccountedNext DEF BusInv
  <2>2. CASE UNCHANGED vars
    BY <2>2 DEF vars, bus, process, reader, BusInv, Typed, Placed, Counted, GivenUpInARow,
                Mourned, Earned, Oks, Ordered, Written, Accounted
  <2>3. QED
    BY <2>1, <2>2
<1>2. QED
  BY <1>1, InitBus, PTL DEF Spec

\* The lines not read yet are as bounded as what the helper prints them for.
THEOREM BusTypeCorrect == Spec => []TypeOK
<1>1. BusInv => TypeOK
  <2> SUFFICES ASSUME BusInv PROVE TypeOK
    OBVIOUS
  <2>1. Typed /\ Placed /\ Accounted
    BY DEF BusInv
  <2>2. Cardinality(relayed) \in 0 .. MaxMsg
    <3>1. IsFiniteSet(1 .. MaxMsg) /\ Cardinality(1 .. MaxMsg) = MaxMsg
      BY VertexBusAssumption, FS_Interval
    <3>2. /\ IsFiniteSet(relayed) /\ Cardinality(relayed) <= MaxMsg
      BY <2>1, <3>1, FS_Subset DEF Typed
    <3>3. QED
      BY <3>2, VertexBusAssumption, FS_CardinalityType
  <2>3. lines \in 0 .. 1 + MaxMsg + MaxHeard
    BY <2>1, <2>2, VertexBusAssumption DEF Typed, Accounted
  <2>4. {strict, bridge, event, readError, ready} \subseteq BOOLEAN
    BY <2>1 DEF Typed
  <2>5. QED
    BY <2>1, <2>3, <2>4 DEF Typed, Placed, TypeOK
<1>2. QED
  BY <1>1, BusInvariant, PTL

\* However the reader, the helper and the caller interleave, no marker line
\* confirms two messages: publish clears the event before it writes.
THEOREM LinesCountOnce == Spec => []NoLineTwice
<1>1. BusInv => NoLineTwice
  BY DEF BusInv, Typed, Earned, Accounted, NoLineTwice
<1>2. QED
  BY <1>1, BusInvariant, PTL

\* A publish begun after the helper's death never raises.
THEOREM DeathIsNoticed == Spec => []DeadHelperStalls
<1>1. BusInv => DeadHelperStalls
  BY DEF BusInv, Mourned, DeadHelperStalls
<1>2. QED
  BY <1>1, BusInvariant, PTL

\* Nor does the bridge to a dead helper outlive the threshold.
THEOREM DeadBridgesClose == Spec => []DeadHelperIsLeft
<1>1. BusInv => DeadHelperIsLeft
  BY VertexBusAssumption DEF BusInv, Typed, Placed, Mourned, DeadHelperIsLeft
<1>2. QED
  BY <1>1, BusInvariant, PTL

\* And one to a slow helper closes only after that many stalls in a row.
THEOREM OnlyRunsClose == Spec => []GivenUpInARow
<1>1. BusInv => GivenUpInARow
  BY DEF BusInv
<1>2. QED
  BY <1>1, BusInvariant, PTL
=============================================================================
