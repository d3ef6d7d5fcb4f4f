------------------------------ MODULE VertexBus ------------------------------
(***************************************************************************)
(* VertexMeshBus of core/mesh.py over VertexBridge of core/bridge.py: every *)
(* message is delivered in the process and, while there is a bridge, written *)
(* to the helper's pipe; publish then waits for any line of the helper's     *)
(* output that has a confirmation marker.  A reader thread sets the event    *)
(* those waits share, the helper runs and dies on its own, and after three   *)
(* stalls in a row the bridge is given up for the rest of the run.           *)
(*                                                                         *)
(* The helper is vertex-node: it announces itself, relays what is in the   *)
(* pipe in order, and prints one marker line for each of these and for     *)
(* every packet of another node.  Waits may time out whenever the event is *)
(* not set.  Payloads, signatures and the stderr reader are left out.      *)
(***************************************************************************)
EXTENDS Integers, Sequences, FiniteSets

CONSTANTS
  Threshold,   \* _stall_fallback_threshold
  MaxMsg,      \* bound: messages published
  MaxHeard     \* bound: packets of other nodes

ASSUME VertexBusAssumption ==
  Threshold \in Nat \ {0} /\ MaxMsg \in Nat /\ MaxHeard \in Nat

VARIABLES
  strict,     \* _strict
  mode,       \* active_mode
  bridge,     \* is bridge not None
  stalls,     \* _stall_count
  pc,         \* where the calling thread is
  event,      \* _confirmed
  readError,  \* is _read_error set
  helper,     \* the process: not started, running or dead
  ready,      \* has the helper announced itself
  pipe,       \* messages written and not yet read by the helper
  lines,      \* marker lines printed and not yet read
  heard,      \* packets the helper received from others
  relayed,    \* history: messages the helper sent on
  read,       \* history: marker lines the reader has read
  verdicts,   \* history: how each publish ended
  left        \* history: publishes begun when the helper died

bus == <<strict, mode, bridge, stalls>>
process == <<helper, ready, pipe, heard, relayed, left>>
reader == <<lines, read, readError>>
vars == <<bus, process, reader, pc, event, verdicts>>

\* Every variable keeps its type, and the stalls stay below the threshold as
\* long as there is a bridge.
TypeOK ==
  /\ {strict, bridge, event, readError, ready} \subseteq BOOLEAN
  /\ mode \in {"real", "stub"}
  /\ stalls \in 0 .. Threshold /\ (bridge => stalls < Threshold)
  /\ pc \in {"start", "greet", "idle", "test", "write", "wait", "failed", "raised",
             "refused", "closed"}
  /\ helper \in {"none", "up", "dead"}
  /\ pipe \in Seq(1 .. MaxMsg)
  /\ lines \in 0 .. 1 + MaxMsg + MaxHeard /\ heard \in 0 .. MaxHeard
  /\ relayed \subseteq 1 .. MaxMsg /\ read \in Nat /\ left \in 0 .. MaxMsg
  /\ verdicts \in Seq({"ok", "stall", "local"}) /\ Len(verdicts) <= MaxMsg

-----------------------------------------------------------------------------
Init ==
  /\ strict \in BOOLEAN
  /\ mode = "real" /\ bridge = FALSE /\ stalls = 0
  /\ pc = "start" /\ event = FALSE /\ readError = FALSE
  /\ helper = "none" /\ ready = FALSE /\ pipe = << >> /\ lines = 0 /\ heard = 0
  /\ relayed = {} /\ read = 0 /\ verdicts = << >> /\ left = 0

\* Where strict does not allow the in-process bus the constructor raises.
Refused == IF strict THEN "refused" ELSE "idle"
WithoutHelper == IF strict THEN mode ELSE "stub"

\* The helper's binary is missing or does not start.
StartFails ==
  /\ pc = "start"
  /\ mode' = WithoutHelper
  /\ pc' = Refused
  /\ UNCHANGED <<strict, bridge, stalls, process, reader, event, verdicts>>

StartHelper ==
  /\ pc = "start"
  /\ bridge' = TRUE
  /\ helper' = "up"
  /\ pc' = "greet"
  /\ UNCHANGED <<strict, mode, stalls, ready, pipe, heard, relayed, left, reader, event,
                 verdicts>>

\* The first line with a marker came and the helper runs, ...
Greeted ==
  /\ pc = "greet" /\ event /\ helper = "up"
  /\ pc' = "idle"
  /\ UNCHANGED <<bus, process, reader, event, verdicts>>

\* ... or not: the mode changes, or the constructor raises; the bridge is kept.
Ungreeted ==
  /\ pc = "greet" /\ ~(event /\ helper = "up")
  /\ mode' = WithoutHelper
  /\ pc' = Refused
  /\ UNCHANGED <<strict, bridge, stalls, process, reader, event, verdicts>>

-----------------------------------------------------------------------------
Another == pc = "idle" /\ Len(verdicts) < MaxMsg

PublishLocally ==
  /\ Another /\ ~bridge
  /\ verdicts' = Append(verdicts, "local")
  /\ UNCHANGED <<bus, process, reader, pc, event>>

Publish_NoClear ==
  /\ Another /\ bridge
  /\ pc' = IF readError THEN "failed" ELSE "test"
  /\ UNCHANGED <<bus, process, reader, event, verdicts>>

\* VertexBridge.publish clears the event, ...
Publish ==
  /\ Another /\ bridge
  /\ pc' = IF readError THEN "failed" ELSE "test"
  /\ event' = (event /\ readError)
  /\ UNCHANGED <<bus, process, reader, verdicts>>

Test_Skipped ==
  /\ pc = "test"
  /\ pc' = "write"
  /\ UNCHANGED <<bus, process, reader, event, verdicts>>

\* ... looks whether the helper runs, ...
Test ==
  /\ pc = "test"
  /\ pc' = IF helper = "up" THEN "write" ELSE "failed"
  /\ UNCHANGED <<bus, process, reader, event, verdicts>>

\* ... writes to its pipe, which raises if it died meanwhile, ...
Write ==
  /\ pc = "write"
  /\ IF helper = "up"
       THEN pipe' = Append(pipe, Len(verdicts) + 1) /\ pc' = "wait"
       ELSE pc' = "raised" /\ UNCHANGED pipe
  /\ UNCHANGED <<bus, helper, ready, heard, relayed, left, reader, event, verdicts>>

Confirmed_NoReset ==
  /\ pc = "wait" /\ event
  /\ verdicts' = Append(verdicts, "ok")
  /\ pc' = "idle"
  /\ UNCHANGED <<bus, process, reader, event>>

\* ... and waits for the event, or not long enough.
Confirmed ==
  /\ pc = "wait" /\ event
  /\ stalls' = 0
  /\ verdicts' = Append(verdicts, "ok")
  /\ pc' = "idle"
  /\ UNCHANGED <<strict, mode, bridge, process, reader, event>>

TimedOut ==
  /\ pc = "wait" /\ ~event
  /\ pc' = "failed"
  /\ UNCHANGED <<bus, process, reader, event, verdicts>>

Begun == Len(verdicts) + (IF pc \in {"test", "write", "wait", "failed"} THEN 1 ELSE 0)

\* The process dies by itself or is terminated; what is in the pipe is lost.
Dead ==
  /\ helper' = "dead"
  /\ left' = IF helper = "up" THEN Begun ELSE left
  /\ UNCHANGED <<ready, pipe, heard, relayed>>

Stalled_Late ==
  /\ pc = "failed"
  /\ verdicts' = Append(verdicts, "stall")
  /\ pc' = "idle"
  /\ IF stalls >= Threshold
       THEN mode' = "stub" /\ bridge' = FALSE /\ Dead /\ UNCHANGED stalls
       ELSE stalls' = stalls + 1 /\ UNCHANGED <<mode, bridge, process>>
  /\ UNCHANGED <<strict, reader, event>>

\* A stall; the third in a row closes the bridge, strict or not.
Stalled ==
  /\ pc = "failed"
  /\ verdicts' = Append(verdicts, "stall")
  /\ stalls' = stalls + 1
  /\ pc' = "idle"
  /\ IF stalls + 1 >= Threshold
       THEN mode' = "stub" /\ bridge' = FALSE /\ Dead
       ELSE UNCHANGED <<mode, bridge, process>>
  /\ UNCHANGED <<strict, reader, event>>

Close ==
  /\ pc = "idle"
  /\ pc' = "closed"
  /\ IF bridge THEN Dead ELSE UNCHANGED process
  /\ UNCHANGED <<bus, reader, event, verdicts>>

-----------------------------------------------------------------------------
\* _read_loop: lines already printed are read even after the helper died.
ReadLine ==
  /\ lines > 0 /\ ~readError
  /\ lines' = lines - 1
  /\ read' = read + 1
  /\ event' = TRUE
  /\ UNCHANGED <<bus, process, readError, pc, verdicts>>

ReadCrash ==
  /\ helper = "up" /\ ~readError
  /\ readError' = TRUE
  /\ UNCHANGED <<bus, process, lines, read, pc, event, verdicts>>

\* The helper announces itself, relays a message, or hears another node.
HelperReady ==
  /\ helper = "up" /\ ~ready
  /\ ready' = TRUE
  /\ lines' = lines + 1
  /\ UNCHANGED <<bus, helper, pipe, heard, relayed, left, read, readError, pc, event, verdicts>>

Relay ==
  /\ helper = "up" /\ ready /\ pipe # << >>
  /\ pipe' = Tail(pipe)
  /\ relayed' = relayed \cup {Head(pipe)}
  /\ lines' = lines + 1
  /\ UNCHANGED <<bus, helper, ready, heard, left, read, readError, pc, event, verdicts>>

Hear ==
  /\ helper = "up" /\ ready /\ heard < MaxHeard
  /\ heard' = heard + 1
  /\ lines' = lines + 1
  /\ UNCHANGED <<bus, helper, ready, pipe, relayed, left, read, readError, pc, event, verdicts>>

HelperDies ==
  /\ helper = "up"
  /\ Dead
  /\ UNCHANGED <<bus, reader, pc, event, verdicts>>

-----------------------------------------------------------------------------
Next ==
  \/ StartFails \/ StartHelper \/ Greeted \/ Ungreeted
  \/ PublishLocally \/ Publish \/ Test \/ Write \/ Confirmed \/ TimedOut \/ Stalled \/ Close
  \/ ReadLine \/ ReadCrash
  \/ HelperReady \/ Relay \/ Hear \/ HelperDies

Spec == Init /\ [][Next]_vars

-----------------------------------------------------------------------------
Oks == Cardinality({i \in DOMAIN verdicts : verdicts[i] = "ok"})

\* A confirmation may be another message's, come too late for its own, but no
\* line is counted twice: there are never more confirmed messages than relayed
\* ones, packets heard and the announcement (bridge.py, clear before write).
NoLineTwice ==
  Oks <= read /\ read <= Cardinality(relayed) + heard + (IF ready THEN 1 ELSE 0)

\* A publish that begins after the helper died stalls and does not raise: the
\* pipe breaks only under a publish that had found it running.
DeadHelperStalls == pc = "raised" => left = Len(verdicts) + 1

\* A dead helper is soon given up: of the messages that begin after its death
\* two stall before the one that closes the bridge, unless the caller stops.
DeadHelperIsLeft ==
  helper = "dead" /\ bridge => Len(verdicts) - left <= Threshold - 1

\* A slow helper is not taken for a dead one: the bridge is given up only when
\* the last messages all stalled, however many did before.
GivenUpInARow ==
  helper # "none" /\ ~bridge =>
    \E i \in Threshold .. Len(verdicts) :
      \A j \in i - Threshold + 1 .. i : verdicts[j] = "stall"

\* What the constructor says of --mesh real, "falling back to in-process bus is
\* not allowed".
StrictNeverFallsBack == strict => mode = "real"
=============================================================================
