------------------------------ MODULE StubSim ------------------------------
(***************************************************************************)
(* simulation/stub.py: all drones in one process, tick after tick.  A tick *)
(* injects the failure, revives the failed drone, lets every drone beat    *)
(* and count the beats it missed, declares dead whoever a quorum misses,   *)
(* moves and searches, and gives work to idle drones: first the cells      *)
(* released by the dead, then the survivor's cell, then what the selector  *)
(* picks.  A contest may end in the exception of QuorumRound's Raise.      *)
(*                                                                         *)
(* Abstractions: a tick is a second; beats are stamped and judged by one   *)
(* clock, so the set _stale of a registry is the peers whose beat is too   *)
(* old; of what failure/network_injector.py drops only the beats matter,   *)
(* and Gap bounds how long it may drop them in a row.  A drone needs       *)
(* `work` more ticks to reach its cell and search it; certainty is reduced *)
(* to whether that is enough.  Positions are left out: any drone may be    *)
(* the nearest.  target_cell and claimed_cell are set and cleared as one.  *)
(***************************************************************************)
EXTENDS Auction, Sequences

CONSTANTS
  FailDrone,       \* config.fail_drone
  FailAt,          \* config.fail_at
  RecoveryDelay,   \* 20 in _check_recovery
  Timeout,         \* config.stale_after_seconds
  Duration,        \* config.duration
  Gap,             \* Gap[o][d]: seconds for which o may go without the beats of d
  Target,          \* config.target
  ReclaimForceAt, TargetUnlockAt, TargetForceAt,   \* the scheduler's times
  MaxWork,         \* bound on the ticks a cell takes, travel included
  SearchTicks,     \* the last of them, spent on the cell
  StopOnSurvivor   \* config.stop_on_survivor

ASSUME StubSimAssumption ==
  /\ IsFiniteSet(Drone) /\ FailDrone \in Drone
  /\ Target \in Cell
  /\ {FailAt, RecoveryDelay, Timeout, ReclaimForceAt, TargetUnlockAt, TargetForceAt,
      MaxWork, SearchTicks} \subseteq Nat \ {0}
  /\ Duration \in Nat
  /\ TargetUnlockAt <= TargetForceAt
  /\ Gap \in [Drone -> [Drone -> Nat]]
  /\ StopOnSurvivor \in BOOLEAN

VARIABLES
  now,         \* _seconds()
  step,        \* where tick() is
  status,      \* alive and reachable: "up"; unreachable: "off"; "dead"
  cell,        \* target_cell = claimed_cell
  half,        \* subzone
  work,        \* ticks until the cell is searched
  age,         \* age[o][d]: seconds since the last beat of d that o received
  verdict,     \* drones a quorum found stale, not yet marked
  idle,        \* idle_drones of this pass
  releaseQ,    \* priority_release_queue
  targetQ,     \* is the target in priority_target_queue
  claims,      \* claims of this pass not yet resolved
  taken,       \* claimed, computed before they are resolved
  released,    \* scheduler.released_cell
  waited,      \* has a second passed since release_time_s
  reclaimed,   \* scheduler.reclaimed_time_s is set
  contended,   \* scheduler.contention_complete
  triggered,   \* the failure injector has fired
  recovered,   \* the failed drone is in _recovered_drones
  completed,   \* is the target in completed_cells
  survivor     \* survivor_found

fleet == <<status, cell, half, work>>
milestones == <<released, waited, reclaimed, contended, triggered, recovered>>
queues == <<idle, releaseQ, targetQ>>
pass == <<claims, taken>>
vars == <<now, step, fleet, age, verdict, queues, pass, milestones, completed,
          survivor>>

Step == {"fail", "recover", "beat", "observe", "mark", "move", "arm", "rescue",
         "release", "target", "select", "resolve", "over", "raised"}
Half == {"left", "right"}
Silence == (0 .. Timeout + 1) \cup {None}

\* Every variable keeps its type; the release queue holds no cell twice.
TypeOK ==
  /\ now \in 0 .. Duration
  /\ step \in Step
  /\ status \in [Drone -> {"up", "off", "dead"}]
  /\ cell \in [Drone -> Cell \cup {None}]
  /\ half \in [Drone -> Half \cup {None}]
  /\ work \in [Drone -> 0 .. MaxWork]
  /\ age \in [Drone -> [Drone -> Silence]]
  /\ verdict \subseteq Drone
  /\ idle \subseteq Drone
  /\ releaseQ \in Seq(Cell)
  /\ \A i, j \in 1 .. Len(releaseQ) : releaseQ[i] = releaseQ[j] => i = j
  /\ targetQ \in BOOLEAN
  /\ claims \subseteq Claim
  /\ taken \subseteq Cell
  /\ released \in Cell \cup {None}
  /\ {waited, reclaimed, contended, triggered, recovered, survivor} \subseteq BOOLEAN
  /\ completed \in BOOLEAN

-----------------------------------------------------------------------------
Online == {d \in Drone : status[d] = "up"}

\* _claimed_zones: what an unreachable drone holds counts as free.
Claimed == {cell[d] : d \in Online} \ {None}

\* _blocked_zones
Blocked == IF now < TargetUnlockAt /\ ~completed THEN {Target} ELSE {}

Queued(c) == \E i \in 1 .. Len(releaseQ) : releaseQ[i] = c

Lowest(D) == CHOOSE d \in D : \A e \in D : d <= e

Arrived(d) == cell[d] # None /\ work[d] <= SearchTicks

\* set_assignment for every drone of `seats`, a function to cells and halves;
\* the first to get the released cell sets reclaimed_time_s.
Assign(seats) ==
  /\ cell' = [d \in Drone |-> IF d \in DOMAIN seats THEN seats[d].cell ELSE cell[d]]
  /\ half' = [d \in Drone |-> IF d \in DOMAIN seats THEN seats[d].half ELSE half[d]]
  /\ \E ticks \in [DOMAIN seats -> 1 .. MaxWork] :
       work' = [d \in Drone |-> IF d \in DOMAIN seats THEN ticks[d] ELSE work[d]]
  /\ reclaimed' = (reclaimed \/ \E d \in DOMAIN seats : seats[d].cell = released)
  /\ UNCHANGED status

\* clear_assignment, mark_stale and revive take the cells of D away.
Drop(D) ==
  /\ cell' = [d \in Drone |-> IF d \in D THEN None ELSE cell[d]]
  /\ half' = [d \in Drone |-> IF d \in D THEN None ELSE half[d]]
  /\ work' = [d \in Drone |-> IF d \in D THEN 0 ELSE work[d]]

-----------------------------------------------------------------------------
\* __init__: nobody has beaten yet; the first pass is initialise's.
Init ==
  /\ now = 0
  /\ step = "beat"
  /\ status = [d \in Drone |-> "up"]
  /\ cell = [d \in Drone |-> None]
  /\ half = [d \in Drone |-> None]
  /\ work = [d \in Drone |-> 0]
  /\ age = [o \in Drone |-> [d \in Drone |-> None]]
  /\ verdict = {}
  /\ idle = {}
  /\ releaseQ = <<>>
  /\ targetQ = FALSE
  /\ claims = {}
  /\ taken = {}
  /\ released = None
  /\ waited = FALSE
  /\ reclaimed = FALSE
  /\ contended = FALSE
  /\ triggered = FALSE
  /\ recovered = FALSE
  /\ completed = FALSE
  /\ survivor = FALSE

Older(a) == IF a = None \/ a > Timeout THEN a ELSE a + 1

\* The clock, and _inject_failure: once, the drone drops off the mesh.
InjectFailure_NoLatch ==
  /\ step = "fail" /\ now < Duration
  /\ step' = "recover"
  /\ now' = now + 1
  /\ LET due == now' >= FailAt
     IN  /\ status' = IF due /\ status[FailDrone] = "up"
                        THEN [status EXCEPT ![FailDrone] = "off"] ELSE status
         /\ triggered' = (triggered \/ due)
  /\ age' = [o \in Drone |-> [d \in Drone |-> Older(age[o][d])]]
  /\ waited' = (released # None)
  /\ UNCHANGED <<cell, half, work, verdict, queues, released, reclaimed, contended,
                 recovered, completed, survivor, pass>>

InjectFailure ==
  /\ step = "fail" /\ now < Duration
  /\ step' = "recover"
  /\ now' = now + 1
  /\ LET due == now' >= FailAt /\ ~triggered
     IN  /\ status' = IF due /\ status[FailDrone] = "up"
                        THEN [status EXCEPT ![FailDrone] = "off"] ELSE status
         /\ triggered' = (triggered \/ due)
  /\ age' = [o \in Drone |-> [d \in Drone |-> Older(age[o][d])]]
  /\ waited' = (released # None)
  /\ UNCHANGED <<cell, half, work, verdict, queues, released, reclaimed, contended,
                 recovered, completed, survivor, pass>>

\* _check_recovery: a fixed time after the failure was due the drone is up
\* again, dead or only unreachable, and its cell is gone without a release.
CheckRecovery ==
  /\ step = "recover"
  /\ step' = "beat"
  /\ IF status[FailDrone] # "up" /\ now >= FailAt + RecoveryDelay /\ ~recovered
       THEN /\ status' = [status EXCEPT ![FailDrone] = "up"]
            /\ Drop({FailDrone})
            /\ recovered' = TRUE
       ELSE UNCHANGED <<fleet, recovered>>
  /\ UNCHANGED <<now, age, verdict, queues, released, waited, reclaimed, contended,
                 triggered, completed, survivor, pass>>

\* A beat may be lost, by its sender to everybody or on the way to one observer,
\* if the observer has not yet gone without for longer than Gap says.
MayMiss(o, d) ==
  Gap[o][d] > 0 /\ (age[o][d] = None \/ age[o][d] <= Gap[o][d])

\* The first half of _heartbeat_tick: whoever is online beats, every drone,
\* dead or alive, takes the beats that are not lost on the way to it.
Beat ==
  /\ step = "beat"
  /\ step' = "observe"
  /\ \E lost \in SUBSET {w \in Drone \X Online : MayMiss(w[1], w[2])} :
       age' = [o \in Drone |-> [d \in Drone |->
                 IF d \in Online /\ <<o, d>> \notin lost THEN 0 ELSE age[o][d]]]
  /\ UNCHANGED <<now, fleet, verdict, queues, milestones, completed, survivor, pass>>

Missed(o, d) == age[o][d] # None /\ age[o][d] > Timeout

Condemned_NoMajority ==
  {d \in Drone : /\ status[d] # "dead"
                 /\ LET votes == Cardinality({o \in Online : Missed(o, d)})
                    IN  votes > 0 /\ votes >= Cardinality(Online) \div 2}

\* Drones that a majority of the online observers miss.
Condemned ==
  {d \in Drone : /\ status[d] # "dead"
                 /\ Cardinality({o \in Online : Missed(o, d)})
                      >= Cardinality(Online) \div 2 + 1}

Observe ==
  /\ step = "observe"
  /\ step' = "mark"
  /\ verdict' = Condemned
  /\ UNCHANGED <<now, fleet, age, queues, milestones, completed, survivor, pass>>

\* _mark_drone_stale: release round, release queue, mark_stale.
MarkDroneStale ==
  /\ step = "mark"
  /\ verdict # {}
  /\ LET d == Lowest(verdict)
     IN  /\ status' = [status EXCEPT ![d] = "dead"]
         /\ Drop({d})
         /\ verdict' = verdict \ {d}
         /\ IF cell[d] = None
              THEN UNCHANGED <<released, waited, releaseQ>>
              ELSE /\ released' = cell[d]
                   /\ waited' = FALSE
                   /\ releaseQ' = IF Queued(cell[d]) THEN releaseQ
                                  ELSE Append(releaseQ, cell[d])
  /\ UNCHANGED <<now, step, age, idle, targetQ, reclaimed, contended, triggered,
                 recovered, completed, survivor, pass>>

\* initialise goes straight on to give work; a tick moves first.
MarkingDone ==
  /\ step = "mark"
  /\ verdict = {}
  /\ step' = IF now = 0 THEN "arm" ELSE "move"
  /\ UNCHANGED <<now, fleet, age, verdict, queues, milestones, completed, survivor, pass>>

\* Split cells on which somebody searches.
SplitCells == {cell[d] : d \in {e \in Online : half[e] # None /\ Arrived(e)}}

\* _move_and_search.  A search that is enough ends the assignment.  A half ends
\* by its own progress; whether the cell of two halves is complete depends on
\* the average, `whole`.  The survivor is found by whoever searches its cell
\* to completion after the unlock time.
MoveAndSearch ==
  /\ step = "move"
  /\ \E whole \in SUBSET SplitCells :
       LET workers == {d \in Online : cell[d] # None}
           done == {d \in workers : work[d] = 1}
           enough == {d \in workers : /\ Arrived(d)
                                      /\ IF half[d] = None THEN d \in done
                                                           ELSE cell[d] \in whole}
       IN  /\ cell' = [d \in Drone |-> IF d \in done THEN None ELSE cell[d]]
           /\ half' = [d \in Drone |-> IF d \in done THEN None ELSE half[d]]
           /\ work' = [d \in Drone |-> IF d \in workers THEN work[d] - 1 ELSE work[d]]
           /\ completed' = (completed \/ \E d \in done \cap enough : cell[d] = Target)
           /\ survivor' = (survivor \/ /\ now >= TargetUnlockAt
                                       /\ \E d \in enough : cell[d] = Target)
  /\ step' = IF survivor' /\ StopOnSurvivor THEN "over" ELSE "arm"
  /\ UNCHANGED <<now, status, age, verdict, queues, pass, milestones>>

-----------------------------------------------------------------------------
Targeted == \E d \in Online : cell[d] = Target

ArmQueues_NoQueuedCheck ==
  /\ step = "arm"
  /\ step' = "rescue"
  /\ idle' = {d \in Online : cell[d] = None}
  /\ releaseQ' = IF released # None /\ ~reclaimed /\ now >= ReclaimForceAt
                   THEN <<released>> \o releaseQ ELSE releaseQ
  /\ targetQ' = (targetQ \/ /\ ~survivor
                            /\ now >= TargetForceAt
                            /\ ~completed
                            /\ ~Targeted)
  /\ UNCHANGED <<now, fleet, age, verdict, milestones, completed, survivor, pass>>

\* The head of _assign_idle_drones: who is idle, and the cells that are overdue.
ArmQueues ==
  /\ step = "arm"
  /\ step' = "rescue"
  /\ idle' = {d \in Online : cell[d] = None}
  /\ releaseQ' = IF /\ released # None
                    /\ ~reclaimed
                    /\ now >= ReclaimForceAt
                    /\ ~Queued(released)
                   THEN <<released>> \o releaseQ ELSE releaseQ
  /\ targetQ' = (targetQ \/ /\ ~survivor
                            /\ now >= TargetForceAt
                            /\ ~completed
                            /\ ~Targeted)
  /\ UNCHANGED <<now, fleet, age, verdict, milestones, completed, survivor, pass>>

Rescuers == Online \ {FailDrone}

Waiting_NoRescue == FALSE

\* The release queue may take a drone off its work.
Waiting == releaseQ # <<>> /\ idle = {} /\ released # None /\ waited

\* _process_priority_release_queue takes the nearest drone off its cell, which
\* is not released to anybody.
Rescue ==
  /\ step = "rescue"
  /\ step' = "release"
  /\ IF Waiting /\ Rescuers # {}
       THEN \E d \in Rescuers : Drop({d}) /\ idle' = {d}
       ELSE UNCHANGED <<cell, half, work, idle>>
  /\ UNCHANGED <<now, status, age, verdict, releaseQ, targetQ, milestones, completed,
                 survivor, pass>>

\* An idle drone gets the first cell of the release queue, whoever holds it.
ServeRelease ==
  /\ step = "release"
  /\ releaseQ # <<>> /\ idle # {}
  /\ Assign([d \in {Lowest(idle)} |-> [cell |-> Head(releaseQ), half |-> None]])
  /\ idle' = idle \ {Lowest(idle)}
  /\ releaseQ' = Tail(releaseQ)
  /\ UNCHANGED <<now, step, age, verdict, targetQ, released, waited, contended,
                 triggered, recovered, completed, survivor, pass>>

ReleaseDone ==
  /\ step = "release"
  /\ releaseQ = <<>> \/ idle = {}
  /\ step' = "target"
  /\ UNCHANGED <<now, fleet, age, verdict, queues, milestones, completed, survivor, pass>>

ServeTarget_KeepsDrone ==
  /\ step = "target"
  /\ step' = "select"
  /\ targetQ' = (targetQ /\ idle = {})
  /\ UNCHANGED <<now, fleet, age, verdict, idle, releaseQ, milestones, completed,
                 survivor, pass>>

\* _process_priority_target_queue, whose queue holds the target at most once.
ServeTarget ==
  /\ step = "target"
  /\ step' = "select"
  /\ IF targetQ /\ idle # {}
       THEN /\ Assign([d \in {Lowest(idle)} |-> [cell |-> Target, half |-> None]])
            /\ idle' = idle \ {Lowest(idle)}
            /\ targetQ' = FALSE
       ELSE UNCHANGED <<fleet, reclaimed, idle, targetQ>>
  /\ UNCHANGED <<now, age, verdict, releaseQ, released, waited, contended, triggered,
                 recovered, completed, survivor, pass>>

\* What the selector may give the idle drones once the first contest is over,
\* one after the other: free cells, each to one drone only.
Selections_Unreserved ==
  LET free == Cell \ (Claimed \cup Blocked)
  IN  IF free = {} THEN {[d \in {} |-> None]} ELSE [idle -> free]

Selections ==
  LET free == Cell \ (Claimed \cup Blocked)
      served == {d \in idle : Cardinality({e \in idle : e < d}) < Cardinality(free)}
  IN  {f \in [served -> free] : \A d, e \in served : f[d] = f[e] => d = e}

\* Until the first contest every idle drone sees the same map and picks alike.
SharedSelections ==
  LET free == Cell \ (Claimed \cup Blocked)
  IN  IF free = {} THEN {[d \in {} |-> None]} ELSE {[d \in idle |-> c] : c \in free}

\* The rest of _assign_idle_drones: the claims of the pass, all made now, and
\* the one value of _claimed_zones that all its contests use.
Select ==
  /\ step = "select"
  /\ step' = "resolve"
  /\ \E picked \in IF contended THEN Selections ELSE SharedSelections :
       \E dists \in [DOMAIN picked -> Dist] :
         claims' = {[drone |-> d, cell |-> picked[d], ts |-> now, dist |-> dists[d]] :
                      d \in DOMAIN picked}
  /\ taken' = Claimed
  /\ idle' = {}
  /\ UNCHANGED <<now, fleet, age, verdict, releaseQ, targetQ, milestones, completed,
                 survivor>>

\* What _apply_assignment makes of a contest's seats; "idle" changes nothing.
SeatsOf(award) ==
  [d \in {e \in DOMAIN award : award[e].kind # "idle"} |->
     [cell |-> award[d].cell,
      half |-> IF award[d].kind \in Half THEN award[d].kind ELSE None]]

FirstCell == Lowest({c.cell : c \in claims})

Contest == {c \in claims : c.cell = FirstCell}

Resolve_NotRecorded ==
  /\ step = "resolve"
  /\ claims # {}
  /\ \E S \in {Contest}, held \in {taken \cup {FirstCell}} :
       \E seats \in {SeatsOf(Award(S, pick)) : pick \in Fallbacks(S, held)} :
         Assign(seats)
  /\ claims' = claims \ Contest
  /\ UNCHANGED <<now, step, age, verdict, taken, queues, released, waited, contended,
                 triggered, recovered, completed, survivor>>

\* One turn of the loop over the cells claimed: resolve_claims decides, and
\* _apply_assignment gives every claimant its seat.
Resolve ==
  /\ step = "resolve"
  /\ claims # {}
  /\ \E S \in {Contest}, held \in {taken \cup {FirstCell}} :
       \E seats \in {SeatsOf(Award(S, pick)) : pick \in Fallbacks(S, held)} :
         Assign(seats)
  /\ contended' = (contended \/ Cardinality(Contest) > 1)
  /\ claims' = claims \ Contest
  /\ UNCHANGED <<now, step, age, verdict, taken, queues, released, waited, triggered,
                 recovered, completed, survivor>>

\* resolve_claims got no vote of any peer in time (QuorumRound's Raise): the
\* exception ends the run.
ResolveRaises ==
  /\ step = "resolve"
  /\ claims # {}
  /\ Cardinality(Contest) > 1
  /\ step' = "raised"
  /\ UNCHANGED <<now, fleet, age, verdict, taken, claims, queues, milestones,
                 completed, survivor>>

PassDone ==
  /\ step = "resolve"
  /\ claims = {}
  /\ step' = "fail"
  /\ taken' = {}
  /\ UNCHANGED <<now, fleet, age, verdict, claims, queues, milestones, completed,
                 survivor>>

\* run() stops after duration // tick_seconds ticks.
RunEnds ==
  /\ step = "fail" /\ now = Duration
  /\ step' = "over"
  /\ UNCHANGED <<now, fleet, age, verdict, pass, queues, milestones, completed, survivor>>

-----------------------------------------------------------------------------
Next ==
  \/ InjectFailure
  \/ CheckRecovery
  \/ Beat
  \/ Observe
  \/ MarkDroneStale
  \/ MarkingDone
  \/ MoveAndSearch
  \/ ArmQueues
  \/ Rescue
  \/ ServeRelease
  \/ ReleaseDone
  \/ ServeTarget
  \/ Select
  \/ ResolveRaises
  \/ Resolve
  \/ PassDone
  \/ RunEnds

Spec == Init /\ [][Next]_vars
-----------------------------------------------------------------------------
Together(d, e) == d # e /\ {d, e} \subseteq Online /\ cell[d] # None /\ cell[d] = cell[e]

\* Two online drones share a cell only as the two halves of a split, unless it
\* is the released cell: the selector, the contests and the two queues never
\* give one cell twice.  A released cell they may: while its drone was only
\* unreachable _claimed_zones counted it as free, and the other half of a split
\* cell stays at work when the cell is given away whole.
SharedOnlyAfterRelease ==
  \A d, e \in Drone :
    Together(d, e) => cell[d] = released \/ {half[d], half[e]} = Half

\* Only the very first contest is voted on, so only initialise can die of the
\* exception that nobody catches: later passes never make two claims on a cell.
RaiseOnlyAtStart == step = "raised" => now = 0

\* A drone is declared dead only while it is off the mesh: neither a deaf
\* minority of observers, nor the old beats found when it comes back, nor the
\* smaller quorum of a smaller mesh condemns a drone that beats.
OnlySilentDie ==
  [][\A d \in Drone : status[d] = "up" => status'[d] # "dead"]_vars

\* The scheduled failure happens once: a drone that was revived stays up.
RecoveryHolds == recovered => status[FailDrone] = "up"

\* When a pass is over no cell waits in the release queue, unless it was released
\* in this very second or no drone is left that may be taken off its work.
ReleasedIsServed ==
  step = "fail" => releaseQ = <<>> \/ ~waited \/ Rescuers = {}

\* A run whose duration leaves time for it ends with the survivor found, or the
\* survivor's cell was searched to the end, as somebody's fallback, before the
\* unlock time, which ends the forcing: though a drone fails, is replaced and
\* comes back, and the drone on the cell may be taken off for the released one.
ForcedTargetIsFound == step = "over" => survivor \/ completed
=============================================================================
