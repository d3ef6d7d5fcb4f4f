---------------------------- MODULE StubSim_proofs ----------------------------
(***************************************************************************)
(* The stub simulation for any number of drones, any grid, any times of    *)
(* the scheduler and of the failure.                                       *)
(*                                                                         *)
(* Four invariants, each on top of the ones before it.  StubType: the      *)
(* types.  StartInv: before the clock runs all drones are idle, so the     *)
(* first contest is among all of them, and later claims never meet.        *)
(* MeshInv: only the drone of the scheduled failure leaves the mesh, once, *)
(* so a run releases one cell.  ShareInv: what is claimed, and a target    *)
(* that waits in its queue, is nobody's.                                   *)
(*                                                                         *)
(* Two hypotheses stand in the theorems that need them: TwoCells, the grid *)
(* is larger than the survivor's cell, and HeardInTime, which bounds what  *)
(* the network may lose: as many as half of the others, at most, may go    *)
(* without the beats of a drone for longer than the timeout.  The code     *)
(* drops beats at random and so keeps to it only as long as it is lucky.   *)
(***************************************************************************)
EXTENDS StubSim, Auction_proofs

\* A drone that has a cell has work left on it.
Working == \A d \in Drone : cell[d] # None => work[d] >= 1

FleetTyped ==
  /\ cell \in [Drone -> Cell \cup {None}]
  /\ half \in [Drone -> Half \cup {None}]
  /\ work \in [Drone -> 0 .. MaxWork]
  /\ Working

StubType == TypeOK /\ FleetTyped /\ IsFiniteSet(claims)

-----------------------------------------------------------------------------
LEMMA Given ==
  /\ Drone \subseteq Nat /\ Cell \subseteq Nat /\ Dist \subseteq Nat
  /\ None \notin Cell /\ None \notin Drone
  /\ IsFiniteSet(Drone) /\ FailDrone \in Drone /\ Target \in Cell
  /\ FailAt \in Nat /\ RecoveryDelay \in Nat /\ Timeout \in Nat /\ ReclaimForceAt \in Nat
  /\ TargetUnlockAt \in Nat /\ TargetForceAt \in Nat /\ MaxWork \in Nat /\ SearchTicks \in Nat
  /\ Duration \in Nat /\ Gap \in [Drone -> [Drone -> Nat]]
  /\ FailAt >= 1 /\ RecoveryDelay >= 1 /\ Timeout >= 1 /\ ReclaimForceAt >= 1
  /\ TargetUnlockAt >= 1 /\ TargetForceAt >= 1 /\ MaxWork >= 1 /\ SearchTicks >= 1
BY StubSimAssumption, AuctionAssumption

LEMMA LowestIn ==
  ASSUME NEW D \in SUBSET Nat, D # {}
  PROVE  Lowest(D) \in D
<1>1. \E d \in D : \A e \in D : d <= e
  BY LeastNat
<1>2. QED
  BY <1>1 DEF Lowest

LEMMA DropTyped ==
  ASSUME FleetTyped, NEW D, Drop(D)
  PROVE  /\ FleetTyped'
         /\ \A d \in Drone : cell'[d] = (IF d \in D THEN None ELSE cell[d])
                             /\ half'[d] = (IF d \in D THEN None ELSE half[d])
<1>1. /\ cell' = [d \in Drone |-> IF d \in D THEN None ELSE cell[d]]
      /\ half' = [d \in Drone |-> IF d \in D THEN None ELSE half[d]]
      /\ work' = [d \in Drone |-> IF d \in D THEN 0 ELSE work[d]]
  BY DEF Drop
<1>2. cell' \in [Drone -> Cell \cup {None}] /\ half' \in [Drone -> Half \cup {None}]
  BY <1>1 DEF FleetTyped
<1>3. work' \in [Drone -> 0 .. MaxWork]
  BY <1>1, Given DEF FleetTyped
<1>4. Working'
  BY <1>1 DEF FleetTyped, Working
<1>5. QED
  BY <1>1, <1>2, <1>3, <1>4 DEF FleetTyped

\* Seats that may be assigned.
Seats(seats) ==
  /\ DOMAIN seats \subseteq Drone
  /\ \A d \in DOMAIN seats : seats[d].cell \in Cell /\ seats[d].half \in Half \cup {None}

LEMMA AssignTyped ==
  ASSUME FleetTyped, NEW seats, Seats(seats), Assign(seats), reclaimed \in BOOLEAN
  PROVE  /\ FleetTyped' /\ reclaimed' \in BOOLEAN /\ status' = status
         /\ \A d \in Drone :
              IF d \in DOMAIN seats THEN cell'[d] = seats[d].cell /\ half'[d] = seats[d].half
                                    ELSE cell'[d] = cell[d] /\ half'[d] = half[d]
<1>1. /\ cell' = [d \in Drone |-> IF d \in DOMAIN seats THEN seats[d].cell ELSE cell[d]]
      /\ half' = [d \in Drone |-> IF d \in DOMAIN seats THEN seats[d].half ELSE half[d]]
      /\ UNCHANGED status
  BY DEF Assign
<1>2. PICK ticks \in [DOMAIN seats -> 1 .. MaxWork] :
        work' = [d \in Drone |-> IF d \in DOMAIN seats THEN ticks[d] ELSE work[d]]
  BY DEF Assign
<1>3. cell' \in [Drone -> Cell \cup {None}] /\ half' \in [Drone -> Half \cup {None}]
  BY <1>1 DEF FleetTyped, Seats
<1>4. \A d \in DOMAIN seats : ticks[d] \in 0 .. MaxWork /\ ticks[d] >= 1
  BY Given
<1>5. work' \in [Drone -> 0 .. MaxWork]
  BY <1>2, <1>4 DEF FleetTyped
<1>6. Working'
  BY <1>1, <1>2, <1>4 DEF FleetTyped, Working
<1>7. reclaimed' \in BOOLEAN
  BY DEF Assign
<1>8. QED
  BY <1>1, <1>3, <1>5, <1>6, <1>7 DEF FleetTyped

\* What a contest leaves its claimants with.
LEMMA SeatsTyped ==
  ASSUME NEW S \in SUBSET Claim, IsFiniteSet(S), NEW held, NEW pick \in Fallbacks(S, held)
  PROVE  Seats(SeatsOf(Award(S, pick)))
<1> DEFINE award == Award(S, pick)
<1>1. award \in [Claimants(S) -> Seat]
  BY AwardType
<1>2. Claimants(S) \subseteq Drone
  BY DEF Claimants, Claim
<1> HIDE DEF award
<1>3. /\ DOMAIN SeatsOf(award) \subseteq Drone
      /\ \A d \in DOMAIN SeatsOf(award) :
           /\ SeatsOf(award)[d].cell = award[d].cell /\ award[d].cell \in Cell
           /\ SeatsOf(award)[d].half \in Half \cup {None}
  BY <1>1, <1>2 DEF SeatsOf, Seat
<1>4. QED
  BY <1>3 DEF Seats, award
-----------------------------------------------------------------------------
LEMMA InitType == Init => StubType
<1> SUFFICES ASSUME Init PROVE StubType
  OBVIOUS
<1>1. FleetTyped
  BY Given DEF Init, FleetTyped, Working
<1>2. releaseQ \in Seq(Cell) /\ \A i, j \in 1 .. Len(releaseQ) : releaseQ[i] = releaseQ[j] => i = j
  BY DEF Init
<1>3. now \in 0 .. Duration /\ step \in Step
  BY Given DEF Init, Step
<1>4. age \in [Drone -> [Drone -> Silence]]
  BY DEF Init, Silence
<1>5. {waited, reclaimed, contended, triggered, recovered, survivor} \subseteq BOOLEAN
  BY DEF Init
<1>6. TypeOK
  BY <1>1, <1>2, <1>3, <1>4, <1>5 DEF Init, TypeOK, FleetTyped
<1>7. IsFiniteSet(claims)
  BY FS_EmptySet DEF Init
<1>8. QED
  BY <1>1, <1>6, <1>7 DEF StubType

\* The part of the types that most steps leave alone.
LEMMA TypedFacts ==
  ASSUME StubType
  PROVE  /\ FleetTyped /\ IsFiniteSet(claims)
         /\ now \in Nat /\ now <= Duration /\ step \in Step
         /\ status \in [Drone -> {"up", "off", "dead"}]
         /\ age \in [Drone -> [Drone -> Silence]]
         /\ verdict \in SUBSET Drone /\ idle \in SUBSET Drone /\ Online \in SUBSET Drone
         /\ releaseQ \in Seq(Cell) /\ targetQ \in BOOLEAN
         /\ claims \in SUBSET Claim /\ taken \in SUBSET Cell
         /\ released \in Cell \cup {None}
         /\ waited \in BOOLEAN /\ reclaimed \in BOOLEAN /\ contended \in BOOLEAN
         /\ triggered \in BOOLEAN /\ recovered \in BOOLEAN /\ survivor \in BOOLEAN
         /\ completed \in BOOLEAN
<1>1. now \in Nat /\ now <= Duration
  BY Given DEF StubType, TypeOK
<1>2. /\ waited \in BOOLEAN /\ reclaimed \in BOOLEAN /\ contended \in BOOLEAN
      /\ triggered \in BOOLEAN /\ recovered \in BOOLEAN /\ survivor \in BOOLEAN
  BY DEF StubType, TypeOK
<1>3. QED
  BY <1>1, <1>2 DEF StubType, TypeOK, Online

LEMMA TypeInject ==
  ASSUME StubType, InjectFailure
  PROVE  StubType'
<1> USE DEF fleet, milestones, queues, pass
<1>0. FleetTyped /\ now \in Nat /\ now <= Duration /\ Duration \in Nat
  BY TypedFacts, Given
<1>1. now' \in 0 .. Duration
  BY <1>0 DEF InjectFailure
<1>2. status' \in [Drone -> {"up", "off", "dead"}]
  BY DEF InjectFailure, StubType, TypeOK
<1>3. age' \in [Drone -> [Drone -> Silence]]
  <2>1. \A a \in Silence : Older(a) \in Silence
    BY Given DEF Silence, Older
  <2>2. \A o, d \in Drone : age[o][d] \in Silence
    BY TypedFacts
  <2>3. QED
    BY <2>1, <2>2 DEF InjectFailure
<1>4. triggered' \in BOOLEAN /\ waited' \in BOOLEAN
  BY DEF InjectFailure
<1>5. FleetTyped'
  BY <1>0 DEF InjectFailure, FleetTyped, Working
<1>6. /\ step' = "recover"
      /\ UNCHANGED <<cell, half, work, verdict, queues, released, reclaimed, contended,
                     recovered, completed, survivor, pass>>
  BY DEF InjectFailure
<1>7. TypeOK'
  BY <1>1, <1>2, <1>3, <1>4, <1>6 DEF StubType, TypeOK, Step
<1>8. QED
  BY <1>5, <1>6, <1>7 DEF StubType

LEMMA TypeRecover ==
  ASSUME StubType, CheckRecovery
  PROVE  StubType'
<1> USE DEF fleet, milestones, queues, pass
<1>1. /\ step' = "beat"
      /\ UNCHANGED <<now, age, verdict, queues, released, waited, reclaimed, contended,
                     triggered, completed, survivor, pass>>
  BY DEF CheckRecovery
<1>2. FleetTyped' /\ recovered' \in BOOLEAN /\ status' \in [Drone -> {"up", "off", "dead"}]
  <2>1. CASE UNCHANGED <<fleet, recovered>>
    BY <2>1, TypedFacts DEF FleetTyped, Working
  <2>2. CASE /\ status' = [status EXCEPT ![FailDrone] = "up"]
             /\ Drop({FailDrone}) /\ recovered' = TRUE
    BY <2>2, TypedFacts, DropTyped
  <2>3. QED
    BY <2>1, <2>2 DEF CheckRecovery
<1>3. TypeOK'
  BY <1>1, <1>2 DEF StubType, TypeOK, Step, FleetTyped
<1>4. QED
  BY <1>1, <1>2, <1>3 DEF StubType

LEMMA TypeBeat ==
  ASSUME StubType, Beat
  PROVE  StubType'
<1> USE DEF fleet, milestones, queues, pass
<1>1. /\ step' = "observe"
      /\ UNCHANGED <<now, fleet, verdict, queues, milestones, completed, survivor, pass>>
  BY DEF Beat
<1>2. age' \in [Drone -> [Drone -> Silence]]
  <2>1. \A o, d \in Drone : age[o][d] \in Silence
    BY TypedFacts
  <2>2. 0 \in Silence
    BY Given DEF Silence
  <2>3. QED
    BY <2>1, <2>2 DEF Beat
<1>3. FleetTyped'
  BY <1>1, TypedFacts DEF FleetTyped, Working
<1>4. TypeOK'
  BY <1>1, <1>2 DEF StubType, TypeOK, Step
<1>5. QED
  BY <1>1, <1>3, <1>4 DEF StubType

LEMMA TypeMark ==
  ASSUME StubType, MarkDroneStale
  PROVE  StubType'
<1> USE DEF fleet, milestones, queues, pass
<1> DEFINE d == Lowest(verdict)
<1>1. d \in verdict /\ verdict \in SUBSET Drone
  BY TypedFacts, LowestIn, Given DEF MarkDroneStale
<1> HIDE DEF d
<1>2. /\ status' = [status EXCEPT ![d] = "dead"] /\ Drop({d}) /\ verdict' = verdict \ {d}
      /\ \/ UNCHANGED <<released, waited, releaseQ>>
         \/ /\ cell[d] # None /\ released' = cell[d] /\ waited' = FALSE
            /\ releaseQ' = IF Queued(cell[d]) THEN releaseQ ELSE Append(releaseQ, cell[d])
      /\ UNCHANGED <<now, step, age, idle, targetQ, reclaimed, contended, triggered,
                     recovered, completed, survivor, pass>>
  BY DEF MarkDroneStale, d
<1>3. FleetTyped'
  BY <1>2, TypedFacts, DropTyped
<1>4. released' \in Cell \cup {None} /\ waited' \in BOOLEAN
  BY <1>1, <1>2, TypedFacts DEF FleetTyped
<1>5. releaseQ' \in Seq(Cell) /\ \A i, j \in 1 .. Len(releaseQ') : releaseQ'[i] = releaseQ'[j] => i = j
  <2>0. releaseQ \in Seq(Cell) /\ \A i, j \in 1 .. Len(releaseQ) : releaseQ[i] = releaseQ[j] => i = j
    BY DEF StubType, TypeOK
  <2>1. CASE releaseQ' = releaseQ
    BY <2>0, <2>1
  <2>2. CASE cell[d] # None /\ ~Queued(cell[d]) /\ releaseQ' = Append(releaseQ, cell[d])
    <3>1. cell[d] \in Cell
      BY <1>1, <2>2, TypedFacts DEF FleetTyped
    <3>2. \A i \in 1 .. Len(releaseQ) : releaseQ[i] # cell[d]
      BY <2>2 DEF Queued
    <3>3. QED
      BY <2>0, <2>2, <3>1, <3>2
  <2>3. QED
    BY <1>2, <2>1, <2>2
<1>6. status' \in [Drone -> {"up", "off", "dead"}] /\ verdict' \subseteq Drone
  BY <1>1, <1>2, TypedFacts
<1>7. TypeOK'
  BY <1>2, <1>3, <1>4, <1>5, <1>6 DEF StubType, TypeOK, FleetTyped
<1>8. QED
  BY <1>2, <1>3, <1>7 DEF StubType

LEMMA TypeMove ==
  ASSUME StubType, MoveAndSearch
  PROVE  StubType'
<1> USE DEF fleet, milestones, queues, pass
<1>1. PICK done \in SUBSET Drone :
        /\ done = {d \in {e \in Online : cell[e] # None} : work[d] = 1}
        /\ cell' = [d \in Drone |-> IF d \in done THEN None ELSE cell[d]]
        /\ half' = [d \in Drone |-> IF d \in done THEN None ELSE half[d]]
        /\ work' = [d \in Drone |-> IF d \in {e \in Online : cell[e] # None} THEN work[d] - 1
                                                                             ELSE work[d]]
  <2>1. Online \in SUBSET Drone
    BY TypedFacts
  <2>2. QED
    BY <2>1 DEF MoveAndSearch
<1>2. FleetTyped'
  <2>0. FleetTyped
    BY TypedFacts
  <2>1. cell' \in [Drone -> Cell \cup {None}] /\ half' \in [Drone -> Half \cup {None}]
    BY <1>1, <2>0 DEF FleetTyped
  <2>2. ASSUME NEW d \in Drone
        PROVE  work'[d] \in 0 .. MaxWork /\ (cell'[d] # None => work'[d] >= 1)
    <3>1. work[d] \in Nat /\ work[d] <= MaxWork /\ (cell[d] # None => work[d] >= 1)
      BY <2>0, Given DEF FleetTyped, Working
    <3>2. CASE d \in Online /\ cell[d] # None
      BY <1>1, <3>1, <3>2, Given
    <3>3. CASE ~(d \in Online /\ cell[d] # None)
      BY <1>1, <3>1, <3>3, Given
    <3>4. QED
      BY <3>2, <3>3
  <2>3. work' = [d \in Drone |-> work'[d]]
    BY <1>1
  <2>4. QED
    BY <2>1, <2>2, <2>3 DEF FleetTyped, Working
<1>3. completed' \in BOOLEAN /\ survivor' \in BOOLEAN /\ step' \in Step
  BY DEF MoveAndSearch, Step
<1>4. UNCHANGED <<now, status, age, verdict, queues, pass, milestones>>
  BY DEF MoveAndSearch
<1>5. TypeOK'
  BY <1>2, <1>3, <1>4 DEF StubType, TypeOK, FleetTyped
<1>6. QED
  BY <1>2, <1>4, <1>5 DEF StubType

LEMMA TypeArm ==
  ASSUME StubType, ArmQueues
  PROVE  StubType'
<1> USE DEF fleet, milestones, queues, pass
<1>1. /\ step' = "rescue" /\ idle' \subseteq Drone /\ targetQ' \in BOOLEAN
      /\ UNCHANGED <<now, fleet, age, verdict, milestones, completed, survivor, pass>>
  BY DEF ArmQueues, Online
<1>2. releaseQ' \in Seq(Cell) /\ \A i, j \in 1 .. Len(releaseQ') : releaseQ'[i] = releaseQ'[j] => i = j
  <2>0. releaseQ \in Seq(Cell) /\ \A i, j \in 1 .. Len(releaseQ) : releaseQ[i] = releaseQ[j] => i = j
    BY DEF StubType, TypeOK
  <2>1. CASE releaseQ' = releaseQ
    BY <2>0, <2>1
  <2>2. CASE released # None /\ ~Queued(released) /\ releaseQ' = <<released>> \o releaseQ
    <3>1. released \in Cell
      BY <2>2, TypedFacts
    <3>2. \A i \in 1 .. Len(releaseQ) : releaseQ[i] # released
      BY <2>2 DEF Queued
    <3>3. /\ releaseQ' \in Seq(Cell) /\ Len(releaseQ') = Len(releaseQ) + 1 /\ releaseQ'[1] = released
          /\ \A i \in 2 .. Len(releaseQ) + 1 : releaseQ'[i] = releaseQ[i - 1]
          /\ Len(releaseQ) \in Nat
      BY <2>0, <2>2, <3>1
    <3>4. ASSUME NEW i \in 1 .. Len(releaseQ'), NEW j \in 1 .. Len(releaseQ'),
                 releaseQ'[i] = releaseQ'[j]
          PROVE  i = j
      <4>1. \A k \in 1 .. Len(releaseQ') : k # 1 => /\ k - 1 \in 1 .. Len(releaseQ)
                                                   /\ releaseQ'[k] = releaseQ[k - 1]
        BY <3>3
      <4>2. CASE i = 1 \/ j = 1
        BY <3>2, <3>3, <3>4, <4>1, <4>2
      <4>3. CASE i # 1 /\ j # 1
        <5>1. i - 1 = j - 1
          BY <2>0, <3>4, <4>1, <4>3
        <5>2. QED
          BY <3>3, <5>1
      <4>4. QED
        BY <4>2, <4>3
    <3>5. QED
      BY <3>3, <3>4
  <2>3. QED
    BY <2>1, <2>2 DEF ArmQueues
<1>3. FleetTyped'
  BY <1>1, TypedFacts DEF FleetTyped, Working
<1>4. TypeOK'
  BY <1>1, <1>2 DEF StubType, TypeOK, Step
<1>5. QED
  BY <1>1, <1>3, <1>4 DEF StubType

LEMMA TypeRescue ==
  ASSUME StubType, Rescue
  PROVE  StubType'
<1> USE DEF fleet, milestones, queues, pass
<1>1. /\ step' = "release"
      /\ UNCHANGED <<now, status, age, verdict, releaseQ, targetQ, milestones, completed,
                     survivor, pass>>
  BY DEF Rescue
<1>2. FleetTyped' /\ idle' \subseteq Drone
  <2>1. CASE UNCHANGED <<cell, half, work, idle>>
    BY <2>1, TypedFacts DEF FleetTyped, Working
  <2>2. CASE \E d \in Rescuers : Drop({d}) /\ idle' = {d}
    BY <2>2, TypedFacts, DropTyped DEF Rescuers
  <2>3. QED
    BY <2>1, <2>2 DEF Rescue
<1>3. TypeOK'
  BY <1>1, <1>2 DEF StubType, TypeOK, Step, FleetTyped
<1>4. QED
  BY <1>1, <1>2, <1>3 DEF StubType

\* What a queue serves, and to whom.
LEMMA ServedFacts ==
  ASSUME StubType, ServeRelease
  PROVE  /\ Lowest(idle) \in idle /\ idle \subseteq Drone
         /\ Head(releaseQ) \in Cell /\ Head(releaseQ) = releaseQ[1] /\ Len(releaseQ) >= 1
         /\ Seats([d \in {Lowest(idle)} |-> [cell |-> Head(releaseQ), half |-> None]])
<1>1. Lowest(idle) \in idle /\ idle \subseteq Drone
  BY TypedFacts, LowestIn, Given DEF ServeRelease
<1>2. Head(releaseQ) \in Cell /\ Head(releaseQ) = releaseQ[1] /\ Len(releaseQ) >= 1
  BY TypedFacts DEF ServeRelease
<1>3. QED
  BY <1>1, <1>2 DEF Seats

LEMMA TypeServeRelease ==
  ASSUME StubType, ServeRelease
  PROVE  StubType'
<1> USE DEF fleet, milestones, queues, pass
<1>1. /\ idle' = idle \ {Lowest(idle)} /\ releaseQ' = Tail(releaseQ)
      /\ UNCHANGED <<now, step, age, verdict, targetQ, released, waited, contended,
                     triggered, recovered, completed, survivor, pass>>
  BY DEF ServeRelease
<1>2. FleetTyped' /\ reclaimed' \in BOOLEAN /\ status' = status
  <2>1. Assign([d \in {Lowest(idle)} |-> [cell |-> Head(releaseQ), half |-> None]])
    BY DEF ServeRelease
  <2>2. QED
    BY <2>1, TypedFacts, ServedFacts, AssignTyped
<1>3. releaseQ' \in Seq(Cell) /\ \A i, j \in 1 .. Len(releaseQ') : releaseQ'[i] = releaseQ'[j] => i = j
  <2>0. /\ releaseQ \in Seq(Cell) /\ releaseQ # <<>>
        /\ \A i, j \in 1 .. Len(releaseQ) : releaseQ[i] = releaseQ[j] => i = j
    BY DEF StubType, TypeOK, ServeRelease
  <2>1. /\ releaseQ' \in Seq(Cell) /\ Len(releaseQ) \in Nat /\ Len(releaseQ') = Len(releaseQ) - 1
        /\ \A k \in 1 .. Len(releaseQ') : releaseQ'[k] = releaseQ[k + 1] /\ k + 1 \in 1 .. Len(releaseQ)
    BY <1>1, <2>0
  <2>2. ASSUME NEW i \in 1 .. Len(releaseQ'), NEW j \in 1 .. Len(releaseQ'),
               releaseQ'[i] = releaseQ'[j]
        PROVE  i = j
    <3>1. i + 1 = j + 1
      BY <2>0, <2>1, <2>2
    <3>2. QED
      BY <2>1, <3>1
  <2>3. QED
    BY <2>1, <2>2
<1>4. TypeOK'
  BY <1>1, <1>2, <1>3 DEF StubType, TypeOK, FleetTyped
<1>5. QED
  BY <1>1, <1>2, <1>4 DEF StubType

\* The target is given to an idle drone, or nothing changes but the step.
LEMMA TargetFacts ==
  ASSUME StubType, ServeTarget
  PROVE  /\ FleetTyped' /\ reclaimed' \in BOOLEAN /\ status' = status /\ idle' \subseteq idle
         /\ \/ UNCHANGED <<cell, half, idle, targetQ>> /\ (targetQ => idle = {})
            \/ /\ targetQ /\ targetQ' = FALSE
               /\ \E d \in Drone : /\ cell'[d] = Target
                                   /\ \A e \in Drone \ {d} : cell'[e] = cell[e] /\ half'[e] = half[e]
<1> USE DEF fleet, milestones, queues, pass
<1>0. targetQ \in BOOLEAN /\ FleetTyped
  BY TypedFacts
<1>1. CASE targetQ /\ idle # {}
  <2> DEFINE seats == [d \in {Lowest(idle)} |-> [cell |-> Target, half |-> None]]
  <2>1. Lowest(idle) \in idle /\ idle \subseteq Drone
    BY <1>1, TypedFacts, LowestIn, Given
  <2>2. Assign(seats) /\ idle' = idle \ {Lowest(idle)} /\ targetQ' = FALSE
    BY <1>1 DEF ServeTarget
  <2>3. Seats(seats)
    BY <2>1, Given DEF Seats
  <2>4. DOMAIN seats = {Lowest(idle)} /\ seats[Lowest(idle)].cell = Target
    OBVIOUS
  <2> HIDE DEF seats
  <2>5. /\ FleetTyped' /\ reclaimed' \in BOOLEAN /\ status' = status
        /\ \A d \in Drone :
             IF d \in DOMAIN seats THEN cell'[d] = seats[d].cell /\ half'[d] = seats[d].half
                                   ELSE cell'[d] = cell[d] /\ half'[d] = half[d]
    BY <2>2, <2>3, TypedFacts, AssignTyped
  <2>6. PICK d \in Drone : d = Lowest(idle)
    BY <2>1
  <2>7. cell'[d] = Target /\ \A e \in Drone \ {d} : cell'[e] = cell[e] /\ half'[e] = half[e]
    BY <2>4, <2>5, <2>6
  <2>8. QED
    BY <1>1, <2>2, <2>5, <2>7
<1>2. CASE ~(targetQ /\ idle # {})
  <2>1. UNCHANGED <<fleet, reclaimed, idle, targetQ>>
    BY <1>2 DEF ServeTarget
  <2>2. FleetTyped' /\ reclaimed' \in BOOLEAN
    BY <2>1, TypedFacts DEF FleetTyped, Working
  <2>3. QED
    BY <1>0, <1>2, <2>1, <2>2
<1>3. QED
  BY <1>1, <1>2

LEMMA TypeServeTarget ==
  ASSUME StubType, ServeTarget
  PROVE  StubType'
<1> USE DEF fleet, milestones, queues, pass
<1>1. /\ step' = "select"
      /\ UNCHANGED <<now, age, verdict, releaseQ, released, waited, contended, triggered,
                     recovered, completed, survivor, pass>>
  BY DEF ServeTarget
<1>2. FleetTyped' /\ reclaimed' \in BOOLEAN /\ status' = status /\ idle' \subseteq Drone
      /\ targetQ' \in BOOLEAN
  BY TargetFacts, TypedFacts
<1>3. TypeOK'
  BY <1>1, <1>2 DEF StubType, TypeOK, Step, FleetTyped
<1>4. QED
  BY <1>1, <1>2, <1>3 DEF StubType

\* The claims of a pass: one of each drone that was picked a cell, on that cell.
LEMMA SelectFacts ==
  ASSUME StubType, Select
  PROVE  \E picked :
           /\ picked \in IF contended THEN Selections ELSE SharedSelections
           /\ DOMAIN picked \subseteq idle
           /\ \A d \in DOMAIN picked : picked[d] \in Cell \ (Claimed \cup Blocked)
           /\ claims' \in SUBSET Claim /\ IsFiniteSet(claims')
           /\ \A c \in claims' : /\ c.drone \in DOMAIN picked /\ c.cell = picked[c.drone]
                                 /\ c.ts = now
           /\ \A d \in DOMAIN picked : \E c \in claims' : c.drone = d
           /\ \A a, b \in claims' : a.drone = b.drone => a = b
<1> DEFINE free == Cell \ (Claimed \cup Blocked)
<1>1. PICK picked \in IF contended THEN Selections ELSE SharedSelections :
        \E dists \in [DOMAIN picked -> Dist] :
          claims' = {[drone |-> d, cell |-> picked[d], ts |-> now, dist |-> dists[d]] :
                       d \in DOMAIN picked}
  BY DEF Select
<1>2. PICK dists \in [DOMAIN picked -> Dist] :
        claims' = {[drone |-> d, cell |-> picked[d], ts |-> now, dist |-> dists[d]] :
                     d \in DOMAIN picked}
  BY <1>1
<1>3. DOMAIN picked \subseteq idle /\ \A d \in DOMAIN picked : picked[d] \in free
  <2>1. CASE picked \in Selections
    BY <2>1 DEF Selections
  <2>2. CASE picked \in SharedSelections
    <3>1. CASE free = {}
      BY <2>2, <3>1 DEF SharedSelections
    <3>2. CASE free # {}
      BY <2>2, <3>2 DEF SharedSelections
    <3>3. QED
      BY <3>1, <3>2
  <2>3. QED
    BY <1>1, <2>1, <2>2
<1>4. /\ idle \subseteq Drone /\ now \in Nat
  BY TypedFacts
<1>5. claims' \in SUBSET Claim
  BY <1>2, <1>3, <1>4 DEF Claim
<1>6. IsFiniteSet(claims')
  <2> DEFINE D == DOMAIN picked
             f == [d \in D |-> [drone |-> d, cell |-> picked[d], ts |-> now, dist |-> dists[d]]]
  <2>1. f \in Surjection(D, claims')
    BY <1>2 DEF Surjection
  <2>2. IsFiniteSet(D)
    BY <1>3, <1>4, Given, FS_Subset
  <2> HIDE DEF f, D
  <2>3. QED
    BY <2>1, <2>2, FS_Surjection
<1>7. \A c \in claims' : /\ c.drone \in DOMAIN picked /\ c.cell = picked[c.drone]
                         /\ c.ts = now
  BY <1>2
<1>8. \A d \in DOMAIN picked : \E c \in claims' : c.drone = d
  <2>1. ASSUME NEW d \in DOMAIN picked
        PROVE  \E c \in claims' : c.drone = d
    <3>1. [drone |-> d, cell |-> picked[d], ts |-> now, dist |-> dists[d]] \in claims'
      BY <1>2
    <3>2. QED
      BY <3>1
  <2>2. QED
    BY <2>1
<1>9. \A a, b \in claims' : a.drone = b.drone => a = b
  BY <1>2
<1>10. QED
  BY <1>1, <1>3, <1>5, <1>6, <1>7, <1>8, <1>9

LEMMA TypeSelect ==
  ASSUME StubType, Select
  PROVE  StubType'
<1> USE DEF fleet, milestones, queues, pass
<1>1. claims' \subseteq Claim /\ IsFiniteSet(claims')
  BY SelectFacts
<1>2. /\ step' = "resolve" /\ taken' = Claimed /\ idle' = {}
      /\ UNCHANGED <<now, fleet, age, verdict, releaseQ, targetQ, milestones, completed,
                     survivor>>
  BY DEF Select
<1>3. FleetTyped' /\ Claimed \subseteq Cell
  BY <1>2, TypedFacts DEF FleetTyped, Working, Claimed, Online
<1>4. TypeOK'
  BY <1>1, <1>2, <1>3 DEF StubType, TypeOK, Step
<1>5. QED
  BY <1>1, <1>3, <1>4 DEF StubType

\* A turn of the loop over the contests.
LEMMA ResolveFacts ==
  ASSUME StubType, Resolve
  PROVE  /\ Contest \in SUBSET Claim /\ IsFiniteSet(Contest) /\ Contest # {}
         /\ \A c \in Contest : c.cell = FirstCell
         /\ FirstCell \in Cell
         /\ \E pick \in Fallbacks(Contest, taken \cup {FirstCell}) :
              Assign(SeatsOf(Award(Contest, pick))) /\ Seats(SeatsOf(Award(Contest, pick)))
<1>1. claims \in SUBSET Claim /\ IsFiniteSet(claims) /\ claims # {}
  BY TypedFacts DEF Resolve
<1>2. Contest \in SUBSET claims /\ IsFiniteSet(Contest)
  BY <1>1, FS_Subset DEF Contest
<1>3. FirstCell \in {c.cell : c \in claims}
  <2>1. \A c \in claims : c.cell \in Cell
    BY <1>1 DEF Claim
  <2>2. {c.cell : c \in claims} \in SUBSET Nat /\ {c.cell : c \in claims} # {}
    BY <1>1, <2>1, AuctionAssumption
  <2>3. QED
    BY <2>2, LowestIn DEF FirstCell
<1>4. Contest # {} /\ FirstCell \in Cell
  BY <1>1, <1>3 DEF Contest, Claim
<1>5. PICK pick \in Fallbacks(Contest, taken \cup {FirstCell}) :
        Assign(SeatsOf(Award(Contest, pick)))
  BY DEF Resolve
<1>6. Seats(SeatsOf(Award(Contest, pick)))
  BY <1>1, <1>2, SeatsTyped
<1>7. QED
  BY <1>1, <1>2, <1>4, <1>5, <1>6 DEF Contest

LEMMA TypeResolve ==
  ASSUME StubType, Resolve
  PROVE  StubType'
<1> USE DEF fleet, milestones, queues, pass
<1>1. FleetTyped' /\ reclaimed' \in BOOLEAN /\ status' = status
  <2>1. PICK seats : Seats(seats) /\ Assign(seats)
    BY ResolveFacts
  <2>2. QED
    BY <2>1, TypedFacts, AssignTyped
<1>2. claims' \subseteq Claim /\ IsFiniteSet(claims')
  <2>1. claims' \in SUBSET claims
    BY DEF Resolve
  <2>2. QED
    BY <2>1, TypedFacts, FS_Subset
<1>3. contended' \in BOOLEAN
  BY DEF Resolve
<1>4. UNCHANGED <<now, step, age, verdict, taken, queues, released, waited, triggered,
                  recovered, completed, survivor>>
  BY DEF Resolve
<1>5. TypeOK'
  BY <1>1, <1>2, <1>3, <1>4 DEF StubType, TypeOK, FleetTyped
<1>6. QED
  BY <1>1, <1>2, <1>5 DEF StubType

\* Observing and the ends of loops.
LEMMA TypeQuiet ==
  ASSUME StubType,
         Observe \/ MarkingDone \/ ReleaseDone \/ ResolveRaises \/ PassDone \/ RunEnds \/ UNCHANGED vars
  PROVE  StubType'
<1> USE DEF fleet, milestones, queues, pass
<1>1. /\ step' \in Step /\ verdict' \subseteq Drone /\ taken' \subseteq Cell
      /\ UNCHANGED <<now, fleet, age, claims, queues, milestones, completed, survivor>>
  <2>1. CASE Observe
    BY <2>1, TypedFacts DEF Observe, Step, Condemned
  <2>2. CASE MarkingDone \/ ReleaseDone
    BY <2>2, TypedFacts DEF MarkingDone, ReleaseDone, Step
  <2>3. CASE ResolveRaises \/ PassDone \/ RunEnds
    BY <2>3, TypedFacts DEF ResolveRaises, PassDone, RunEnds, Step
  <2>4. CASE UNCHANGED vars
    BY <2>4, TypedFacts DEF vars
  <2>5. QED
    BY <2>1, <2>2, <2>3, <2>4
<1>2. FleetTyped'
  BY <1>1, TypedFacts DEF FleetTyped, Working
<1>3. TypeOK'
  BY <1>1 DEF StubType, TypeOK
<1>4. QED
  BY <1>1, <1>2, <1>3 DEF StubType

LEMMA StubTypeInvariant == Spec => []StubType
<1>1. StubType /\ [Next]_vars => StubType'
  BY TypeInject, TypeRecover, TypeBeat, TypeMark, TypeMove, TypeArm, TypeRescue,
     TypeServeRelease, TypeServeTarget, TypeSelect, TypeResolve, TypeQuiet DEF Next
<1>2. QED
  BY <1>1, InitType, PTL DEF Spec

\* Every variable keeps its type and the release queue holds no cell twice, for
\* any drones, grid, times and losses: what a contest or a queue hands out is
\* always a cell, and work on it is never used up below nothing.
THEOREM StubTypeCorrect == Spec => []TypeOK
<1>1. StubType => TypeOK
  BY DEF StubType
<1>2. QED
  BY <1>1, StubTypeInvariant, PTL
-----------------------------------------------------------------------------
\* As many drones as half of the others, at most, may go without the beats of any
\* one drone for longer than the timeout; nobody else does, not even just after
\* the drone has come back to the mesh.
HeardInTime ==
  \A d \in Drone :
    Cardinality({o \in Drone : Gap[o][d] > Timeout}) <= (Cardinality(Drone) - 1) \div 2

\* The grid has a cell besides the survivor's.
TwoCells == Cell # {Target}
-----------------------------------------------------------------------------
\* The first contest is over, or there is nobody to contest anything.
Settled == contended \/ \A d, e \in Drone : d = e

Apart(S) == \A a, b \in S : a.cell = b.cell => a = b
Alike(S) == \A a, b \in S : a.cell = b.cell

FirstPass == {"beat", "observe", "mark", "arm", "rescue", "release", "target", "select",
              "resolve", "fail", "raised", "over"}

\* Before the clock runs every drone beats, nobody has work or anything to release.
Calm ==
  now = 0 =>
    /\ step \in FirstPass
    /\ \A d \in Drone : status[d] = "up"
    /\ \A o, d \in Drone : age[o][d] \in {None, 0}
    /\ verdict = {} /\ releaseQ = <<>> /\ released = None
    /\ ~targetQ /\ ~completed

\* Until the first contest is decided nobody has a cell and everybody is idle.
Unassigned ==
  now = 0 =>
    /\ step \notin {"resolve", "fail", "raised", "over"} =>
         ~contended /\ \A d \in Drone : cell[d] = None
    /\ step \in {"rescue", "release", "target", "select"} => idle = Drone

\* The first contest is among all drones.
FirstContest ==
  step = "resolve" /\ now = 0 =>
    \/ claims = {} /\ Settled
    \/ /\ Alike(claims)
       /\ \A d \in Drone : cell[d] = None
       /\ \A d \in Drone : \E c \in claims : c.drone = d

\* There is no other contest.
OneContest ==
  /\ step = "fail" \/ now > 0 => Settled
  /\ step = "resolve" /\ now > 0 => Apart(claims)
  /\ step = "raised" => now = 0

StartInv == Calm /\ Unassigned /\ FirstContest /\ OneContest

LEMMA OnlineFinite ==
  ASSUME StubType
  PROVE  Online \in SUBSET Drone /\ IsFiniteSet(Online) /\ Cardinality(Online) \in Nat
<1>1. Online \in SUBSET Drone
  BY DEF Online
<1>2. QED
  BY <1>1, Given, FS_Subset, FS_CardinalityType

LEMMA StartInit == Init => StartInv
<1> SUFFICES ASSUME Init PROVE StartInv
  OBVIOUS
<1>1. Calm
  BY DEF Init, Calm, FirstPass
<1>2. Unassigned
  BY DEF Init, Unassigned
<1>3. FirstContest /\ OneContest
  BY DEF Init, FirstContest, OneContest
<1>4. QED
  BY <1>1, <1>2, <1>3 DEF StartInv

\* The steps that only move on, or change what the start does not depend on.
LEMMA StartAside ==
  ASSUME StubType, StartInv,
         UNCHANGED <<now, released, completed, contended>>,
         now = 0 => UNCHANGED <<age, status, cell, verdict, releaseQ, targetQ>>,
         \/ UNCHANGED <<step, claims>>
         \/ step' \notin {"resolve", "fail", "raised"} /\ (now = 0 => step' \in FirstPass
                                                              /\ step \notin {"resolve", "fail", "raised", "over"}),
         now = 0 /\ step' \in {"rescue", "release", "target", "select"} => idle' = Drone
  PROVE  StartInv'
<1>1. Calm'
  BY DEF StartInv, Calm
<1>2. Unassigned'
  BY DEF StartInv, Unassigned
<1>3. FirstContest'
  BY DEF StartInv, FirstContest, Settled, Alike
<1>4. OneContest'
  BY DEF StartInv, OneContest, Settled, Apart
<1>5. QED
  BY <1>1, <1>2, <1>3, <1>4 DEF StartInv

LEMMA StartInject ==
  ASSUME StubType, StartInv, InjectFailure
  PROVE  StartInv'
<1>1. /\ step = "fail" /\ step' = "recover" /\ contended' = contended
      /\ now' = now + 1
  BY DEF InjectFailure
<1>2. now' > 0 /\ now' \in Nat
  BY <1>1, TypedFacts, Given
<1>3. Settled'
  BY <1>1 DEF StartInv, OneContest, Settled
<1>4. QED
  BY <1>1, <1>2, <1>3 DEF StartInv, Calm, Unassigned, FirstContest, OneContest

LEMMA StartRecover ==
  ASSUME StubType, StartInv, CheckRecovery
  PROVE  StartInv'
<1> USE DEF fleet, milestones, queues, pass
<1>1. /\ step = "recover" /\ step' = "beat"
      /\ UNCHANGED <<now, released, completed, contended>>
  BY DEF CheckRecovery
<1>2. now # 0
  BY <1>1 DEF StartInv, Calm, FirstPass
<1>3. QED
  BY <1>1, <1>2, StartAside

LEMMA StartBeat ==
  ASSUME StubType, StartInv, Beat
  PROVE  StartInv'
<1> USE DEF fleet, milestones, queues, pass
<1>1. /\ step = "beat" /\ step' = "observe"
      /\ UNCHANGED <<now, status, cell, verdict, idle, releaseQ, targetQ, released, contended,
                     completed, claims>>
  BY DEF Beat
<1>2. PICK lost :
        age' = [o \in Drone |-> [d \in Drone |->
                  IF d \in Online /\ <<o, d>> \notin lost THEN 0 ELSE age[o][d]]]
  BY DEF Beat
<1>3. now = 0 => \A o, d \in Drone : age'[o][d] \in {None, 0}
  BY <1>2 DEF StartInv, Calm
<1>4. Calm'
  BY <1>1, <1>3 DEF StartInv, Calm, FirstPass
<1>5. Unassigned' /\ FirstContest' /\ OneContest'
  BY <1>1 DEF StartInv, Unassigned, FirstContest, OneContest, Settled
<1>6. QED
  BY <1>4, <1>5 DEF StartInv

\* Before the clock runs nobody is missed.
LEMMA StartObserve ==
  ASSUME StubType, StartInv, Observe
  PROVE  StartInv'
<1> USE DEF fleet, milestones, queues, pass
<1>1. /\ step = "observe" /\ step' = "mark" /\ verdict' = Condemned
      /\ UNCHANGED <<now, status, cell, age, idle, releaseQ, targetQ, released, contended,
                     completed, claims>>
  BY DEF Observe
<1>2. now = 0 => verdict' = verdict
  <2> SUFFICES ASSUME now = 0 PROVE Condemned = {}
    BY <1>1 DEF StartInv, Calm
  <2>1. \A o, d \in Drone : ~Missed(o, d)
    BY Given DEF StartInv, Calm, Missed
  <2>2. \A d \in Drone : {o \in Online : Missed(o, d)} = {}
    BY <2>1, OnlineFinite
  <2>3. Cardinality({}) = 0
    BY FS_EmptySet
  <2>4. ~(0 >= Cardinality(Online) \div 2 + 1)
    BY OnlineFinite
  <2>5. QED
    BY <2>2, <2>3, <2>4 DEF Condemned
<1>3. QED
  BY <1>1, <1>2, StartAside DEF FirstPass

LEMMA StartMark ==
  ASSUME StubType, StartInv, MarkDroneStale
  PROVE  StartInv'
<1> USE DEF fleet, milestones, queues, pass
<1>1. step = "mark" /\ verdict # {} /\ UNCHANGED <<now, step, contended>>
  BY DEF MarkDroneStale
<1>2. now # 0
  BY <1>1 DEF StartInv, Calm
<1>3. QED
  BY <1>1, <1>2 DEF StartInv, Calm, Unassigned, FirstContest, OneContest, Settled

LEMMA StartMove ==
  ASSUME StubType, StartInv, MoveAndSearch
  PROVE  StartInv'
<1> USE DEF fleet, milestones, queues, pass
<1>1. step = "move" /\ step' \in {"over", "arm"} /\ UNCHANGED <<now, contended>>
  BY DEF MoveAndSearch
<1>2. now # 0
  BY <1>1 DEF StartInv, Calm, FirstPass
<1>3. QED
  BY <1>1, <1>2 DEF StartInv, Calm, Unassigned, FirstContest, OneContest, Settled

LEMMA StartArm ==
  ASSUME StubType, StartInv, ArmQueues
  PROVE  StartInv'
<1> USE DEF fleet, milestones, queues, pass
<1>1. /\ step = "arm" /\ step' = "rescue" /\ idle' = {d \in Online : cell[d] = None}
      /\ UNCHANGED <<now, fleet, age, verdict, released, contended, completed>>
  BY DEF ArmQueues
<1>2. ASSUME now = 0 PROVE releaseQ' = releaseQ /\ targetQ' = targetQ
  <2>1. released = None /\ targetQ \in BOOLEAN /\ ~(now >= TargetForceAt)
    BY <1>2, Given, TypedFacts DEF StartInv, Calm
  <2>2. releaseQ' = releaseQ
    BY <2>1 DEF ArmQueues
  <2>3. targetQ' = targetQ
    BY <2>1 DEF ArmQueues
  <2>4. QED
    BY <2>2, <2>3
<1>3. now = 0 => idle' = Drone
  BY <1>1 DEF StartInv, Calm, Unassigned, Online
<1>4. QED
  BY <1>1, <1>2, <1>3, StartAside DEF FirstPass

LEMMA StartRescue ==
  ASSUME StubType, StartInv, Rescue
  PROVE  StartInv'
<1> USE DEF fleet, milestones, queues, pass
<1>1. /\ step = "rescue" /\ step' = "release"
      /\ UNCHANGED <<now, status, age, verdict, releaseQ, targetQ, released, contended, completed>>
  BY DEF Rescue
<1>2. now = 0 => UNCHANGED <<cell, idle>>
  BY DEF Rescue, Waiting, StartInv, Calm
<1>3. now = 0 => idle' = Drone
  BY <1>1, <1>2 DEF StartInv, Unassigned
<1>4. QED
  BY <1>1, <1>2, <1>3, StartAside DEF FirstPass

LEMMA StartServeRelease ==
  ASSUME StubType, StartInv, ServeRelease
  PROVE  StartInv'
<1> USE DEF fleet, milestones, queues, pass
<1>1. /\ step = "release" /\ releaseQ # <<>>
      /\ UNCHANGED <<now, step, contended>>
  BY DEF ServeRelease
<1>2. now # 0
  BY <1>1 DEF StartInv, Calm
<1>3. QED
  BY <1>1, <1>2 DEF StartInv, Calm, Unassigned, FirstContest, OneContest, Settled

LEMMA StartServeTarget ==
  ASSUME StubType, StartInv, ServeTarget
  PROVE  StartInv'
<1> USE DEF fleet, milestones, queues, pass
<1>1. /\ step = "target" /\ step' = "select"
      /\ UNCHANGED <<now, age, verdict, releaseQ, released, contended, completed>>
  BY DEF ServeTarget
<1>2. now = 0 => UNCHANGED <<fleet, idle, targetQ>>
  BY DEF ServeTarget, StartInv, Calm
<1>3. now = 0 => idle' = Drone
  BY <1>1, <1>2 DEF StartInv, Unassigned
<1>4. QED
  BY <1>1, <1>2, <1>3, StartAside DEF FirstPass

LEMMA StartLoopEnds ==
  ASSUME StubType, StartInv, MarkingDone \/ ReleaseDone \/ UNCHANGED vars
  PROVE  StartInv'
<1> USE DEF fleet, milestones, queues, pass
<1>1. CASE MarkingDone
  <2>1. /\ step = "mark" /\ step' = IF now = 0 THEN "arm" ELSE "move"
        /\ UNCHANGED <<now, status, cell, age, verdict, releaseQ, targetQ, released, contended,
                       completed>>
    BY <1>1 DEF MarkingDone
  <2>2. QED
    BY <2>1, StartAside DEF FirstPass
<1>2. CASE ReleaseDone
  <2>1. /\ step = "release" /\ step' = "target"
        /\ UNCHANGED <<now, status, cell, age, verdict, idle, releaseQ, targetQ, released,
                       contended, completed>>
    BY <1>2 DEF ReleaseDone
  <2>2. now = 0 => idle' = Drone
    BY <2>1 DEF StartInv, Unassigned
  <2>3. QED
    BY <2>1, <2>2, StartAside DEF FirstPass
<1>3. CASE UNCHANGED vars
  <2>1. UNCHANGED <<now, step, status, cell, age, verdict, idle, releaseQ, targetQ, released,
                    contended, completed, claims>>
    BY <1>3 DEF vars
  <2>2. now = 0 /\ step' \in {"rescue", "release", "target", "select"} => idle' = Drone
    BY <2>1 DEF StartInv, Unassigned
  <2>3. QED
    BY <2>1, <2>2, StartAside
<1>4. QED
  BY <1>1, <1>2, <1>3

\* The first claims are all drones', on one cell; later ones are each for a cell
\* of its own, unless one drone flies alone.
LEMMA StartSelect ==
  ASSUME TwoCells, StubType, StartInv, Select
  PROVE  StartInv'
<1> USE DEF fleet, milestones, queues, pass
<1>1. /\ step = "select" /\ step' = "resolve"
      /\ UNCHANGED <<now, status, cell, age, verdict, releaseQ, targetQ, released, contended,
                     completed>>
  BY DEF Select
<1>2. PICK picked :
           /\ picked \in IF contended THEN Selections ELSE SharedSelections
           /\ DOMAIN picked \subseteq idle
           /\ claims' \in SUBSET Claim
           /\ \A c \in claims' : /\ c.drone \in DOMAIN picked /\ c.cell = picked[c.drone]
           /\ \A d \in DOMAIN picked : \E c \in claims' : c.drone = d
           /\ \A a, b \in claims' : a.drone = b.drone => a = b
  BY SelectFacts
<1>3. Calm' /\ Unassigned'
  BY <1>1 DEF StartInv, Calm, Unassigned, FirstPass
<1>4. ASSUME contended PROVE Apart(claims')
  <2>1. \A d, e \in DOMAIN picked : picked[d] = picked[e] => d = e
    BY <1>2, <1>4 DEF Selections
  <2>2. QED
    BY <1>2, <2>1 DEF Apart
<1>5. ASSUME \A d, e \in Drone : d = e PROVE Apart(claims')
  <2>1. \A a, b \in claims' : a.drone = b.drone
    BY <1>2, <1>5, TypedFacts
  <2>2. QED
    BY <1>2, <2>1 DEF Apart
<1>6. ASSUME now = 0, ~contended
      PROVE  Alike(claims') /\ \A d \in Drone : \E c \in claims' : c.drone = d
  <2>1. Cell \ (Claimed \cup Blocked) # {}
    <3>1. Claimed = {}
      BY <1>1, <1>6 DEF Claimed, StartInv, Unassigned, Online
    <3>2. Blocked \subseteq {Target}
      BY DEF Blocked
    <3>3. QED
      BY <3>1, <3>2, Given DEF TwoCells
  <2>2. PICK c \in Cell : picked = [d \in idle |-> c]
    BY <1>2, <1>6, <2>1 DEF SharedSelections
  <2>3. idle = Drone
    BY <1>1, <1>6 DEF StartInv, Unassigned
  <2>4. QED
    BY <1>2, <2>2, <2>3 DEF Alike
<1>7. \A d \in Drone : now = 0 => cell'[d] = None
  BY <1>1 DEF StartInv, Unassigned
<1>8. FirstContest'
  <2>1. CASE ~contended
    BY <1>1, <1>6, <1>7, <2>1 DEF FirstContest, Alike
  <2>2. CASE contended
    BY <1>1, <2>2 DEF StartInv, Unassigned, FirstContest
  <2>3. QED
    BY <2>1, <2>2
<1>9. OneContest'
  BY <1>1, <1>4, <1>5 DEF StartInv, OneContest, Settled, Apart
<1>10. QED
  BY <1>3, <1>8, <1>9 DEF StartInv

\* The first contest is among all drones or there is only one: either way there
\* will be no other.
LEMMA StartResolve ==
  ASSUME StubType, StartInv, Resolve
  PROVE  StartInv'
<1> USE DEF fleet, milestones, queues, pass
<1>1. /\ step = "resolve" /\ claims # {} /\ claims' = claims \ Contest
      /\ contended' = (contended \/ Cardinality(Contest) > 1)
      /\ UNCHANGED <<now, step, status, age, verdict, queues, released, completed>>
  <2>1. UNCHANGED status
    BY DEF Resolve, Assign
  <2>2. QED
    BY <2>1 DEF Resolve
<1>2. Calm' /\ Unassigned'
  BY <1>1 DEF StartInv, Calm, Unassigned, FirstPass
<1>3. OneContest'
  BY <1>1 DEF StartInv, OneContest, Settled, Apart
<1>4. ASSUME now = 0 PROVE claims' = {} /\ Settled'
  <2>1. Alike(claims) /\ \A d \in Drone : \E c \in claims : c.drone = d
    BY <1>1, <1>4 DEF StartInv, FirstContest
  <2>2. Contest = claims
    <3>1. PICK c \in claims : c.cell = FirstCell
      BY ResolveFacts DEF Contest
    <3>2. QED
      BY <2>1, <3>1 DEF Alike, Contest
  <2>3. ASSUME NEW d \in Drone, NEW e \in Drone, d # e
        PROVE  Cardinality(Contest) > 1
    <3>1. PICK a \in Contest, b \in Contest : a # b
      BY <2>1, <2>2, <2>3
    <3>2. IsFiniteSet(Contest) /\ Cardinality(Contest) \in Nat
      BY ResolveFacts, FS_CardinalityType
    <3>3. Cardinality(Contest) # 0
      BY <3>1, <3>2, FS_EmptySet
    <3>4. Cardinality(Contest) # 1
      BY <3>1, <3>2, FS_Singleton
    <3>5. QED
      BY <3>2, <3>3, <3>4
  <2>4. QED
    BY <1>1, <2>2, <2>3 DEF Settled
<1>5. FirstContest'
  BY <1>1, <1>4 DEF FirstContest
<1>6. QED
  BY <1>2, <1>3, <1>5 DEF StartInv

LEMMA StartEnds ==
  ASSUME StubType, StartInv, ResolveRaises \/ PassDone \/ RunEnds
  PROVE  StartInv'
<1> USE DEF fleet, milestones, queues, pass
<1>1. CASE ResolveRaises
  <2>1. /\ step = "resolve" /\ Cardinality(Contest) > 1 /\ claims # {} /\ step' = "raised"
        /\ UNCHANGED <<now, status, cell, age, verdict, queues, released, contended, completed>>
    BY <1>1 DEF ResolveRaises
  <2>2. now = 0
    <3> SUFFICES ASSUME now # 0 PROVE FALSE
      OBVIOUS
    <3>1. Apart(claims)
      BY <2>1, TypedFacts DEF StartInv, OneContest
    <3>2. PICK c \in claims : TRUE
      BY <2>1
    <3>3. \A a, b \in Contest : a = b
      BY <3>1 DEF Apart, Contest
    <3>4. Contest = {} \/ \E a \in Contest : Contest = {a}
      BY <3>3
    <3>5. Cardinality(Contest) \in {0, 1}
      BY <3>4, FS_EmptySet, FS_Singleton
    <3>6. QED
      BY <2>1, <3>5
  <2>3. QED
    BY <2>1, <2>2 DEF StartInv, Calm, Unassigned, FirstContest, OneContest, FirstPass
<1>2. CASE PassDone
  <2>1. /\ step = "resolve" /\ claims = {} /\ step' = "fail"
        /\ UNCHANGED <<now, status, cell, age, verdict, queues, released, contended, completed>>
    BY <1>2 DEF PassDone
  <2>2. Settled
    <3>1. CASE now = 0
      <4>1. (claims = {} /\ Settled) \/ \A d \in Drone : \E c \in claims : c.drone = d
        BY <2>1, <3>1 DEF StartInv, FirstContest
      <4>2. QED
        BY <2>1, <4>1, Given
    <3>2. CASE now # 0
      BY <3>2, TypedFacts DEF StartInv, OneContest
    <3>3. QED
      BY <3>1, <3>2
  <2>3. QED
    BY <2>1, <2>2 DEF StartInv, Calm, Unassigned, FirstContest, OneContest, FirstPass, Settled
<1>3. CASE RunEnds
  <2>1. /\ step = "fail" /\ step' = "over"
        /\ UNCHANGED <<now, status, cell, age, verdict, queues, released, contended, completed>>
    BY <1>3 DEF RunEnds
  <2>2. Settled'
    BY <2>1 DEF StartInv, OneContest, Settled
  <2>3. Calm'
    BY <2>1 DEF StartInv, Calm, FirstPass
  <2>4. QED
    BY <2>1, <2>2, <2>3 DEF StartInv, Unassigned, FirstContest, OneContest
<1>4. QED
  BY <1>1, <1>2, <1>3

LEMMA StartInvariant ==
  ASSUME TwoCells
  PROVE  Spec => []StartInv
<1>1. StubType /\ StartInv /\ [Next]_vars => StartInv'
  BY StartInject, StartRecover, StartBeat, StartObserve, StartMark, StartMove, StartArm,
     StartRescue, StartServeRelease, StartServeTarget, StartLoopEnds, StartSelect, StartResolve,
     StartEnds DEF Next
<1>2. QED
  BY <1>1, StartInit, StubTypeInvariant, PTL DEF Spec

\* Only the very first contest is voted on, so only initialise can die of the
\* exception of resolve_claims that nobody catches, on any grid of more than one
\* cell, for any drones, times and losses: once a drone has flown, the selector
\* gives no cell to two claims of a pass.
THEOREM OnlyStartRaises ==
  ASSUME TwoCells
  PROVE  Spec => []RaiseOnlyAtStart
<1>1. StartInv => RaiseOnlyAtStart
  BY DEF StartInv, OneContest, RaiseOnlyAtStart
<1>2. QED
  BY <1>1, StartInvariant, PTL
-----------------------------------------------------------------------------
\* Only the drone of the scheduled failure leaves the mesh, once.
OneFailure ==
  /\ \A d \in Drone : status[d] # "up" => d = FailDrone /\ triggered
  /\ recovered => triggered /\ status[FailDrone] = "up"

\* Between the beats and the count nobody misses a drone whose beats it gets in time.
Heard ==
  step = "observe" =>
    \A o \in Drone, d \in Online : Gap[o][d] <= Timeout => ~Missed(o, d)

Verdicts ==
  /\ \A d \in verdict : status[d] = "off"
  /\ verdict # {} => step = "mark"

\* One cell is released in a run, so the release queue holds no other.
OneRelease ==
  /\ released # None => triggered /\ status[FailDrone] # "off"
  /\ \A i \in 1 .. Len(releaseQ) : releaseQ[i] = released

\* From the rescue on the release queue has somebody to serve.
Attended ==
  /\ step = "release" => releaseQ = <<>> \/ ~waited \/ Rescuers = {} \/ idle # {}
  /\ step \in {"target", "select", "resolve", "fail"} =>
       releaseQ = <<>> \/ ~waited \/ Rescuers = {}

MeshInv == OneFailure /\ Heard /\ Verdicts /\ OneRelease /\ Attended

LEMMA MeshInit == Init => MeshInv
<1> SUFFICES ASSUME Init PROVE MeshInv
  OBVIOUS
<1>1. OneFailure /\ Heard /\ Verdicts
  BY DEF Init, OneFailure, Heard, Verdicts
<1>2. OneRelease /\ Attended
  BY DEF Init, OneRelease, Attended
<1>3. QED
  BY <1>1, <1>2 DEF MeshInv

\* Whoever is not the drone of the failure is online.
LEMMA OnlineMany ==
  ASSUME StubType, OneFailure
  PROVE  Cardinality(Drone) \in Nat /\ Cardinality(Online) >= Cardinality(Drone) - 1
<1>1. Cardinality(Drone) \in Nat /\ Cardinality(Drone \ {FailDrone}) = Cardinality(Drone) - 1
  BY Given, FS_CardinalityType, FS_RemoveElement
<1>2. (Drone \ {FailDrone}) \in SUBSET Online
  BY DEF Online, OneFailure
<1>3. Cardinality(Drone \ {FailDrone}) <= Cardinality(Online)
  BY <1>2, OnlineFinite, FS_Subset
<1>4. QED
  BY <1>1, <1>3, OnlineFinite

\* Those who miss a drone that has just beaten are deaf to it, too few for a
\* verdict even while one drone is off the mesh.
LEMMA NoBeatingDroneCondemned ==
  ASSUME HeardInTime, StubType, OneFailure, Heard, step = "observe", NEW d \in Online
  PROVE  d \notin Condemned
<1> DEFINE missing == {o \in Online : Missed(o, d)}
           deaf == {o \in Drone : Gap[o][d] > Timeout}
<1>1. d \in Drone
  BY DEF Online
<1>2. missing \in SUBSET deaf
  <2> SUFFICES ASSUME NEW o \in Online, Missed(o, d) PROVE o \in deaf
    OBVIOUS
  <2>1. o \in Drone
    BY DEF Online
  <2>2. ~(Gap[o][d] <= Timeout) /\ Gap[o][d] \in Nat
    BY <1>1, <2>1, Given DEF Heard
  <2>3. QED
    BY <2>1, <2>2, Given
<1>3. IsFiniteSet(deaf)
  BY Given, FS_Subset
<1>4. /\ Cardinality(missing) <= Cardinality(deaf)
      /\ Cardinality(missing) \in Nat /\ Cardinality(deaf) \in Nat
  BY <1>2, <1>3, FS_Subset, FS_CardinalityType
<1>5. Cardinality(deaf) <= (Cardinality(Drone) - 1) \div 2
  BY <1>1 DEF HeardInTime
<1>6. Cardinality(missing) < Cardinality(Online) \div 2 + 1
  <2> HIDE DEF missing, deaf
  <2>1. Cardinality(Drone) - 1 <= Cardinality(Online)
    BY OnlineMany, OnlineFinite
  <2>2. Cardinality(Drone) \in Nat /\ Cardinality(Online) \in Nat
    BY OnlineMany, OnlineFinite
  <2>3. (Cardinality(Drone) - 1) \div 2 <= Cardinality(Online) \div 2
    BY <2>1, <2>2
  <2>4. QED
    BY <1>4, <1>5, <2>2, <2>3
<1>7. ~(Cardinality(missing) >= Cardinality(Online) \div 2 + 1)
  <2> HIDE DEF missing
  <2>1. Cardinality(Online) \div 2 + 1 \in Nat
    BY OnlineFinite
  <2>2. QED
    BY <1>4, <1>6, <2>1
<1>8. QED
  BY <1>7 DEF Condemned

\* What most steps leave alone.
LEMMA MeshAside ==
  ASSUME StubType, MeshInv,
         UNCHANGED <<status, triggered, recovered, verdict, released, releaseQ>>,
         UNCHANGED <<step, age>> \/ (step' # "observe" /\ (verdict = {} \/ step' = "mark"))
  PROVE  OneFailure' /\ Heard' /\ Verdicts' /\ OneRelease'
<1>1. OneFailure' /\ OneRelease'
  BY DEF MeshInv, OneFailure, OneRelease
<1>2. Heard'
  BY DEF MeshInv, Heard, Online, Missed
<1>3. Verdicts'
  BY DEF MeshInv, Verdicts
<1>4. QED
  BY <1>1, <1>2, <1>3

LEMMA MeshInject ==
  ASSUME StubType, MeshInv, InjectFailure
  PROVE  MeshInv'
<1> USE DEF queues, milestones, pass
<1>1. /\ step = "fail" /\ step' = "recover" /\ UNCHANGED <<verdict, releaseQ, released, recovered>>
  BY DEF InjectFailure
<1>2. \/ status' = status /\ (triggered => triggered')
      \/ ~triggered /\ triggered' = TRUE /\ status' = [status EXCEPT ![FailDrone] = "off"]
  BY DEF InjectFailure
<1>3. OneFailure'
  BY <1>1, <1>2, Given, TypedFacts DEF MeshInv, OneFailure
<1>4. verdict = {}
  BY <1>1 DEF MeshInv, Verdicts
<1>5. Heard' /\ Verdicts'
  BY <1>1, <1>4 DEF Heard, Verdicts
<1>6. OneRelease'
  BY <1>1, <1>2 DEF MeshInv, OneRelease
<1>7. Attended'
  BY <1>1 DEF Attended
<1>8. QED
  BY <1>3, <1>5, <1>6, <1>7 DEF MeshInv

LEMMA MeshRecover ==
  ASSUME StubType, MeshInv, CheckRecovery
  PROVE  MeshInv'
<1> USE DEF queues, milestones, pass, fleet
<1>1. step = "recover" /\ step' = "beat" /\ UNCHANGED <<verdict, releaseQ, released, triggered>>
  BY DEF CheckRecovery
<1>2. \/ UNCHANGED <<status, recovered>>
      \/ /\ status[FailDrone] # "up" /\ recovered' = TRUE
         /\ status' = [status EXCEPT ![FailDrone] = "up"]
  BY DEF CheckRecovery
<1>3. OneFailure'
  BY <1>1, <1>2, Given, TypedFacts DEF MeshInv, OneFailure
<1>4. verdict = {}
  BY <1>1 DEF MeshInv, Verdicts
<1>5. Heard' /\ Verdicts'
  BY <1>1, <1>4 DEF Heard, Verdicts
<1>6. OneRelease'
  BY <1>1, <1>2, Given, TypedFacts DEF MeshInv, OneRelease
<1>7. Attended'
  BY <1>1 DEF Attended
<1>8. QED
  BY <1>3, <1>5, <1>6, <1>7 DEF MeshInv

LEMMA MeshBeat ==
  ASSUME StubType, MeshInv, Beat
  PROVE  MeshInv'
<1> USE DEF queues, milestones, pass, fleet
<1>1. /\ step = "beat" /\ step' = "observe"
      /\ UNCHANGED <<status, triggered, recovered, verdict, released, releaseQ>>
  BY DEF Beat
<1>2. PICK lost \in SUBSET {w \in Drone \X Online : MayMiss(w[1], w[2])} :
        age' = [o \in Drone |-> [d \in Drone |->
                  IF d \in Online /\ <<o, d>> \notin lost THEN 0 ELSE age[o][d]]]
  BY DEF Beat
<1>3. Heard'
  <2>1. Online' = Online /\ Online \in SUBSET Drone
    BY <1>1 DEF Online
  <2>2. ASSUME NEW o \in Drone, NEW d \in Online, Gap[o][d] <= Timeout
        PROVE  ~(age'[o][d] # None /\ age'[o][d] > Timeout)
    <3>1. d \in Drone /\ Gap[o][d] \in Nat
      BY <2>1, Given
    <3>2. CASE <<o, d>> \in lost
      <4>1. MayMiss(o, d)
        BY <1>2, <3>2
      <4>2. age'[o][d] = age[o][d]
        BY <1>2, <3>1, <3>2
      <4>3. age[o][d] = None \/ age[o][d] <= Timeout
        <5>1. age[o][d] \in Silence
          BY <3>1, TypedFacts
        <5>2. CASE age[o][d] = None
          BY <5>2
        <5>3. CASE age[o][d] # None
          BY <2>2, <3>1, <4>1, <5>1, <5>3, Given DEF MayMiss, Silence
        <5>4. QED
          BY <5>2, <5>3
      <4>4. CASE age[o][d] = None
        BY <4>2, <4>4
      <4>5. CASE age[o][d] # None
        <5>1. age[o][d] \in Nat /\ age[o][d] <= Timeout
          BY <3>1, <4>3, <4>5, TypedFacts, Given DEF Silence
        <5>2. QED
          BY <4>2, <5>1, Given
      <4>6. QED
        BY <4>4, <4>5
    <3>3. CASE <<o, d>> \notin lost
      <4>1. age'[o][d] = 0
        BY <1>2, <3>1, <3>3
      <4>2. QED
        BY <4>1, Given
    <3>4. QED
      BY <3>2, <3>3
  <2>3. QED
    BY <2>1, <2>2 DEF Heard, Missed
<1>4. OneFailure' /\ OneRelease'
  BY <1>1 DEF MeshInv, OneFailure, OneRelease
<1>5. Verdicts' /\ Attended'
  BY <1>1 DEF MeshInv, Verdicts, Attended
<1>6. QED
  BY <1>3, <1>4, <1>5 DEF MeshInv

LEMMA MeshObserve ==
  ASSUME HeardInTime, StubType, MeshInv, Observe
  PROVE  MeshInv'
<1> USE DEF queues, milestones, pass, fleet
<1>1. /\ step = "observe" /\ step' = "mark" /\ verdict' = Condemned
      /\ UNCHANGED <<status, triggered, recovered, released, releaseQ>>
  BY DEF Observe
<1>2. \A d \in Condemned : d \in Drone /\ status[d] # "dead" /\ d \notin Online
  BY <1>1, NoBeatingDroneCondemned DEF MeshInv, Condemned
<1>3. \A d \in Condemned : status[d] = "off"
  BY <1>2, TypedFacts DEF Online
<1>4. Verdicts'
  BY <1>1, <1>3 DEF Verdicts
<1>5. OneFailure' /\ OneRelease'
  BY <1>1 DEF MeshInv, OneFailure, OneRelease
<1>6. Heard' /\ Attended'
  BY <1>1 DEF Heard, Attended
<1>7. QED
  BY <1>4, <1>5, <1>6 DEF MeshInv

\* The one that is marked is the drone of the failure, before it is revived.
LEMMA MarkFacts ==
  ASSUME StubType, MeshInv, MarkDroneStale
  PROVE  /\ Lowest(verdict) = FailDrone /\ FailDrone \in verdict
         /\ status[FailDrone] = "off" /\ triggered /\ ~recovered
         /\ released = None /\ releaseQ = <<>>
<1>1. Lowest(verdict) \in verdict /\ verdict \in SUBSET Drone
  BY TypedFacts, LowestIn, Given DEF MarkDroneStale
<1>2. \A d \in verdict : status[d] = "off" /\ d = FailDrone /\ triggered
  BY <1>1 DEF MeshInv, Verdicts, OneFailure
<1>3. status[FailDrone] = "off" /\ triggered /\ ~recovered /\ released = None
  BY <1>1, <1>2 DEF MeshInv, OneFailure, OneRelease
<1>4. releaseQ = <<>>
  <2>1. \A i \in 1 .. Len(releaseQ) : releaseQ[i] = None /\ releaseQ[i] \in Cell
    BY <1>3, TypedFacts DEF MeshInv, OneRelease
  <2>2. 1 \notin 1 .. Len(releaseQ)
    BY <2>1, Given
  <2>3. QED
    BY <2>2, TypedFacts
<1>5. QED
  BY <1>1, <1>2, <1>3, <1>4

LEMMA MeshMark ==
  ASSUME StubType, MeshInv, MarkDroneStale
  PROVE  MeshInv'
<1> USE DEF queues, milestones, pass, fleet
<1>1. /\ step = "mark" /\ UNCHANGED <<step, triggered, recovered>>
      /\ status' = [status EXCEPT ![FailDrone] = "dead"] /\ verdict' = verdict \ {FailDrone}
      /\ \/ UNCHANGED <<released, waited, releaseQ>>
         \/ /\ cell[FailDrone] # None /\ released' = cell[FailDrone]
            /\ releaseQ' = IF Queued(cell[FailDrone]) THEN releaseQ
                                                      ELSE Append(releaseQ, cell[FailDrone])
  BY MarkFacts DEF MarkDroneStale
<1>2. OneFailure'
  BY <1>1, MarkFacts, Given, TypedFacts DEF MeshInv, OneFailure
<1>3. Verdicts'
  BY <1>1, TypedFacts DEF MeshInv, Verdicts
<1>4. OneRelease'
  <2>1. status'[FailDrone] # "off" /\ triggered'
    BY <1>1, MarkFacts, Given, TypedFacts
  <2>2. CASE UNCHANGED <<released, waited, releaseQ>>
    BY <2>1, <2>2 DEF MeshInv, OneRelease
  <2>3. CASE cell[FailDrone] # None /\ released' = cell[FailDrone]
             /\ releaseQ' = IF Queued(cell[FailDrone]) THEN releaseQ
                                                       ELSE Append(releaseQ, cell[FailDrone])
    <3>1. releaseQ = <<>>
      BY MarkFacts
    <3>2. releaseQ' = <<cell[FailDrone]>>
      BY <2>3, <3>1 DEF Queued
    <3>3. QED
      BY <2>1, <2>3, <3>2 DEF OneRelease
  <2>4. QED
    BY <1>1, <2>2, <2>3
<1>5. Heard' /\ Attended'
  BY <1>1 DEF Heard, Attended
<1>6. QED
  BY <1>2, <1>3, <1>4, <1>5 DEF MeshInv

LEMMA MeshArm ==
  ASSUME StubType, MeshInv, ArmQueues
  PROVE  MeshInv'
<1> USE DEF queues, milestones, pass, fleet
<1>1. /\ step = "arm" /\ step' = "rescue"
      /\ UNCHANGED <<status, triggered, recovered, verdict, released>>
  BY DEF ArmQueues
<1>2. OneFailure' /\ Heard' /\ Attended'
  BY <1>1 DEF MeshInv, OneFailure, Heard, Attended
<1>3. Verdicts'
  BY <1>1 DEF MeshInv, Verdicts
<1>4. OneRelease'
  <2>1. CASE releaseQ' = releaseQ
    BY <1>1, <2>1 DEF MeshInv, OneRelease
  <2>2. CASE released # None /\ ~Queued(released) /\ releaseQ' = <<released>> \o releaseQ
    <3>1. Len(releaseQ) = 0
      BY <2>2, TypedFacts DEF Queued, MeshInv, OneRelease
    <3>2. releaseQ' = <<released>>
      BY <2>2, <3>1, TypedFacts
    <3>3. QED
      BY <1>1, <3>2 DEF MeshInv, OneRelease
  <2>3. QED
    BY <2>1, <2>2 DEF ArmQueues
<1>5. QED
  BY <1>2, <1>3, <1>4 DEF MeshInv

\* If the queue waits and somebody may be taken off its work, somebody is.
LEMMA MeshRescue ==
  ASSUME StubType, MeshInv, Rescue
  PROVE  MeshInv'
<1> USE DEF queues, milestones, pass, fleet
<1>1. /\ step = "rescue" /\ step' = "release"
      /\ UNCHANGED <<status, triggered, recovered, verdict, released, releaseQ, waited>>
  BY DEF Rescue
<1>2. verdict = {}
  BY <1>1 DEF MeshInv, Verdicts
<1>3. OneFailure' /\ Heard' /\ Verdicts' /\ OneRelease'
  BY <1>1, <1>2, MeshAside
<1>4. Attended'
  <2>1. Rescuers' = Rescuers
    BY <1>1 DEF Rescuers, Online
  <2>2. CASE Waiting /\ Rescuers # {}
    <3>1. idle' # {}
      BY <2>2 DEF Rescue
    <3>2. QED
      BY <1>1, <3>1 DEF Attended
  <2>3. CASE ~(Waiting /\ Rescuers # {})
    <3>1. idle' = idle
      BY <2>3 DEF Rescue
    <3>2. releaseQ # <<>> => released # None
      <4>1. releaseQ # <<>> => 1 \in 1 .. Len(releaseQ) /\ releaseQ[1] \in Cell
        BY TypedFacts
      <4>2. QED
        BY <4>1, Given DEF MeshInv, OneRelease
    <3>3. QED
      BY <1>1, <2>1, <2>3, <3>1, <3>2 DEF Attended, Waiting
  <2>4. QED
    BY <2>2, <2>3
<1>5. QED
  BY <1>3, <1>4 DEF MeshInv

LEMMA MeshServeRelease ==
  ASSUME StubType, MeshInv, ServeRelease
  PROVE  MeshInv'
<1> USE DEF queues, milestones, pass, fleet
<1>1. /\ step = "release" /\ releaseQ # <<>> /\ releaseQ' = Tail(releaseQ)
      /\ UNCHANGED <<step, age, triggered, recovered, verdict, released>>
  BY DEF ServeRelease
<1>2. UNCHANGED status
  BY DEF ServeRelease, Assign
<1>3. OneFailure' /\ Heard' /\ Verdicts'
  BY <1>1, <1>2 DEF MeshInv, OneFailure, Heard, Verdicts
<1>4. releaseQ' = <<>>
  <2>1. \A i, j \in 1 .. Len(releaseQ) : releaseQ[i] = releaseQ[j] /\ (releaseQ[i] = releaseQ[j] => i = j)
    BY DEF MeshInv, OneRelease, StubType, TypeOK
  <2>2. Len(releaseQ) \in Nat /\ Len(releaseQ) >= 1
    BY <1>1, TypedFacts
  <2>3. \A i \in 1 .. Len(releaseQ) : i = 1
    BY <2>1, <2>2
  <2>4. Len(releaseQ) = 1
    <3>1. Len(releaseQ) >= 2 => 2 \in 1 .. Len(releaseQ)
      BY <2>2
    <3>2. 2 \notin 1 .. Len(releaseQ)
      BY <2>3
    <3>3. QED
      BY <2>2, <3>1, <3>2
  <2>5. QED
    BY <1>1, <2>4, TypedFacts
<1>5. OneRelease' /\ Attended'
  BY <1>1, <1>2, <1>4 DEF MeshInv, OneRelease, Attended
<1>6. QED
  BY <1>3, <1>5 DEF MeshInv

\* The steps that change neither the mesh nor the release queue.
LEMMA MeshRest ==
  ASSUME StubType, MeshInv,
         \/ MarkingDone \/ MoveAndSearch \/ ReleaseDone \/ ServeTarget \/ Select \/ Resolve
         \/ ResolveRaises \/ PassDone \/ RunEnds \/ UNCHANGED vars
  PROVE  MeshInv'
<1> USE DEF queues, milestones, pass, fleet
<1>1. /\ UNCHANGED <<status, triggered, recovered, verdict, released, releaseQ, waited>>
      /\ \/ UNCHANGED <<step, age, idle>>
         \/ step' \in {"arm", "move", "over", "raised"} /\ verdict = {}
         \/ step = "release" /\ step' = "target" /\ verdict = {} /\ (releaseQ = <<>> \/ idle = {})
         \/ /\ step \in {"target", "select", "resolve"} /\ verdict = {}
            /\ step' \in {"select", "resolve", "fail"}
  <2>0. verdict # {} => step = "mark"
    BY DEF MeshInv, Verdicts
  <2>1. CASE MarkingDone \/ ReleaseDone
    BY <2>0, <2>1 DEF MarkingDone, ReleaseDone
  <2>2. CASE MoveAndSearch
    BY <2>0, <2>2 DEF MoveAndSearch
  <2>3. CASE ServeTarget
    <3>1. UNCHANGED status
      BY <2>3 DEF ServeTarget, Assign
    <3>2. QED
      BY <2>0, <2>3, <3>1 DEF ServeTarget
  <2>4. CASE Select
    BY <2>0, <2>4 DEF Select
  <2>5. CASE Resolve
    <3>1. UNCHANGED status
      BY <2>5 DEF Resolve, Assign
    <3>2. QED
      BY <2>5, <3>1 DEF Resolve
  <2>6. CASE ResolveRaises \/ PassDone \/ RunEnds
    BY <2>0, <2>6 DEF ResolveRaises, PassDone, RunEnds
  <2>7. CASE UNCHANGED vars
    BY <2>7 DEF vars
  <2>8. QED
    BY <2>1, <2>2, <2>3, <2>4, <2>5, <2>6, <2>7
<1>2. OneFailure' /\ Heard' /\ Verdicts' /\ OneRelease'
  BY <1>1, MeshAside
<1>3. Rescuers' = Rescuers
  BY <1>1 DEF Rescuers, Online
<1>4. Attended'
  BY <1>1, <1>3 DEF MeshInv, Attended
<1>5. QED
  BY <1>2, <1>4 DEF MeshInv

LEMMA MeshInvariant ==
  ASSUME HeardInTime
  PROVE  Spec => []MeshInv
<1>1. StubType /\ MeshInv /\ [Next]_vars => MeshInv'
  BY MeshInject, MeshRecover, MeshBeat, MeshObserve, MeshMark, MeshArm, MeshRescue,
     MeshServeRelease, MeshRest DEF Next
<1>2. QED
  BY <1>1, MeshInit, StubTypeInvariant, PTL DEF Spec

\* While the network keeps to HeardInTime a drone is declared dead only while it is
\* off the mesh: _heartbeat_tick condemns nobody that has just beaten, and
\* _mark_drone_stale marks only whom it condemned.
THEOREM BeatingDronesLive ==
  ASSUME HeardInTime
  PROVE  Spec => OnlySilentDie
<1>1. ASSUME StubType, MeshInv, [Next]_vars, NEW d \in Drone, status[d] = "up"
      PROVE  status'[d] # "dead"
  <2> USE DEF fleet
  <2>1. CASE MarkDroneStale
    <3>1. status' = [status EXCEPT ![FailDrone] = "dead"] /\ status[FailDrone] = "off"
      BY <2>1, <1>1, MarkFacts DEF MarkDroneStale
    <3>2. QED
      BY <1>1, <3>1, TypedFacts
  <2>2. CASE InjectFailure
    BY <1>1, <2>2, TypedFacts DEF InjectFailure
  <2>3. CASE CheckRecovery
    BY <1>1, <2>3, TypedFacts DEF CheckRecovery
  <2>4. CASE ~(MarkDroneStale \/ InjectFailure \/ CheckRecovery)
    <3>1. status' = status
      BY <1>1, <2>4 DEF Next, vars, Beat, Observe, MarkingDone, MoveAndSearch, ArmQueues, Rescue,
         ServeRelease, ReleaseDone, ServeTarget, Select, ResolveRaises, Resolve, PassDone,
         RunEnds, Assign
    <3>2. QED
      BY <1>1, <3>1
  <2>5. QED
    BY <2>1, <2>2, <2>3, <2>4
<1>2. StubType /\ MeshInv /\ [Next]_vars
        => [\A d \in Drone : status[d] = "up" => status'[d] # "dead"]_vars
  BY <1>1
<1>3. QED
  BY <1>2, MeshInvariant, StubTypeInvariant, PTL DEF Spec, OnlySilentDie

\* The failure of _inject_failure happens once: a drone that _check_recovery has
\* revived stays up and, while the network keeps to HeardInTime, no quorum buries
\* it for the beats it missed.
THEOREM RecoveryLasts ==
  ASSUME HeardInTime
  PROVE  Spec => []RecoveryHolds
<1>1. MeshInv => RecoveryHolds
  BY DEF MeshInv, OneFailure, RecoveryHolds
<1>2. QED
  BY <1>1, MeshInvariant, PTL

\* A released cell is served in the pass after the second of its release, by an
\* idle drone or by one that _process_priority_release_queue takes off its work,
\* if there is any: while the network keeps to HeardInTime, so that no drone dies
\* but the one of the failure, a run releases only one cell.
THEOREM ReleasesServed ==
  ASSUME HeardInTime
  PROVE  Spec => []ReleasedIsServed
<1>1. MeshInv => ReleasedIsServed
  BY DEF MeshInv, Attended, ReleasedIsServed
<1>2. QED
  BY <1>1, MeshInvariant, PTL
-----------------------------------------------------------------------------
\* A queued target is nobody's, unless it was released, and blocks all claims.
TargetFree ==
  /\ targetQ => released = Target \/ ~Targeted
  /\ step = "select" /\ targetQ => idle = {}
  /\ step = "resolve" /\ targetQ => claims = {}

\* What is claimed is nobody's.
ClaimsFree ==
  step = "resolve" => \A c \in claims, d \in Online : cell[d] # c.cell

ShareInv == SharedOnlyAfterRelease /\ TargetFree /\ ClaimsFree

LEMMA ShareInit == Init => ShareInv
<1> SUFFICES ASSUME Init PROVE ShareInv
  OBVIOUS
<1>1. SharedOnlyAfterRelease
  BY DEF Init, SharedOnlyAfterRelease, Together
<1>2. TargetFree /\ ClaimsFree
  BY DEF Init, TargetFree, ClaimsFree
<1>3. QED
  BY <1>1, <1>2 DEF ShareInv

\* A step that gives nobody a cell gives nobody another's cell.
LEMMA ShareLess ==
  ASSUME StubType, ShareInv,
         \A d \in Online' : cell'[d] = None \/ (d \in Online /\ UNCHANGED <<cell[d], half[d]>>),
         released' = released \/ released = None
  PROVE  SharedOnlyAfterRelease' /\ (Targeted' => Targeted)
<1>1. ASSUME NEW d \in Drone, NEW e \in Drone, Together(d, e)'
      PROVE  cell'[d] = released' \/ {half'[d], half'[e]} = Half
  <2>1. /\ d # e /\ d \in Online' /\ e \in Online' /\ cell'[d] # None /\ cell'[d] = cell'[e]
    BY <1>1 DEF Together
  <2>2. /\ d \in Online /\ e \in Online /\ UNCHANGED <<cell[d], half[d], cell[e], half[e]>>
    BY <2>1
  <2>3. Together(d, e)
    BY <2>1, <2>2 DEF Together
  <2>4. cell[d] = released \/ {half[d], half[e]} = Half
    BY <2>3 DEF ShareInv, SharedOnlyAfterRelease
  <2>5. QED
    BY <2>1, <2>2, <2>4
<1>2. SharedOnlyAfterRelease'
  BY <1>1 DEF SharedOnlyAfterRelease
<1>3. Targeted' => Targeted
  BY Given DEF Targeted
<1>4. QED
  BY <1>2, <1>3

\* The steps that come before the claims of a pass and leave the target's queue alone.
LEMMA ShareAside ==
  ASSUME StubType, ShareInv,
         \A d \in Online' : cell'[d] = None \/ (d \in Online /\ UNCHANGED <<cell[d], half[d]>>),
         released' = released \/ released = None,
         UNCHANGED targetQ, step' \notin {"select", "resolve"}
  PROVE  ShareInv'
<1>1. SharedOnlyAfterRelease' /\ (Targeted' => Targeted)
  BY ShareLess
<1>2. TargetFree'
  BY <1>1, Given DEF ShareInv, TargetFree
<1>3. ClaimsFree'
  BY DEF ClaimsFree
<1>4. QED
  BY <1>1, <1>2, <1>3 DEF ShareInv

LEMMA ShareMesh ==
  ASSUME StubType, MeshInv, ShareInv,
         InjectFailure \/ CheckRecovery \/ Beat \/ Observe \/ MarkDroneStale \/ MarkingDone
  PROVE  ShareInv'
<1> USE DEF queues, milestones, pass, fleet
<1>1. CASE InjectFailure
  <2>1. /\ step' = "recover" /\ UNCHANGED <<cell, half, released, targetQ>>
        /\ Online' \subseteq Online
    BY <1>1, TypedFacts DEF InjectFailure, Online
  <2>2. QED
    BY <2>1, ShareAside
<1>2. CASE CheckRecovery
  <2>1. step' = "beat" /\ UNCHANGED <<released, targetQ>>
    BY <1>2 DEF CheckRecovery
  <2>2. CASE UNCHANGED fleet
    BY <2>1, <2>2, ShareAside DEF Online
  <2>3. CASE Drop({FailDrone}) /\ status' = [status EXCEPT ![FailDrone] = "up"]
    <3>1. \A d \in Drone : cell'[d] = (IF d \in {FailDrone} THEN None ELSE cell[d])
                           /\ half'[d] = (IF d \in {FailDrone} THEN None ELSE half[d])
      BY <2>3, TypedFacts, DropTyped
    <3>2. \A d \in Drone \ {FailDrone} : status'[d] = status[d]
      BY <2>3, TypedFacts
    <3>3. QED
      BY <2>1, <3>1, <3>2, ShareAside DEF Online
  <2>4. QED
    BY <1>2, <2>2, <2>3 DEF CheckRecovery
<1>3. CASE Beat \/ Observe \/ MarkingDone
  <2>1. step' \notin {"select", "resolve"} /\ UNCHANGED <<fleet, released, targetQ>>
    BY <1>3 DEF Beat, Observe, MarkingDone
  <2>2. QED
    BY <2>1, ShareAside DEF Online
<1>4. CASE MarkDroneStale
  <2>1. /\ step = "mark" /\ UNCHANGED <<step, targetQ>>
        /\ status' = [status EXCEPT ![FailDrone] = "dead"] /\ Drop({FailDrone})
    BY <1>4, MarkFacts DEF MarkDroneStale
  <2>2. released = None
    BY <1>4, MarkFacts
  <2>3. \A d \in Drone : cell'[d] = (IF d \in {FailDrone} THEN None ELSE cell[d])
                         /\ half'[d] = (IF d \in {FailDrone} THEN None ELSE half[d])
    BY <2>1, TypedFacts, DropTyped
  <2>4. \A d \in Drone \ {FailDrone} : status'[d] = status[d]
    BY <2>1, TypedFacts
  <2>5. QED
    BY <2>1, <2>2, <2>3, <2>4, ShareAside DEF Online
<1>5. QED
  BY <1>1, <1>2, <1>3, <1>4

LEMMA ShareMove ==
  ASSUME StubType, ShareInv, MoveAndSearch
  PROVE  ShareInv'
<1> USE DEF queues, milestones, pass, fleet
<1>1. UNCHANGED <<status, targetQ, released>> /\ step' \in {"over", "arm"}
  BY DEF MoveAndSearch
<1>2. PICK done :
        /\ cell' = [d \in Drone |-> IF d \in done THEN None ELSE cell[d]]
        /\ half' = [d \in Drone |-> IF d \in done THEN None ELSE half[d]]
  BY DEF MoveAndSearch
<1>3. QED
  BY <1>1, <1>2, ShareAside DEF Online

\* The target is queued only while nobody online holds it.
LEMMA ShareArm ==
  ASSUME StubType, ShareInv, ArmQueues
  PROVE  ShareInv'
<1> USE DEF queues, milestones, pass, fleet
<1>1. step' = "rescue" /\ UNCHANGED <<status, cell, half, released>>
  BY DEF ArmQueues
<1>2. Online' = Online /\ Targeted' = Targeted
  BY <1>1 DEF Online, Targeted
<1>3. SharedOnlyAfterRelease'
  BY <1>1, <1>2, ShareLess
<1>4. TargetFree'
  <2>1. targetQ' => targetQ \/ ~Targeted
    BY DEF ArmQueues
  <2>2. QED
    BY <1>1, <1>2, <2>1 DEF ShareInv, TargetFree
<1>5. ClaimsFree'
  BY <1>1 DEF ClaimsFree
<1>6. QED
  BY <1>3, <1>4, <1>5 DEF ShareInv

LEMMA ShareRescue ==
  ASSUME StubType, ShareInv, Rescue \/ ReleaseDone
  PROVE  ShareInv'
<1> USE DEF queues, milestones, pass, fleet
<1>1. step' \in {"release", "target"} /\ UNCHANGED <<status, targetQ, released>>
  BY DEF Rescue, ReleaseDone
<1>2. CASE UNCHANGED <<cell, half>>
  BY <1>1, <1>2, ShareAside DEF Online
<1>3. CASE \E d \in Rescuers : Drop({d})
  <2>1. PICK d : Drop({d})
    BY <1>3
  <2>2. \A e \in Drone : cell'[e] = (IF e \in {d} THEN None ELSE cell[e])
                         /\ half'[e] = (IF e \in {d} THEN None ELSE half[e])
    BY <2>1, TypedFacts, DropTyped
  <2>3. QED
    BY <1>1, <2>2, ShareAside DEF Online
<1>4. QED
  BY <1>2, <1>3 DEF Rescue, ReleaseDone

\* A drone that gets a cell nobody online holds, or the released one.
LEMMA ShareOneMore ==
  ASSUME StubType, ShareInv, NEW d \in Drone, UNCHANGED <<status, released>>,
         \A e \in Drone \ {d} : cell'[e] = cell[e] /\ half'[e] = half[e],
         cell'[d] = released \/ \A e \in Online : cell[e] # cell'[d]
  PROVE  SharedOnlyAfterRelease'
<1>1. Online' = Online /\ Online \in SUBSET Drone
  BY DEF Online
<1>2. ASSUME NEW a \in Drone, NEW b \in Drone, Together(a, b)'
      PROVE  cell'[a] = released' \/ {half'[a], half'[b]} = Half
  <2>1. /\ a # b /\ a \in Online /\ b \in Online /\ cell'[a] # None /\ cell'[a] = cell'[b]
    BY <1>1, <1>2 DEF Together
  <2>2. CASE a = d \/ b = d
    BY <2>1, <2>2
  <2>3. CASE a # d /\ b # d
    <3>1. cell'[a] = cell[a] /\ half'[a] = half[a] /\ cell'[b] = cell[b] /\ half'[b] = half[b]
      BY <2>3
    <3>2. Together(a, b)
      BY <2>1, <3>1 DEF Together
    <3>3. QED
      BY <3>1, <3>2 DEF ShareInv, SharedOnlyAfterRelease
  <2>4. QED
    BY <2>2, <2>3
<1>3. QED
  BY <1>2 DEF SharedOnlyAfterRelease

LEMMA ShareServeRelease ==
  ASSUME StubType, MeshInv, ShareInv, ServeRelease
  PROVE  ShareInv'
<1> USE DEF queues, milestones, pass, fleet
<1> DEFINE seats == [d \in {Lowest(idle)} |-> [cell |-> Head(releaseQ), half |-> None]]
<1>1. step' = "release" /\ UNCHANGED <<targetQ, released>> /\ Assign(seats)
  BY DEF ServeRelease
<1>2. Head(releaseQ) = released /\ Lowest(idle) \in Drone /\ Seats(seats)
  BY ServedFacts, TypedFacts DEF MeshInv, OneRelease
<1>3. DOMAIN seats = {Lowest(idle)} /\ seats[Lowest(idle)].cell = Head(releaseQ)
  OBVIOUS
<1> HIDE DEF seats
<1>4. /\ status' = status
      /\ \A d \in Drone :
           IF d \in DOMAIN seats THEN cell'[d] = seats[d].cell /\ half'[d] = seats[d].half
                                 ELSE cell'[d] = cell[d] /\ half'[d] = half[d]
  BY <1>1, <1>2, TypedFacts, AssignTyped
<1>5. PICK d \in Drone : /\ cell'[d] = released
                         /\ \A e \in Drone \ {d} : cell'[e] = cell[e] /\ half'[e] = half[e]
  BY <1>2, <1>3, <1>4
<1>6. SharedOnlyAfterRelease'
  BY <1>1, <1>4, <1>5, ShareOneMore
<1>7. Targeted' => Targeted \/ released = Target
  BY <1>4, <1>5 DEF Targeted, Online
<1>8. TargetFree' /\ ClaimsFree'
  BY <1>1, <1>7 DEF ShareInv, TargetFree, ClaimsFree
<1>9. QED
  BY <1>6, <1>8 DEF ShareInv

LEMMA ShareServeTarget ==
  ASSUME StubType, ShareInv, ServeTarget
  PROVE  ShareInv'
<1> USE DEF queues, milestones, pass, fleet
<1>1. step' = "select" /\ UNCHANGED released /\ status' = status
  BY TargetFacts DEF ServeTarget
<1>2. CASE UNCHANGED <<cell, half, idle, targetQ>> /\ (targetQ => idle = {})
  <2>1. SharedOnlyAfterRelease' /\ (Targeted' => Targeted)
    BY <1>1, <1>2, ShareLess DEF Online
  <2>2. TargetFree' /\ ClaimsFree'
    BY <1>1, <1>2, <2>1 DEF ShareInv, TargetFree, ClaimsFree
  <2>3. QED
    BY <2>1, <2>2 DEF ShareInv
<1>3. ASSUME targetQ, targetQ' = FALSE, NEW d \in Drone, cell'[d] = Target,
             \A e \in Drone \ {d} : cell'[e] = cell[e] /\ half'[e] = half[e]
      PROVE  ShareInv'
  <2>1. cell'[d] = released \/ \A e \in Online : cell[e] # cell'[d]
    BY <1>3 DEF ShareInv, TargetFree, Targeted
  <2>2. SharedOnlyAfterRelease'
    BY <1>1, <1>3, <2>1, ShareOneMore
  <2>3. TargetFree' /\ ClaimsFree'
    BY <1>1, <1>3 DEF TargetFree, ClaimsFree
  <2>4. QED
    BY <2>2, <2>3 DEF ShareInv
<1>4. QED
  BY <1>2, <1>3, TargetFacts

\* The selector picks what no online drone holds.
LEMMA ShareSelect ==
  ASSUME StubType, ShareInv, Select
  PROVE  ShareInv'
<1> USE DEF queues, milestones, pass, fleet
<1>1. /\ step = "select" /\ step' = "resolve"
      /\ UNCHANGED <<status, cell, half, released, targetQ>>
  BY DEF Select
<1>2. PICK picked :
        /\ DOMAIN picked \subseteq idle
        /\ \A d \in DOMAIN picked : picked[d] \in Cell \ (Claimed \cup Blocked)
        /\ \A c \in claims' : c.drone \in DOMAIN picked /\ c.cell = picked[c.drone]
  BY SelectFacts
<1>3. Online' = Online /\ Targeted' = Targeted
  BY <1>1 DEF Online, Targeted
<1>4. SharedOnlyAfterRelease'
  BY <1>1, <1>3, ShareLess
<1>5. TargetFree'
  <2>1. targetQ => claims' = {}
    BY <1>1, <1>2 DEF ShareInv, TargetFree
  <2>2. QED
    BY <1>1, <1>3, <2>1 DEF ShareInv, TargetFree
<1>6. ClaimsFree'
  <2>1. \A c \in claims' : c.cell \in Cell \ Claimed
    BY <1>2
  <2>2. \A c \in claims', d \in Online : cell[d] # c.cell
    BY <2>1, Given DEF Claimed
  <2>3. QED
    BY <1>1, <1>3, <2>2 DEF ClaimsFree
<1>7. QED
  BY <1>4, <1>5, <1>6 DEF ShareInv

\* A claim that nobody contests wins its cell.
LEMMA LoneWinner ==
  ASSUME NEW c \in Claim, NEW pick
  PROVE  SeatsOf(Award({c}, pick)) = [d \in {c.drone} |-> [cell |-> c.cell, half |-> None]]
<1>1. ~Precedes(c, c)
  BY PrecedesStrict
<1>2. Rank(c, {c}) = 0
  <2>1. {d \in {c} : Precedes(d, c)} = {}
    BY <1>1
  <2>2. QED
    BY <2>1, FS_EmptySet DEF Rank
<1>3. ~Tied({c}) /\ Losers({c}) = {}
  BY <1>2 DEF Tied, Losers
<1>4. LastClaim(c.drone, {c}) = c
  BY <1>1 DEF LastClaim
<1>5. Claimants({c}) = {c.drone}
  BY DEF Claimants
<1>6. Award({c}, pick) = [d \in {c.drone} |-> [cell |-> c.cell, kind |-> "winner"]]
  BY <1>3, <1>4, <1>5 DEF Award, SeatOf
<1>7. QED
  BY <1>6 DEF SeatsOf, Half

\* The first contest seats its claimants apart, or on the two halves of a cell.
LEMMA ContestSeats ==
  ASSUME NEW S \in SUBSET Claim, IsFiniteSet(S), NEW x, \A c \in S : c.cell = x,
         NEW held, x \in held, NEW pick \in Fallbacks(S, held),
         NEW a \in DOMAIN SeatsOf(Award(S, pick)), NEW b \in DOMAIN SeatsOf(Award(S, pick)),
         a # b, SeatsOf(Award(S, pick))[a].cell = SeatsOf(Award(S, pick))[b].cell
  PROVE  {SeatsOf(Award(S, pick))[a].half, SeatsOf(Award(S, pick))[b].half} = Half
<1> DEFINE award == Award(S, pick)
<1>1. award \in [Claimants(S) -> Seat]
  BY AwardType
<1> HIDE DEF award
<1>2. /\ a \in Claimants(S) /\ b \in Claimants(S) /\ award[a].kind # "idle" /\ award[b].kind # "idle"
      /\ \A d \in {a, b} : /\ SeatsOf(award)[d].cell = award[d].cell
                           /\ SeatsOf(award)[d].half =
                                (IF award[d].kind \in Half THEN award[d].kind ELSE None)
  BY <1>1 DEF SeatsOf, award
<1>3. award[a].cell = award[b].cell
  BY <1>2 DEF award
<1>4. {award[a].kind, award[b].kind} = {"left", "right"}
  BY <1>2, <1>3, AwardExclusive DEF award
<1>5. award[a].kind \in Half /\ award[b].kind \in Half
  BY <1>4 DEF Half
<1>6. QED
  BY <1>2, <1>4, <1>5 DEF award, Half

LEMMA ShareFirstContest ==
  ASSUME StubType, StartInv, Resolve, now = 0
  PROVE  SharedOnlyAfterRelease'
<1>1. /\ step = "resolve" /\ claims # {}
      /\ \A d \in Drone : cell[d] = None
  BY DEF Resolve, StartInv, FirstContest
<1>2. PICK pick \in Fallbacks(Contest, taken \cup {FirstCell}) :
        Assign(SeatsOf(Award(Contest, pick))) /\ Seats(SeatsOf(Award(Contest, pick)))
  BY ResolveFacts
<1> DEFINE seats == SeatsOf(Award(Contest, pick))
<1>3. \A d \in Drone :
        IF d \in DOMAIN seats THEN cell'[d] = seats[d].cell /\ half'[d] = seats[d].half
                              ELSE cell'[d] = cell[d] /\ half'[d] = half[d]
  BY <1>2, TypedFacts, AssignTyped
<1>4. \A a, b \in DOMAIN seats :
        a # b /\ seats[a].cell = seats[b].cell => {seats[a].half, seats[b].half} = Half
  BY <1>2, ResolveFacts, ContestSeats
<1> HIDE DEF seats
<1>5. ASSUME NEW a \in Drone, NEW b \in Drone, Together(a, b)'
      PROVE  {half'[a], half'[b]} = Half
  <2>1. a # b /\ cell'[a] # None /\ cell'[a] = cell'[b]
    BY <1>5 DEF Together
  <2>2. a \in DOMAIN seats /\ b \in DOMAIN seats
    BY <1>1, <1>3, <2>1
  <2>3. QED
    BY <1>3, <1>4, <2>1, <2>2
<1>6. QED
  BY <1>5 DEF SharedOnlyAfterRelease

\* Later claims are not contested, and each is for a cell of its own.
LEMMA ShareLaterClaim ==
  ASSUME StubType, StartInv, ShareInv, Resolve, now # 0
  PROVE  /\ SharedOnlyAfterRelease'
         /\ \A c \in claims \ Contest, d \in Online : cell'[d] # c.cell
<1>1. step = "resolve" /\ UNCHANGED released
  BY DEF Resolve
<1>2. Apart(claims)
  BY <1>1, TypedFacts DEF StartInv, OneContest
<1>3. PICK c \in claims : c \in Contest
  BY ResolveFacts DEF Contest
<1>4. Contest = {c} /\ c \in Claim /\ \A b \in claims \ Contest : b.cell # c.cell
  BY <1>2, <1>3, TypedFacts DEF Apart, Contest
<1>5. PICK pick \in Fallbacks(Contest, taken \cup {FirstCell}) :
        Assign(SeatsOf(Award(Contest, pick))) /\ Seats(SeatsOf(Award(Contest, pick)))
  BY ResolveFacts
<1> DEFINE seats == SeatsOf(Award(Contest, pick))
<1>6. seats = [d \in {c.drone} |-> [cell |-> c.cell, half |-> None]]
  BY <1>4, LoneWinner
<1>7. /\ status' = status
      /\ \A d \in Drone :
           IF d \in DOMAIN seats THEN cell'[d] = seats[d].cell /\ half'[d] = seats[d].half
                                 ELSE cell'[d] = cell[d] /\ half'[d] = half[d]
  BY <1>5, TypedFacts, AssignTyped
<1> HIDE DEF seats
<1>8. PICK d \in Drone : /\ cell'[d] = c.cell
                         /\ \A e \in Drone \ {d} : cell'[e] = cell[e] /\ half'[e] = half[e]
  <2>1. c.drone \in Drone
    BY <1>4 DEF Claim
  <2>2. DOMAIN seats = {c.drone} /\ seats[c.drone].cell = c.cell
    BY <1>6
  <2>3. QED
    BY <1>7, <2>1, <2>2
<1>9. \A e \in Online : cell[e] # c.cell
  BY <1>1 DEF ShareInv, ClaimsFree
<1>10. SharedOnlyAfterRelease'
  BY <1>1, <1>7, <1>8, <1>9, ShareOneMore
<1>11. \A b \in claims \ Contest, e \in Online : cell'[e] # b.cell
  <2>1. \A b \in claims, e \in Online : cell[e] # b.cell
    BY <1>1 DEF ShareInv, ClaimsFree
  <2>2. QED
    BY <1>4, <1>8, <2>1 DEF Online
<1>12. QED
  BY <1>10, <1>11

LEMMA ShareResolve ==
  ASSUME StubType, StartInv, StartInv', ShareInv, Resolve
  PROVE  ShareInv'
<1> USE DEF queues, milestones, pass, fleet
<1>1. /\ step = "resolve" /\ claims # {} /\ claims' = claims \ Contest
      /\ UNCHANGED <<step, now, targetQ, released, status>>
  <2>1. UNCHANGED status
    BY DEF Resolve, Assign
  <2>2. QED
    BY <2>1 DEF Resolve
<1>2. ~targetQ
  BY <1>1 DEF ShareInv, TargetFree
<1>3. TargetFree'
  BY <1>1, <1>2 DEF TargetFree
<1>4. CASE now = 0
  <2>1. claims' = {}
    <3>1. Alike(claims)
      BY <1>1, <1>4 DEF StartInv, FirstContest
    <3>2. PICK c \in claims : c.cell = FirstCell
      BY ResolveFacts DEF Contest
    <3>3. Contest = claims
      BY <3>1, <3>2 DEF Alike, Contest
    <3>4. QED
      BY <1>1, <3>3
  <2>2. QED
    BY <1>3, <1>4, <2>1, ShareFirstContest DEF ShareInv, ClaimsFree
<1>5. CASE now # 0
  <2>1. Online' = Online
    BY <1>1 DEF Online
  <2>2. SharedOnlyAfterRelease' /\ \A c \in claims', d \in Online : cell'[d] # c.cell
    BY <1>1, <1>5, ShareLaterClaim
  <2>3. ClaimsFree'
    BY <2>1, <2>2 DEF ClaimsFree
  <2>4. QED
    BY <1>3, <2>2, <2>3 DEF ShareInv
<1>6. QED
  BY <1>4, <1>5

LEMMA ShareEnds ==
  ASSUME StubType, ShareInv, ResolveRaises \/ PassDone \/ RunEnds \/ UNCHANGED vars
  PROVE  ShareInv'
<1> USE DEF queues, milestones, pass, fleet
<1>1. CASE ResolveRaises \/ PassDone \/ RunEnds
  <2>1. step' \in {"raised", "fail", "over"} /\ UNCHANGED <<fleet, released, targetQ>>
    BY <1>1 DEF ResolveRaises, PassDone, RunEnds
  <2>2. QED
    BY <2>1, ShareAside DEF Online
<1>2. CASE UNCHANGED vars
  <2>1. UNCHANGED <<step, status, cell, half, released, targetQ, idle, claims>>
    BY <1>2 DEF vars
  <2>2. Online' = Online /\ Targeted' = Targeted
    BY <2>1 DEF Online, Targeted
  <2>3. SharedOnlyAfterRelease'
    BY <2>1, <2>2, ShareLess
  <2>4. TargetFree' /\ ClaimsFree'
    BY <2>1, <2>2 DEF ShareInv, TargetFree, ClaimsFree
  <2>5. QED
    BY <2>3, <2>4 DEF ShareInv
<1>3. QED
  BY <1>1, <1>2

LEMMA ShareInvariant ==
  ASSUME TwoCells, HeardInTime
  PROVE  Spec => []ShareInv
<1>1. StubType /\ StartInv /\ StartInv' /\ MeshInv /\ ShareInv /\ [Next]_vars => ShareInv'
  BY ShareMesh, ShareMove, ShareArm, ShareRescue, ShareServeRelease, ShareServeTarget,
     ShareSelect, ShareResolve, ShareEnds DEF Next
<1>2. QED
  BY <1>1, ShareInit, StubTypeInvariant, StartInvariant, MeshInvariant, PTL DEF Spec

\* Two online drones share a cell only as the two halves of a split, or on the
\* released cell: whenever the drone fails, while the network keeps to HeardInTime
\* and so no other drone dies, the selector, the
\* contests of resolve_claims and the two queues never give one cell twice.
THEOREM CellsAreShared ==
  ASSUME TwoCells, HeardInTime
  PROVE  Spec => []SharedOnlyAfterRelease
<1>1. ShareInv => SharedOnlyAfterRelease
  BY DEF ShareInv
<1>2. QED
  BY <1>1, ShareInvariant, PTL
=============================================================================
