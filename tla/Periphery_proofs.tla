--------------------------- MODULE Periphery_proofs ---------------------------
(***************************************************************************)
(* Two components at the edge of the system that share nothing: the ROS 2  *)
(* drones (RosContest) and the control file behind the dashboard           *)
(* (LiveControl), each for every value of its constants.                   *)
(***************************************************************************)
EXTENDS RosContest, LiveControl, FiniteSetTheorems, TLAPS

(***************************************************************************)
(* RosContest.  How far the contests can push the ROS drones, for any      *)
(* number of drones, any width of the grid and any failures.  Whoever is   *)
(* known to claim a cell can have been pushed to it by the smaller drones, *)
(* and a loser has one more smaller drone than the contender               *)
(* it lost to.                                                             *)
(***************************************************************************)

\* The drone may be at c: each smaller drone pushes it by at most one cell.
Reaches(d, c) == c <= Start + Rank(d)

\* Wherever a claim is on record, the claimant may be at that cell.
ClaimsReach ==
  /\ \A d \in Node : \A c \in Cell : \A e \in claims[d][c] : Reaches(e, c)
  /\ \A d \in Drone : sent[d] # None => Reaches(d, sent[d])
  /\ \A d \in Drone : \A r \in resultsIn[d] :
       d \in r.contenders /\ \A e \in r.contenders : Reaches(e, r.cell)

PushInv == RosTypeOK /\ ClaimsReach /\ PushedByRank

-----------------------------------------------------------------------------
LEMMA CellFacts ==
  /\ \A c \in Cell : c \in Nat /\ c <= Edge
  /\ \A d \in Drone : d \in Nat
  /\ Start \in Cell /\ Edge \in Cell
  /\ Node \subseteq Drone
  /\ None \notin Cell
BY RosContestAssumption, NoneAssumption DEF Cell, Node

LEMMA RankType ==
  ASSUME NEW d \in Drone
  PROVE  Rank(d) \in Nat
<1>1. IsFiniteSet({e \in Drone : e < d})
  BY RosContestAssumption, FS_Subset
<1>2. QED
  BY <1>1, FS_CardinalityType DEF Rank

\* A smaller drone has a smaller rank.
LEMMA RankGrows ==
  ASSUME NEW d \in Drone, NEW e \in Drone, e < d
  PROVE  Rank(e) + 1 <= Rank(d)
<1> DEFINE below(x) == {y \in Drone : y < x}
<1>1. IsFiniteSet(below(d)) /\ IsFiniteSet(below(e))
  BY RosContestAssumption, FS_Subset
<1>2. e \notin below(e) /\ below(e) \cup {e} \in SUBSET below(d)
  BY CellFacts
<1>3. Cardinality(below(e) \cup {e}) = Cardinality(below(e)) + 1
  BY <1>1, <1>2, FS_AddElement
<1>4. Cardinality(below(e) \cup {e}) <= Cardinality(below(d))
  BY <1>1, <1>2, FS_Subset
<1>5. QED
  BY <1>3, <1>4 DEF Rank

\* The loser of a contest can be pushed one cell further than any contender.
LEMMA LoserReaches ==
  ASSUME NEW d \in Drone, NEW S \in SUBSET Drone, NEW c \in Cell,
         d \in S, ~Wins(d, S), \A e \in S : Reaches(e, c)
  PROVE  Fallback(c) \in Cell /\ Reaches(d, Fallback(c))
<1>1. PICK e \in S : e < d
  BY CellFacts DEF Wins
<1>2. Rank(e) + 1 <= Rank(d) /\ Rank(e) \in Nat /\ Rank(d) \in Nat
  BY <1>1, RankGrows, RankType
<1>3. c <= Start + Rank(e) /\ c \in Nat /\ c <= Edge /\ Start \in Nat /\ Edge \in Nat
  BY CellFacts, RosContestAssumption DEF Reaches
<1>4. Fallback(c) \in Nat /\ Fallback(c) <= Edge /\ Fallback(c) <= c + 1
  BY <1>3 DEF Fallback
<1>5. QED
  BY <1>2, <1>3, <1>4 DEF Reaches, Cell

LEMMA WinnerReaches ==
  ASSUME NEW d \in Drone, NEW S \in SUBSET Drone, NEW c \in Cell,
         Wins(d, S), \A e \in S : Reaches(e, c)
  PROVE  Reaches(d, c)
BY DEF Wins

-----------------------------------------------------------------------------
LEMMA InitPush == RosInit => PushInv
<1> SUFFICES ASSUME RosInit PROVE PushInv
  OBVIOUS
<1>1. RosTypeOK
  BY CellFacts DEF RosInit, RosTypeOK
<1>2. ClaimsReach
  BY DEF RosInit, ClaimsReach
<1>3. PushedByRank
  BY RankType, RosContestAssumption DEF RosInit, PushedByRank
<1>4. QED
  BY <1>1, <1>2, <1>3 DEF PushInv

LEMMA TickStep ==
  ASSUME PushInv, NEW d \in Drone, Tick(d)
  PROVE  PushInv'
<1> USE DEF PushInv
<1>1. /\ sent' = [sent EXCEPT ![d] = target[d]]
      /\ UNCHANGED <<target, failed, last, resultsIn>>
  BY DEF Tick
<1>2. /\ claims' \in [Node -> [Cell -> SUBSET Drone]]
      /\ \A n \in Node : \A c \in Cell : claims'[n][c] \in SUBSET claims[n][c]
  <2>1. CASE UNCHANGED claims
    BY <2>1 DEF RosTypeOK
  <2>2. ASSUME NEW c \in Cell, NEW gone,
               d \in Node, claims' = [claims EXCEPT ![d][c] = @ \ gone]
        PROVE  /\ claims' \in [Node -> [Cell -> SUBSET Drone]]
               /\ \A n \in Node : \A b \in Cell : claims'[n][b] \in SUBSET claims[n][b]
    <3>1. claims \in [Node -> [Cell -> SUBSET Drone]]
      BY DEF RosTypeOK
    <3> DEFINE mine == [claims[d] EXCEPT ![c] = @ \ gone]
    <3>2. mine \in [Cell -> SUBSET Drone] /\ \A b \in Cell : mine[b] \in SUBSET claims[d][b]
      BY <2>2, <3>1
    <3>3. claims' = [claims EXCEPT ![d] = mine]
      BY <2>2, <3>1
    <3> HIDE DEF mine
    <3>4. QED
      BY <2>2, <3>1, <3>2, <3>3
  <2>3. QED
    BY <2>1, <2>2 DEF Tick
<1>3. RosTypeOK'
  BY <1>1, <1>2 DEF RosTypeOK
<1>4. ClaimsReach'
  BY <1>1, <1>2 DEF RosTypeOK, ClaimsReach, PushedByRank, Reaches, Rank
<1>5. PushedByRank'
  BY <1>1 DEF PushedByRank, Rank
<1>6. QED
  BY <1>3, <1>4, <1>5

LEMMA FailStep ==
  ASSUME PushInv, NEW d \in Drone, Fail(d)
  PROVE  PushInv'
BY DEF PushInv, Fail, RosTypeOK, ClaimsReach, PushedByRank, Reaches, Rank

LEMMA OnClaimStep ==
  ASSUME PushInv, NEW d \in Node, NEW e \in Drone, NEW c \in Cell, OnClaim(d, e, c)
  PROVE  PushInv'
<1> USE DEF PushInv
<1> DEFINE S == claims[d][c] \cup {e}
<1>1. /\ c = sent[e]
      /\ claims' = [claims EXCEPT ![d][c] = S]
      /\ UNCHANGED <<target, failed, sent>>
  BY DEF OnClaim
<1>2. S \in SUBSET Drone /\ \A f \in S : Reaches(f, c)
  BY <1>1, CellFacts DEF RosTypeOK, ClaimsReach
<1> DEFINE r == [cell |-> c, contenders |-> S]
<1>3. \/ UNCHANGED <<last, resultsIn>>
      \/ /\ last' = [last EXCEPT ![d] = r]
         /\ resultsIn' = [f \in Drone |-> resultsIn[f] \cup {x \in {r} : f \in S}]
  BY DEF OnClaim, ContestOf
<1>4. r \in Contest
  BY <1>2 DEF Contest
<1>5. /\ claims' \in [Node -> [Cell -> SUBSET Drone]]
      /\ \A n \in Node : \A b \in Cell : \A f \in claims'[n][b] : Reaches(f, b)
  BY <1>1, <1>2 DEF RosTypeOK, ClaimsReach
<1>6. /\ last' \in [Node -> Contest \cup {None}]
      /\ resultsIn' \in [Drone -> SUBSET Contest]
      /\ \A f \in Drone : \A x \in resultsIn'[f] :
           x \in resultsIn[f] \/ (x = r /\ f \in S)
  <2> HIDE DEF r, S
  <2>1. CASE UNCHANGED <<last, resultsIn>>
    BY <2>1 DEF RosTypeOK
  <2>2. CASE /\ last' = [last EXCEPT ![d] = r]
             /\ resultsIn' = [f \in Drone |-> resultsIn[f] \cup {x \in {r} : f \in S}]
    BY <1>4, <2>2 DEF RosTypeOK
  <2>3. QED
    BY <1>3, <2>1, <2>2
<1>7. RosTypeOK'
  BY <1>1, <1>5, <1>6 DEF RosTypeOK
<1>8. \A f \in Drone : \A x \in resultsIn'[f] :
        f \in x.contenders /\ \A g \in x.contenders : Reaches(g, x.cell)
  <2>1. r.contenders = S /\ r.cell = c
    OBVIOUS
  <2> HIDE DEF r, S
  <2>2. QED
    BY <1>2, <1>6, <2>1 DEF ClaimsReach
<1>9. ClaimsReach'
  BY <1>1, <1>5, <1>8 DEF ClaimsReach, Reaches, Rank
<1>10. PushedByRank'
  BY <1>1 DEF PushedByRank, Rank
<1>11. QED
  BY <1>7, <1>9, <1>10

LEMMA OnResultStep ==
  ASSUME PushInv, NEW d \in Drone, NEW r \in resultsIn[d], OnResult(d, r)
  PROVE  PushInv'
<1> USE DEF PushInv
<1> DEFINE to == IF Wins(d, r.contenders) THEN r.cell ELSE Fallback(r.cell)
<1>1. /\ resultsIn' = [resultsIn EXCEPT ![d] = @ \ {r}]
      /\ target' = [target EXCEPT ![d] = to]
      /\ UNCHANGED <<failed, claims, last, sent>>
  BY DEF OnResult
<1>2. /\ r.cell \in Cell /\ r.contenders \in SUBSET Drone
      /\ d \in r.contenders /\ \A e \in r.contenders : Reaches(e, r.cell)
  BY DEF RosTypeOK, Contest, ClaimsReach
<1>3. to \in Cell /\ Reaches(d, to)
  BY <1>2, LoserReaches, WinnerReaches
<1> HIDE DEF to
<1>4. RosTypeOK'
  BY <1>1, <1>3 DEF RosTypeOK
<1>5. ClaimsReach'
  BY <1>1 DEF RosTypeOK, ClaimsReach, Reaches, Rank
<1>6. PushedByRank'
  BY <1>1, <1>3 DEF RosTypeOK, PushedByRank, Reaches, Rank
<1>7. QED
  BY <1>4, <1>5, <1>6

LEMMA PushInvariant == RosSpec => []PushInv
<1>1. PushInv /\ [RosNext]_rosVars => PushInv'
  <2>1. ASSUME PushInv, UNCHANGED rosVars PROVE PushInv'
    BY <2>1 DEF PushInv, rosVars, RosTypeOK, ClaimsReach, PushedByRank, Reaches, Rank
  <2>2. QED
    BY <2>1, TickStep, FailStep, OnClaimStep, OnResultStep DEF RosNext
<1>2. QED
  BY <1>1, InitPush, PTL DEF RosSpec

\* No contest sends a drone off the grid, however many drones there are.
THEOREM ContestsStayOnGrid == RosSpec => []RosTypeOK
<1>1. PushInv => RosTypeOK
  BY DEF PushInv
<1>2. QED
  BY <1>1, PushInvariant, PTL

\* However the drones' claims and results interleave, no drone is pushed further
\* than the number of drones with smaller ids.
THEOREM NoDronePushedTooFar == RosSpec => []PushedByRank
<1>1. PushInv => PushedByRank
  BY DEF PushInv
<1>2. QED
  BY <1>1, PushInvariant, PTL

-----------------------------------------------------------------------------
(***************************************************************************)
(* LiveControl.  The control file and the snapshot cache for any number of *)
(* threads, peers, keys and requests: what requests that do not overlap set *)
(* is in the file, and no answer is older than its request unless two GETs *)
(* filled the cache at a time and none alone since.                        *)
(***************************************************************************)

\* While POSTs do not overlap one thread at most is at work, the file is what
\* was last set, and what the thread will write is that with its own keys.
FileInv ==
  ~overlap =>
    /\ \A t, u \in Thread : post[t].at # "idle" /\ post[u].at # "idle" => t = u
    /\ \A t \in Thread : post[t].at # "idle" => post[t].text = Over(post[t].change, latest)
    /\ (\A t \in Thread : post[t].at # "opened") => text = latest
    /\ \A t \in Thread : post[t].at = "opened" => text = Empty

Answering(r) == get[r].at = "answer"
Holding(r) == get[r].at \in {"merged", "stored"}

\* No signature is younger than the file, and what is read after one not older.
TimesInv ==
  /\ cacheSig.time <= mtime
  /\ \A r \in Reader : /\ get[r].sig.time <= mtime
                       /\ Holding(r) => get[r].sig.time <= get[r].content

\* What a reader holds that fills the cache alone is no older than the signature
\* in the cache, nor than those of the others about to answer.
AloneInv ==
  \A z \in Filling : get[z].alone =>
    /\ \A u \in Filling : u = z
    /\ Holding(z) =>
         /\ cacheSig.time <= get[z].content
         /\ \A r \in Reader : Answering(r) => get[r].sig.time <= get[z].content
    /\ get[z].at = "stored" => cache = get[z].content

\* Unless the cache was crowded it holds what was read after its signature was
\* taken, and who fills it is alone.
CalmInv ==
  ~crowded =>
    /\ \A z \in Filling : get[z].alone
    /\ cacheSig.time <= cache
    /\ \A r \in Reader : Answering(r) => get[r].sig.time <= cache

CacheInv == TimesInv /\ AloneInv /\ CalmInv

ControlInv == TypeOK /\ FileInv /\ CacheInv

-----------------------------------------------------------------------------
\* Settings put over settings are settings, and complete if the lower ones are.
LEMMA OverType ==
  ASSUME NEW f \in Settings, NEW g \in Settings
  PROVE  /\ Over(f, g) \in Settings
         /\ g \in [Key -> Value] => Over(f, g) \in [Key -> Value]
<1>1. PICK D \in SUBSET Key, E \in SUBSET Key : f \in [D -> Value] /\ g \in [E -> Value]
  BY DEF Settings
<1>2. Over(f, g) \in [D \cup E -> Value]
  BY <1>1 DEF Over
<1>3. D \cup E \in SUBSET Key
  BY <1>1
<1>4. Over(f, g) \in Settings
  BY <1>2, <1>3 DEF Settings
<1>5. ASSUME g \in [Key -> Value] PROVE Over(f, g) \in [Key -> Value]
  <2>1. E = Key
    BY <1>1, <1>5
  <2>2. D \cup E = Key
    BY <1>3, <2>1
  <2>3. QED
    BY <1>2, <2>2
<1>6. QED
  BY <1>4, <1>5

LEMMA SettingsType ==
  /\ Nothing \in Settings
  /\ [Key -> Value] \subseteq Settings
  /\ \A t \in Settings \cup {Empty, Garbled} : Parsed(t) \in Settings
  /\ \A t \in Settings : Parsed(t) = t
  /\ Empty \notin Settings
  /\ Request \subseteq Settings
<1>1. Nothing \in [{} -> Value] /\ {} \in SUBSET Key
  BY DEF Nothing
<1>2. Nothing \in Settings
  BY <1>1 DEF Settings
<1>3. [Key -> Value] \subseteq Settings
  <2>1. Key \in SUBSET Key
    OBVIOUS
  <2>2. QED
    BY <2>1 DEF Settings
<1>4. QED
  BY <1>2, <1>3, TextAssumption DEF Parsed

\* Signatures have their type, and a time that is a number.
LEMMA SignatureType ==
  /\ TypeOK => SignatureNow \in Signature /\ SignatureNow.time = mtime
  /\ Unsigned \in Signature /\ Unsigned.time = 0
  /\ NoGet \in Get /\ NoGet.at = "idle" /\ NoGet.sig = Unsigned
  /\ \A g \in Signature : g.time \in Nat
<1>1. ASSUME TypeOK PROVE SignatureNow \in Signature /\ SignatureNow.time = mtime
  <2> DEFINE size == IF text \in {Empty, Garbled} THEN text ELSE DOMAIN text
  <2>1. size \in Size
    <3>1. CASE text \in {Empty, Garbled}
      BY <3>1 DEF Size
    <3>2. CASE text \in Settings /\ text \notin {Empty, Garbled}
      <4>1. PICK D \in SUBSET Key : text \in [D -> Value]
        BY <3>2 DEF Settings
      <4>2. DOMAIN text \in SUBSET Key
        BY <4>1
      <4>3. QED
        BY <3>2, <4>2 DEF Size
    <3>3. QED
      BY <1>1, <3>1, <3>2 DEF TypeOK
  <2>2. mtime \in Nat
    BY <1>1 DEF TypeOK
  <2> HIDE DEF size
  <2>3. [time |-> mtime, size |-> size] \in Signature
    BY <2>1, <2>2 DEF Signature
  <2>4. SignatureNow = [time |-> mtime, size |-> size]
    BY DEF SignatureNow, size
  <2>5. QED
    BY <2>3, <2>4
<1>2. Unsigned \in Signature /\ Unsigned.time = 0
  BY DEF Unsigned, Signature, Size
<1>3. NoGet \in Get /\ NoGet.at = "idle" /\ NoGet.sig = Unsigned
  BY <1>2 DEF NoGet, Get
<1>4. QED
  BY <1>1, <1>2, <1>3 DEF Signature

LEMMA InitControl == Init => ControlInv
<1> SUFFICES ASSUME Init PROVE ControlInv
  OBVIOUS
<1>1. [k \in Key |-> Default] \in [Key -> Value]
  BY LiveControlAssumption
<1>2. TypeOK
  <2>1. NoPost \in [at : {"idle", "read", "opened"}, change : Settings, text : Settings]
    BY SettingsType DEF NoPost
  <2>2. get \in [Reader -> Get] /\ cacheSig \in Signature
    BY SignatureType DEF Init
  <2>3. text \in Settings /\ latest \in [Key -> Value]
    BY <1>1, SettingsType DEF Init
  <2>4. applied \in [Peer -> [Key -> Value]] /\ seen \in [Peer -> Nat]
    BY <1>1 DEF Init
  <2>5. 0 \in 0 .. MaxRequests
    BY LiveControlAssumption
  <2>6. post \in [Thread -> [at : {"idle", "read", "opened"}, change : Settings,
                             text : Settings]]
    BY <2>1 DEF Init
  <2>7. /\ text \in Settings /\ mtime = 1 /\ posted = 0 /\ looking = {} /\ cache = 0
    BY <2>3 DEF Init
  <2>8. /\ text \in Settings \cup {Empty, Garbled}
        /\ mtime \in Nat \ {0} /\ posted \in 0 .. MaxRequests /\ looking \subseteq Peer
        /\ cache \in Nat
    BY <2>3, <2>5, <2>7
  <2>9. overlap \in BOOLEAN /\ crowded \in BOOLEAN
    BY Zenon DEF Init
  <2>10. reading \in [Peer -> {"old", "now", "early"}]
    BY DEF Init
  <2>11. QED
    BY <2>2, <2>3, <2>4, <2>6, <2>8, <2>9, <2>10, Zenon DEF TypeOK
<1>3. FileInv
  BY DEF Init, FileInv, NoPost
<1>4. CacheInv
  <2>1. /\ cache = 0 /\ cacheSig.time = 0 /\ mtime = 1
        /\ \A r \in Reader : get[r].at = "idle" /\ get[r].sig.time = 0
    BY SignatureType DEF Init
  <2>2. Filling = {} /\ \A r \in Reader : ~Answering(r) /\ ~Holding(r)
    BY <2>1 DEF Filling, Answering, Holding
  <2>3. QED
    BY <2>1, <2>2 DEF CacheInv, TimesInv, AloneInv, CalmInv
<1>5. QED
  BY <1>2, <1>3, <1>4 DEF ControlInv

-----------------------------------------------------------------------------
LEMMA ReadStep ==
  ASSUME ControlInv, NEW t \in Thread, Read(t)
  PROVE  ControlInv'
<1> USE DEF ControlInv
<1>1. PICK change \in Request :
        post' = [post EXCEPT ![t] = [at |-> "read", change |-> change,
                                     text |-> Updated(change)]]
  BY DEF Read
<1>2. /\ post[t].at = "idle" /\ posted' = posted + 1 /\ posted < MaxRequests
      /\ overlap' = (overlap \/ \E u \in Thread : post[u].at # "idle")
      /\ UNCHANGED <<text, mtime, latest, seen, looking, applied, get, cache, cacheSig,
                     crowded, reading>>
  BY DEF Read, fileVars, peerVars, cacheVars
<1>3. change \in Settings /\ Updated(change) \in Settings
  BY SettingsType, OverType DEF TypeOK, Updated
<1>4. TypeOK'
  <2>1. posted' \in 0 .. MaxRequests
    BY <1>2, LiveControlAssumption DEF TypeOK
  <2>2. overlap' \in BOOLEAN
    BY <1>2
  <2>3. post' \in [Thread -> [at : {"idle", "read", "opened"}, change : Settings,
                              text : Settings]]
    BY <1>1, <1>3 DEF TypeOK
  <2>4. QED
    BY <1>2, <2>1, <2>2, <2>3 DEF TypeOK
<1>5. FileInv'
  <2> SUFFICES ASSUME ~overlap' PROVE FileInv'
    BY DEF FileInv
  <2>1. ~overlap /\ \A u \in Thread : post[u].at = "idle"
    BY <1>2
  <2>2. text = latest
    BY <2>1 DEF FileInv
  <2>3. Updated(change) = Over(change, latest)
    BY <2>2, SettingsType DEF TypeOK, Updated
  <2>4. /\ post'[t] = [at |-> "read", change |-> change, text |-> Updated(change)]
        /\ \A u \in Thread \ {t} : post'[u] = post[u]
    BY <1>1 DEF TypeOK
  <2>5. \A u \in Thread : post'[u].at # "idle" =>
          u = t /\ post'[u].at = "read" /\ post'[u].text = Over(post'[u].change, latest)
    BY <2>1, <2>3, <2>4
  <2>6. QED
    BY <1>2, <2>2, <2>5 DEF FileInv
<1>6. CacheInv'
  BY <1>2 DEF CacheInv, TimesInv, AloneInv, CalmInv, Filling, Holding, Answering
<1>7. QED
  BY <1>4, <1>5, <1>6

\* A change of the file leaves the cache as it is and makes no signature younger.
LEMMA StampKeepsCache ==
  ASSUME TypeOK, CacheInv, Stamp, UNCHANGED <<get, cache, cacheSig, crowded>>
  PROVE  /\ CacheInv'
         /\ mtime' \in Nat \ {0}
         /\ reading' \in [Peer -> {"old", "now", "early"}]
<1>1. mtime \in Nat /\ mtime' \in Nat \ {0} /\ mtime <= mtime'
  BY DEF Stamp, TypeOK
<1>2. reading' \in [Peer -> {"old", "now", "early"}]
  BY DEF Stamp
<1>3. cacheSig.time \in Nat /\ \A r \in Reader : get[r].sig.time \in Nat
  BY SignatureType DEF TypeOK, Get
<1>4. TimesInv'
  BY <1>1, <1>3 DEF CacheInv, TimesInv, Holding
<1>5. AloneInv' /\ CalmInv'
  BY DEF CacheInv, AloneInv, CalmInv, Filling, Holding, Answering
<1>6. QED
  BY <1>1, <1>2, <1>4, <1>5 DEF CacheInv

LEMMA OpenStep ==
  ASSUME ControlInv, NEW t \in Thread, Open(t)
  PROVE  ControlInv'
<1> USE DEF ControlInv
<1>1. /\ post[t].at = "read"
      /\ post' = [post EXCEPT ![t].at = "opened"]
      /\ text' = Empty /\ Stamp
      /\ UNCHANGED <<posted, latest, seen, looking, applied, overlap>>
      /\ UNCHANGED <<get, cache, cacheSig, crowded>>
  BY DEF Open, peerVars, cacheVars
<1>2. /\ CacheInv' /\ mtime' \in Nat \ {0}
      /\ reading' \in [Peer -> {"old", "now", "early"}]
  BY <1>1, StampKeepsCache
<1>3. TypeOK'
  BY <1>1, <1>2 DEF TypeOK
<1>4. /\ post'[t].at = "opened" /\ post'[t].text = post[t].text
      /\ post'[t].change = post[t].change
      /\ \A u \in Thread \ {t} : post'[u] = post[u]
  BY <1>1 DEF TypeOK
<1>5. FileInv'
  BY <1>1, <1>4 DEF FileInv
<1>6. QED
  BY <1>3, <1>5, <1>2

LEMMA WriteStep ==
  ASSUME ControlInv, NEW t \in Thread, Write(t)
  PROVE  ControlInv'
<1> USE DEF ControlInv
<1>1. /\ post[t].at = "opened"
      /\ text' \in {post[t].text} \cup (IF text = Empty THEN {} ELSE {Garbled})
      /\ Stamp
      /\ latest' = Over(post[t].change, latest)
      /\ post' = [post EXCEPT ![t] = NoPost]
      /\ UNCHANGED <<posted, seen, looking, applied, overlap>>
      /\ UNCHANGED <<get, cache, cacheSig, crowded>>
  BY DEF Write, peerVars, cacheVars
<1>2. /\ CacheInv' /\ mtime' \in Nat \ {0}
      /\ reading' \in [Peer -> {"old", "now", "early"}]
  BY <1>1, StampKeepsCache
<1>3. post[t].text \in Settings /\ post[t].change \in Settings
  BY DEF TypeOK
<1>4. latest' \in [Key -> Value]
  BY <1>1, <1>3, OverType, SettingsType DEF TypeOK
<1>5. TypeOK'
  BY <1>1, <1>3, <1>4, <1>2, SettingsType DEF TypeOK, NoPost
<1>6. FileInv'
  <2> SUFFICES ASSUME ~overlap PROVE FileInv'
    BY <1>1 DEF FileInv
  <2>1. text = Empty /\ post[t].text = Over(post[t].change, latest)
    BY <1>1 DEF FileInv
  <2>2. text' = latest'
    BY <1>1, <2>1
  <2>3. \A u \in Thread : post'[u].at = "idle"
    BY <1>1 DEF FileInv, TypeOK, NoPost
  <2>4. QED
    BY <2>2, <2>3 DEF FileInv
<1>7. QED
  BY <1>5, <1>6, <1>2

LEMMA PeerStep ==
  ASSUME ControlInv, NEW p \in Peer, Look(p) \/ Apply(p)
  PROVE  ControlInv'
<1> USE DEF ControlInv
<1>1. UNCHANGED <<text, mtime, post, posted, latest, get, cache, cacheSig, crowded, overlap>>
  BY DEF Look, Apply, fileVars, postVars, cacheVars
<1>2. FileInv' /\ CacheInv'
  BY <1>1 DEF FileInv, CacheInv, TimesInv, AloneInv, CalmInv, Filling, Holding, Answering
<1>3. CASE Look(p)
  BY <1>1, <1>3, <1>2 DEF Look, TypeOK
<1>4. CASE Apply(p)
  <2>1. Over(Parsed(text), applied[p]) \in [Key -> Value]
    BY OverType, SettingsType DEF TypeOK
  <2>2. TypeOK'
    BY <1>1, <1>4, <2>1 DEF Apply, TypeOK
  <2>3. QED
    BY <1>2, <2>2
<1>5. QED
  BY <1>3, <1>4

\* What the steps of a GET have in common.
LEMMA GetFacts ==
  ASSUME ControlInv, NEW r \in Reader, NEW g \in Get,
         get' = [get EXCEPT ![r] = g],
         UNCHANGED <<fileVars, postVars, peerVars, overlap, reading>>,
         cache' \in Nat, cacheSig' \in Signature, crowded' \in BOOLEAN
  PROVE  /\ TypeOK' /\ FileInv'
         /\ get'[r] = g /\ \A u \in Reader \ {r} : get'[u] = get[u]
         /\ Filling' \ {r} = Filling \ {r}
<1>1. get \in [Reader -> Get] /\ TypeOK /\ FileInv
  BY DEF ControlInv, TypeOK
<1>2. get' \in [Reader -> Get]
  BY <1>1
<1>3. TypeOK'
  BY <1>1, <1>2 DEF TypeOK, fileVars, postVars, peerVars
<1>4. FileInv'
  BY <1>1 DEF FileInv, fileVars, postVars
<1>5. get'[r] = g /\ \A u \in Reader \ {r} : get'[u] = get[u]
  BY <1>1
<1>6. QED
  BY <1>3, <1>4, <1>5 DEF Filling

LEMMA CacheTypes ==
  ASSUME ControlInv
  PROVE  /\ mtime \in Nat /\ cache \in Nat /\ cacheSig.time \in Nat
         /\ cacheSig \in Signature /\ crowded \in BOOLEAN
         /\ \A r \in Reader : /\ get[r] \in Get /\ get[r].sig \in Signature
                              /\ get[r].sig.time \in Nat /\ get[r].content \in Nat
                              /\ get[r].alone \in BOOLEAN
BY SignatureType DEF ControlInv, TypeOK, Get

LEMMA SignStep ==
  ASSUME ControlInv, NEW r \in Reader, Sign(r)
  PROVE  ControlInv'
<1> DEFINE g == [get[r] EXCEPT !.at = "signed", !.sig = SignatureNow]
<1>1. SignatureNow \in Signature /\ SignatureNow.time = mtime
  BY SignatureType DEF ControlInv
<1>2. g \in Get /\ g.at = "signed" /\ g.sig.time = mtime
  BY <1>1, CacheTypes DEF Get
<1>3. get' = [get EXCEPT ![r] = g] /\ get[r].at = "idle"
  BY DEF Sign
<1>4. UNCHANGED <<mtime, cache, cacheSig, crowded>>
  BY DEF Sign, fileVars
<1>5. UNCHANGED <<fileVars, postVars, peerVars, overlap, reading>>
  BY DEF Sign
<1> HIDE DEF g
<1>6. /\ TypeOK' /\ FileInv'
      /\ get'[r] = g /\ \A u \in Reader \ {r} : get'[u] = get[u]
  BY <1>2, <1>3, <1>4, <1>5, CacheTypes, GetFacts
<1>7. /\ Filling' = Filling /\ r \notin Filling
      /\ \A u \in Filling : get'[u] = get[u]
      /\ \A u \in Reader : /\ Answering(u)' => u # r /\ Answering(u)
                           /\ Holding(u)' => u # r /\ Holding(u)
  BY <1>2, <1>3, <1>6 DEF Filling, Answering, Holding
<1>8. TimesInv'
  BY <1>2, <1>4, <1>6, <1>7, CacheTypes DEF ControlInv, CacheInv, TimesInv
<1>9. AloneInv'
  BY <1>4, <1>6, <1>7 DEF ControlInv, CacheInv, AloneInv, Holding, Filling
<1>10. CalmInv'
  BY <1>4, <1>6, <1>7 DEF ControlInv, CacheInv, CalmInv
<1>11. QED
  BY <1>6, <1>8, <1>9, <1>10 DEF ControlInv, CacheInv

\* A hit answers with what is no older than the signature it has in common with
\* the cache.
LEMMA HitStep ==
  ASSUME ControlInv, NEW r \in Reader, Hit(r)
  PROVE  ControlInv'
<1> DEFINE g == [get[r] EXCEPT !.at = "answer"]
<1>1. g \in Get /\ g.at = "answer" /\ g.sig = get[r].sig
  BY CacheTypes DEF Get
<1>2. get' = [get EXCEPT ![r] = g] /\ get[r].at = "signed" /\ get[r].sig = cacheSig
  BY DEF Hit
<1>3. UNCHANGED <<mtime, cache, cacheSig, crowded>>
  BY DEF Hit, fileVars
<1>4. UNCHANGED <<fileVars, postVars, peerVars, overlap, reading>>
  BY DEF Hit
<1> HIDE DEF g
<1>5. /\ TypeOK' /\ FileInv'
      /\ get'[r] = g /\ \A u \in Reader \ {r} : get'[u] = get[u]
  BY <1>1, <1>2, <1>3, <1>4, CacheTypes, GetFacts
<1>6. /\ Filling' = Filling /\ r \notin Filling
      /\ \A u \in Filling : get'[u] = get[u]
      /\ \A u \in Reader : /\ Answering(u)' => u = r \/ Answering(u)
                           /\ Holding(u)' => u # r /\ Holding(u)
                           /\ get'[u].sig = get[u].sig
  BY <1>1, <1>2, <1>5 DEF Filling, Answering, Holding
<1>7. TimesInv'
  BY <1>3, <1>5, <1>6 DEF ControlInv, CacheInv, TimesInv
<1>8. AloneInv'
  BY <1>2, <1>3, <1>5, <1>6 DEF ControlInv, CacheInv, AloneInv, Holding, Filling
<1>9. CalmInv'
  BY <1>2, <1>3, <1>5, <1>6 DEF ControlInv, CacheInv, CalmInv
<1>10. QED
  BY <1>5, <1>7, <1>8, <1>9 DEF ControlInv, CacheInv

\* Who misses is alone or makes the cache crowded.
LEMMA MissStep ==
  ASSUME ControlInv, NEW r \in Reader, Miss(r)
  PROVE  ControlInv'
<1>1. /\ get[r].at = "signed"
      /\ get' = [u \in Reader |->
           IF u = r THEN [get[r] EXCEPT !.at = "missed", !.alone = Filling = {}]
                    ELSE [get[u] EXCEPT !.alone = FALSE]]
      /\ crowded' = (crowded \/ Filling # {})
      /\ UNCHANGED <<text, mtime, post, posted, latest, seen, looking, applied, cache,
                     cacheSig, overlap, reading>>
  BY DEF Miss, fileVars, postVars, peerVars
<1>2. /\ get'[r] \in Get /\ get'[r].at = "missed" /\ get'[r].sig = get[r].sig
      /\ get'[r].alone <=> Filling = {}
  BY <1>1, CacheTypes DEF Get
<1>3. \A u \in Reader \ {r} :
        /\ get'[u] \in Get /\ get'[u].at = get[u].at /\ get'[u].sig = get[u].sig
        /\ get'[u].content = get[u].content /\ ~get'[u].alone
  BY <1>1, CacheTypes DEF Get
<1>4. get' \in [Reader -> Get]
  <2>1. \A u \in Reader : get'[u] \in Get
    BY <1>2, <1>3
  <2>2. QED
    BY <1>1, <2>1
<1>5. TypeOK'
  BY <1>1, <1>4 DEF ControlInv, TypeOK
<1>6. FileInv'
  BY <1>1 DEF ControlInv, FileInv
<1>7. /\ Filling' = Filling \cup {r}
      /\ \A u \in Reader : /\ Answering(u)' => u # r /\ Answering(u)
                           /\ Holding(u)' => u # r /\ Holding(u)
  BY <1>2, <1>3 DEF Filling, Answering, Holding
<1>8. TimesInv'
  BY <1>1, <1>2, <1>3, <1>7 DEF ControlInv, CacheInv, TimesInv
<1>9. AloneInv'
  <2>1. ASSUME NEW z \in Filling', get'[z].alone
        PROVE  z = r /\ Filling' = {r}
    <3>1. z \in Reader
      BY DEF Filling
    <3>2. z = r
      BY <1>3, <2>1, <3>1
    <3>3. QED
      BY <1>2, <1>7, <2>1, <3>2
  <2>2. ~Holding(r)' /\ get'[r].at # "stored"
    BY <1>2 DEF Holding
  <2>3. QED
    BY <2>1, <2>2 DEF AloneInv
<1>10. CalmInv'
  BY <1>1, <1>2, <1>3, <1>7 DEF ControlInv, CacheInv, CalmInv
<1>11. QED
  BY <1>5, <1>6, <1>8, <1>9, <1>10 DEF ControlInv, CacheInv

LEMMA MergeStep ==
  ASSUME ControlInv, NEW r \in Reader, Merge(r)
  PROVE  ControlInv'
<1> DEFINE g == [get[r] EXCEPT !.at = "merged", !.content = mtime]
<1>1. g \in Get /\ g.at = "merged" /\ g.sig = get[r].sig /\ g.content = mtime
      /\ g.alone = get[r].alone
  BY CacheTypes DEF Get
<1>2. get' = [get EXCEPT ![r] = g] /\ get[r].at = "missed"
  BY DEF Merge
<1>3. UNCHANGED <<mtime, cache, cacheSig, crowded>>
  BY DEF Merge, fileVars
<1>4. UNCHANGED <<fileVars, postVars, peerVars, overlap, reading>>
  BY DEF Merge
<1> HIDE DEF g
<1>5. /\ TypeOK' /\ FileInv'
      /\ get'[r] = g /\ \A u \in Reader \ {r} : get'[u] = get[u]
  BY <1>1, <1>2, <1>3, <1>4, CacheTypes, GetFacts
<1>6. /\ Filling' = Filling /\ r \in Filling
      /\ \A u \in Reader : /\ Answering(u)' => u # r /\ Answering(u)
                           /\ Holding(u)' => u = r \/ Holding(u)
                           /\ get'[u].sig = get[u].sig /\ get'[u].alone = get[u].alone
  BY <1>1, <1>2, <1>5 DEF Filling, Answering, Holding
<1>7. TimesInv'
  BY <1>1, <1>3, <1>5, <1>6 DEF ControlInv, CacheInv, TimesInv
<1>8. AloneInv'
  <2> SUFFICES ASSUME NEW z \in Filling, get[z].alone
               PROVE  /\ \A u \in Filling : u = z
                      /\ Holding(z)' =>
                           /\ cacheSig.time <= get'[z].content
                           /\ \A u \in Reader : Answering(u)' => get'[u].sig.time <= get'[z].content
                      /\ get'[z].at = "stored" => cache = get'[z].content
    BY <1>3, <1>6 DEF AloneInv, Filling
  <2>1. \A u \in Filling : u = z
    BY DEF ControlInv, CacheInv, AloneInv
  <2>2. z = r
    BY <1>6, <2>1
  <2>3. QED
    BY <1>1, <1>5, <1>6, <2>1, <2>2 DEF ControlInv, CacheInv, TimesInv
<1>9. CalmInv'
  BY <1>3, <1>6 DEF ControlInv, CacheInv, CalmInv, Filling
<1>10. QED
  BY <1>5, <1>7, <1>8, <1>9 DEF ControlInv, CacheInv

\* A payload that its reader stores alone is no older than any answer due.
LEMMA StorePayloadStep ==
  ASSUME ControlInv, NEW r \in Reader, StorePayload(r)
  PROVE  ControlInv'
<1> DEFINE g == [get[r] EXCEPT !.at = "stored"]
<1>1. g \in Get /\ g.at = "stored" /\ g.sig = get[r].sig /\ g.content = get[r].content
      /\ g.alone = get[r].alone
  BY CacheTypes DEF Get
<1>2. /\ get' = [get EXCEPT ![r] = g] /\ get[r].at = "merged"
      /\ cache' = get[r].content
  BY DEF StorePayload
<1>3. UNCHANGED <<mtime, cacheSig, crowded>>
  BY DEF StorePayload, fileVars
<1>4. UNCHANGED <<fileVars, postVars, peerVars, overlap, reading>>
  BY DEF StorePayload
<1> HIDE DEF g
<1>5. /\ TypeOK' /\ FileInv'
      /\ get'[r] = g /\ \A u \in Reader \ {r} : get'[u] = get[u]
  BY <1>1, <1>2, <1>3, <1>4, CacheTypes, GetFacts
<1>6. /\ Filling' = Filling /\ r \in Filling
      /\ \A u \in Reader : /\ Answering(u)' <=> Answering(u)
                           /\ Holding(u)' <=> Holding(u)
                           /\ get'[u].sig = get[u].sig /\ get'[u].alone = get[u].alone
                           /\ get'[u].content = get[u].content
  BY <1>1, <1>2, <1>5 DEF Filling, Answering, Holding
<1>7. TimesInv'
  BY <1>3, <1>6 DEF ControlInv, CacheInv, TimesInv
<1>8. \A z \in Filling : get[z].alone => z = r
  BY <1>6 DEF ControlInv, CacheInv, AloneInv
<1>9. AloneInv'
  BY <1>2, <1>3, <1>6, <1>8 DEF ControlInv, CacheInv, AloneInv, Filling
<1>10. CalmInv'
  <2> SUFFICES ASSUME ~crowded PROVE CalmInv'
    BY <1>3 DEF CalmInv
  <2>1. get[r].alone /\ Holding(r)
    BY <1>2, <1>6 DEF ControlInv, CacheInv, CalmInv, Holding
  <2>2. /\ cacheSig.time <= cache'
        /\ \A u \in Reader : Answering(u) => get[u].sig.time <= cache'
    BY <1>2, <1>6, <2>1 DEF ControlInv, CacheInv, AloneInv
  <2>3. QED
    BY <1>3, <1>6, <2>2 DEF ControlInv, CacheInv, CalmInv, Filling
<1>11. QED
  BY <1>5, <1>7, <1>9, <1>10 DEF ControlInv, CacheInv

\* The signature of a reader that was alone makes the cache calm again.
LEMMA StoreSignatureStep ==
  ASSUME ControlInv, NEW r \in Reader, StoreSignature(r)
  PROVE  ControlInv'
<1> DEFINE g == [get[r] EXCEPT !.at = "answer", !.content = 0, !.alone = FALSE]
<1>1. g \in Get /\ g.at = "answer" /\ g.sig = get[r].sig
  BY CacheTypes DEF Get
<1>2. /\ get' = [get EXCEPT ![r] = g] /\ get[r].at = "stored"
      /\ cacheSig' = get[r].sig /\ crowded' = (crowded /\ ~get[r].alone)
  BY DEF StoreSignature
<1>3. UNCHANGED <<mtime, cache>>
  BY DEF StoreSignature, fileVars
<1>4. UNCHANGED <<fileVars, postVars, peerVars, overlap, reading>>
  BY DEF StoreSignature
<1> HIDE DEF g
<1>5. crowded' \in BOOLEAN
  BY <1>2
<1>6. cacheSig' \in Signature /\ cache' \in Nat
  BY <1>2, <1>3, CacheTypes
<1>7. /\ TypeOK' /\ FileInv'
      /\ get'[r] = g /\ \A u \in Reader \ {r} : get'[u] = get[u]
  BY <1>1, <1>2, <1>4, <1>5, <1>6, GetFacts
<1>8. /\ Filling' = Filling \ {r} /\ r \in Filling
      /\ \A u \in Reader : /\ Answering(u)' => u = r \/ Answering(u)
                           /\ Holding(u)' => u # r /\ Holding(u)
                           /\ get'[u].sig = get[u].sig
      /\ \A u \in Reader \ {r} : get'[u] = get[u]
  BY <1>1, <1>2, <1>7 DEF Filling, Answering, Holding
<1>9. TimesInv'
  BY <1>2, <1>3, <1>7, <1>8 DEF ControlInv, CacheInv, TimesInv
<1>10. AloneInv'
  <2>1. ASSUME NEW z \in Filling', get'[z].alone PROVE FALSE
    <3>1. z \in Filling /\ z # r /\ get[z].alone
      BY <1>8, <2>1 DEF Filling
    <3>2. QED
      BY <1>8, <3>1 DEF ControlInv, CacheInv, AloneInv
  <2>2. QED
    BY <2>1 DEF AloneInv
<1>11. CalmInv'
  <2> SUFFICES ASSUME ~crowded' PROVE CalmInv'
    BY DEF CalmInv
  <2>1. get[r].alone
    BY <1>2, <1>8 DEF ControlInv, CacheInv, CalmInv
  <2>2. /\ \A u \in Filling : u = r
        /\ cache = get[r].content
        /\ \A u \in Reader : Answering(u) => get[u].sig.time <= cache
        /\ get[r].sig.time <= cache
    BY <1>2, <1>8, <2>1 DEF ControlInv, CacheInv, AloneInv, TimesInv, Holding
  <2>3. Filling' = {}
    BY <1>8, <2>2
  <2>4. QED
    BY <1>2, <1>3, <1>8, <2>2, <2>3 DEF CalmInv
<1>12. QED
  BY <1>7, <1>9, <1>10, <1>11 DEF ControlInv, CacheInv

LEMMA AnswerStep ==
  ASSUME ControlInv, NEW r \in Reader, Answer(r)
  PROVE  ControlInv'
<1>1. NoGet \in Get /\ NoGet.at = "idle" /\ NoGet.sig.time = 0
  BY SignatureType
<1>2. get' = [get EXCEPT ![r] = NoGet] /\ get[r].at = "answer"
  BY DEF Answer
<1>3. UNCHANGED <<mtime, cache, cacheSig, crowded>>
  BY DEF Answer, fileVars
<1>4. UNCHANGED <<fileVars, postVars, peerVars, overlap, reading>>
  BY DEF Answer
<1>5. /\ TypeOK' /\ FileInv'
      /\ get'[r] = NoGet /\ \A u \in Reader \ {r} : get'[u] = get[u]
  BY <1>1, <1>2, <1>3, <1>4, CacheTypes, GetFacts
<1>6. /\ Filling' = Filling /\ r \notin Filling
      /\ \A u \in Filling : get'[u] = get[u]
      /\ \A u \in Reader : /\ Answering(u)' => u # r /\ Answering(u)
                           /\ Holding(u)' => u # r /\ Holding(u)
  BY <1>1, <1>2, <1>5 DEF Filling, Answering, Holding
<1>7. TimesInv'
  BY <1>1, <1>3, <1>5, <1>6, CacheTypes DEF ControlInv, CacheInv, TimesInv
<1>8. AloneInv'
  BY <1>3, <1>5, <1>6 DEF ControlInv, CacheInv, AloneInv, Holding, Filling
<1>9. CalmInv'
  BY <1>3, <1>5, <1>6 DEF ControlInv, CacheInv, CalmInv
<1>10. QED
  BY <1>5, <1>7, <1>8, <1>9 DEF ControlInv, CacheInv

LEMMA ControlInvariant == Spec => []ControlInv
<1>1. ControlInv /\ [Next]_vars => ControlInv'
  <2>1. ASSUME ControlInv, UNCHANGED vars PROVE ControlInv'
    BY <2>1 DEF ControlInv, vars, fileVars, postVars, peerVars, cacheVars, TypeOK,
                FileInv, CacheInv, TimesInv, AloneInv, CalmInv, Filling, Holding, Answering
  <2>2. QED
    BY <2>1, ReadStep, OpenStep, WriteStep, PeerStep, SignStep, HitStep, MissStep,
       MergeStep, StorePayloadStep, StoreSignatureStep, AnswerStep DEF Next
<1>2. QED
  BY <1>1, InitControl, PTL DEF Spec
-----------------------------------------------------------------------------
\* Whatever is read half written or lost, the settings of the file and of every
\* peer keep their type.
THEOREM ControlTypeCorrect == Spec => []TypeOK
<1>1. ControlInv => TypeOK
  BY DEF ControlInv
<1>2. QED
  BY <1>1, ControlInvariant, PTL

\* For any number of threads, keys and requests: POSTs that do not overlap lose
\* nothing.
THEOREM SequentialPostsAreKept == Spec => []SequentialPostsStick
<1>1. ControlInv => SequentialPostsStick
  BY DEF ControlInv, FileInv, SequentialPostsStick
<1>2. QED
  BY <1>1, ControlInvariant, PTL

\* No answer is older than its request, whenever the directory changes and however
\* many threads read it, unless two filled the cache at a time and none alone since.
THEOREM AnswersAreFresh == Spec => []AnswerIsFresh
<1>1. ControlInv => AnswerIsFresh
  BY CacheTypes DEF ControlInv, CacheInv, CalmInv, Answering, AnswerIsFresh
<1>2. QED
  BY <1>1, ControlInvariant, PTL
=============================================================================
