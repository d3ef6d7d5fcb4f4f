--------------------------- MODULE MapGossip_proofs ---------------------------
(***************************************************************************)
(* The shared certainty map for any number of peers and cells, any         *)
(* thresholds, losses and drift of the clocks.  One invariant carries the  *)
(* results: wherever rows of a peer's map are (its map, a copy, a message) *)
(* they show a cell above its initial certainty only if that peer searched *)
(* it, and finished, before or after rounding, only if somebody searched   *)
(* it that far; and as long as nothing is lost, who does not know of a     *)
(* finished cell has a message about it.                                   *)
(* That the merged map holds the latest entries is a fact about the fold   *)
(* it is computed by, for any set of copies, by the smallest set of them   *)
(* for which it could fail.                                                *)
(***************************************************************************)
EXTENDS MapGossip, FiniteSetTheorems, WellFoundedInduction, TLAPS

\* Rows that show only cells of S searched and only cells of F finished, as they
\* are and as they are sent.
Honest(rows, S, F) ==
  /\ DOMAIN rows \subseteq Cell
  /\ rows \in [DOMAIN rows -> Entry]
  /\ \A c \in DOMAIN rows :
       /\ rows[c].val > Half => c \in S
       /\ rows[c].val >= Done \/ Rounded[rows[c].val] >= Done => c \in F

MapsHonest ==
  /\ \A p \in Peer : Honest(local[p], searched[p], shown)
  /\ \A p \in Peer : \A q \in Others(p) :
       copy[p][q] # None => Honest(copy[p][q], searched[q], shown)

MailHonest == \A m \in net : Honest(m.rows, searched[m.from], shown)

\* Who will learn of a finished cell c, if it does not know.
Informed(p, c) ==
  c \in completed[p] \/ \E m \in net : m.to = p /\ m.single /\ c \in Finished(m.rows)

NobodyLeftOut == lost = 0 => \A p \in Peer : \A c \in found : Informed(p, c)

KnownIsShown == \A p \in Peer : completed[p] \subseteq shown

GossipInv == TypeOK /\ MapsHonest /\ MailHonest /\ KnownIsShown /\ NobodyLeftOut

-----------------------------------------------------------------------------
LEMMA Bounds ==
  /\ {Half, Done, Top, Decay, Increment, Interval, MaxClock, MaxLost} \subseteq Nat
  /\ Half < Done /\ Done <= Top
  /\ None \notin Map
  /\ \A e \in Entry : e.val \in 0 .. Top /\ e.stamp \in 0 .. MaxClock
BY MapGossipAssumption DEF Map, Entry

\* More searched and more finished cells keep rows honest.
LEMMA HonestGrows ==
  ASSUME NEW rows, NEW S, NEW F, NEW S2, NEW F2,
         Honest(rows, S, F), S \subseteq S2, F \subseteq F2
  PROVE  Honest(rows, S2, F2)
BY DEF Honest

\* Rounding keeps what it was on either side of the two thresholds.
LEMMA RoundingFacts ==
  ASSUME NEW v \in 0 .. Top
  PROVE  /\ Rounded[v] \in 0 .. Top
         /\ Rounded[v] > Half => v > Half
         /\ Rounded[Rounded[v]] = Rounded[v]
         /\ \A w \in 0 .. Top : v <= w => Rounded[v] <= Rounded[w]
         /\ Half \in 0 .. Top /\ Rounded[Half] = Half
<1>1. Half \in 0 .. Top
  BY Bounds
<1>2. /\ Rounded[v] \in 0 .. Top
      /\ Rounded[Rounded[v]] = Rounded[v]
      /\ \A w \in 0 .. Top : v <= w => Rounded[v] <= Rounded[w]
      /\ v <= Half => Rounded[v] <= Half
      /\ Rounded[Half] = Half
  BY <1>1, MapGossipAssumption
<1>3. Rounded[v] > Half => v > Half
  BY <1>1, <1>2, Bounds
<1>4. QED
  BY <1>1, <1>2, <1>3

LEMMA FreshHonest ==
  ASSUME NEW t \in 0 .. MaxClock, NEW S, NEW F
  PROVE  Fresh(t) \in Map /\ Honest(Fresh(t), S, F)
<1>1. Half \in 0 .. Top /\ Rounded[Half] = Half
  BY Bounds, RoundingFacts
<1>2. Fresh(t) \in Map /\ DOMAIN Fresh(t) = Cell
  BY <1>1 DEF Fresh, Map, Entry
<1>3. \A c \in Cell : Fresh(t)[c].val = Half
  BY DEF Fresh
<1>4. QED
  BY <1>1, <1>2, <1>3, Bounds DEF Honest, Map

\* What is sent of honest rows is honest.
LEMMA ToRowsHonest ==
  ASSUME NEW m \in Map, NEW S, NEW F, Honest(m, S, F)
  PROVE  ToRows(m) \in Map /\ Honest(ToRows(m), S, F)
<1>1. \A c \in Cell : /\ m[c] \in Entry /\ m[c].val \in 0 .. Top
                      /\ ToRows(m)[c] \in Entry
                      /\ ToRows(m)[c].val = Rounded[m[c].val]
  <2> SUFFICES ASSUME NEW c \in Cell
               PROVE  /\ m[c] \in Entry /\ m[c].val \in 0 .. Top
                      /\ ToRows(m)[c] \in Entry
                      /\ ToRows(m)[c].val = Rounded[m[c].val]
    OBVIOUS
  <2>1. m[c] \in Entry /\ m[c].val \in 0 .. Top
    BY Bounds DEF Map
  <2>2. Rounded[m[c].val] \in 0 .. Top
    BY <2>1, RoundingFacts
  <2>3. QED
    BY <2>1, <2>2 DEF ToRows, Entry
<1>2. ToRows(m) \in Map /\ DOMAIN ToRows(m) = Cell
  BY <1>1 DEF ToRows, Map
<1>3. \A c \in Cell :
        /\ Rounded[m[c].val] > Half => m[c].val > Half
        /\ Rounded[Rounded[m[c].val]] = Rounded[m[c].val]
  BY <1>1, RoundingFacts
<1>4. \A c \in Cell : /\ m[c].val > Half => c \in S
                      /\ Rounded[m[c].val] >= Done => c \in F
  BY DEF Honest, Map
<1>5. QED
  BY <1>1, <1>2, <1>3, <1>4 DEF Honest, Map

LEMMA DecayedHonest ==
  ASSUME NEW m \in Map, NEW t \in 0 .. MaxClock, NEW S, NEW F, Honest(m, S, F)
  PROVE  Decayed(m, t) \in Map /\ Honest(Decayed(m, t), S, F)
<1>1. \A c \in Cell : m[c] \in Entry /\ m[c].val \in 0 .. Top
  BY Bounds DEF Map
<1>2. DOMAIN m = Cell /\ DOMAIN Decayed(m, t) = Cell
  BY DEF Map, Decayed
<1>3. \A c \in Cell : /\ Decayed(m, t)[c] \in Entry
                      /\ Decayed(m, t)[c].val <= m[c].val
                      /\ Decayed(m, t)[c].val \in 0 .. Top
  BY <1>1, Bounds DEF Decayed, Entry
<1>4. Decayed(m, t) \in Map
  BY <1>3 DEF Decayed, Map
<1>5. \A c \in Cell : /\ Decayed(m, t)[c].val > Half => m[c].val > Half
                      /\ Decayed(m, t)[c].val >= Done => m[c].val >= Done
  BY <1>1, <1>3, Bounds
<1>6. \A c \in Cell : Rounded[Decayed(m, t)[c].val] >= Done => Rounded[m[c].val] >= Done
  <2> SUFFICES ASSUME NEW c \in Cell
               PROVE  Rounded[Decayed(m, t)[c].val] >= Done => Rounded[m[c].val] >= Done
    OBVIOUS
  <2>1. Rounded[Decayed(m, t)[c].val] <= Rounded[m[c].val]
    BY <1>1, <1>3, RoundingFacts
  <2>2. Rounded[Decayed(m, t)[c].val] \in 0 .. Top /\ Rounded[m[c].val] \in 0 .. Top
    BY <1>1, <1>3, RoundingFacts
  <2>3. QED
    BY <2>1, <2>2, Bounds
<1>7. \A c \in Cell : /\ m[c].val > Half => c \in S
                      /\ m[c].val >= Done \/ Rounded[m[c].val] >= Done => c \in F
  BY DEF Honest, Map
<1>8. QED
  BY <1>2, <1>4, <1>5, <1>6, <1>7 DEF Honest, Map

\* A merge shows nothing that was in neither map: Newer picks one of the two.
LEMMA MergeHonest ==
  ASSUME NEW m \in Map, NEW rows, NEW S, NEW F, Honest(m, S, F), Honest(rows, S, F)
  PROVE  Merge(m, rows) \in Map /\ Honest(Merge(m, rows), S, F)
<1>1. DOMAIN m = Cell /\ DOMAIN Merge(m, rows) = Cell
  BY DEF Map, Merge
<1>2. \A c \in Cell : \/ Merge(m, rows)[c] = m[c]
                      \/ c \in DOMAIN rows /\ Merge(m, rows)[c] = rows[c]
  BY DEF Merge, Newer
<1>3. \A c \in Cell : Merge(m, rows)[c] \in Entry
  BY <1>1, <1>2 DEF Honest, Map
<1>4. Merge(m, rows) \in Map
  BY <1>3 DEF Merge, Map
<1>5. QED
  BY <1>1, <1>2, <1>4 DEF Honest, Map

LEMMA ChangedHonest ==
  ASSUME NEW m \in Map, NEW last, NEW S, NEW F, Honest(m, S, F)
  PROVE  Honest(Changed(last, m), S, F)
BY DEF Changed, Honest, Map

\* What is published goes from its peer to every other one.
LEMMA MailFacts ==
  ASSUME NEW p \in Peer, NEW rows, NEW b
  PROVE  /\ \A m \in ToAll(p, rows, b) :
              /\ m.to \in Peer /\ m.from = p /\ m.from \in Others(m.to)
              /\ m.rows = rows
         /\ DOMAIN rows # {} => \A q \in Others(p) :
              [to |-> q, from |-> p, rows |-> rows, single |-> b] \in ToAll(p, rows, b)
BY DEF ToAll, Others

\* Honest rows make honest messages.
LEMMA HonestMail ==
  ASSUME NEW p \in Peer, NEW rows, NEW b, NEW S, NEW F, Honest(rows, S[p], F)
  PROVE  \A m \in ToAll(p, rows, b) :
           /\ m.to \in Peer /\ m.from \in Others(m.to) /\ Rows(m)
           /\ Honest(m.rows, S[m.from], F)
<1> SUFFICES ASSUME NEW m \in ToAll(p, rows, b)
             PROVE  /\ m.to \in Peer /\ m.from \in Others(m.to) /\ Rows(m)
                    /\ Honest(m.rows, S[m.from], F)
  OBVIOUS
<1>1. m.to \in Peer /\ m.from = p /\ m.from \in Others(m.to) /\ m.rows = rows
  BY MailFacts
<1>2. Rows(m)
  BY <1>1 DEF Rows, Honest
<1>3. QED
  BY <1>1, <1>2

-----------------------------------------------------------------------------
LEMMA InitGossip == Init => GossipInv
<1> SUFFICES ASSUME Init PROVE GossipInv
  OBVIOUS
<1>1. 0 \in 0 .. MaxClock
  BY Bounds
<1>2. Fresh(0) \in Map /\ \A p \in Peer : Honest(local[p], searched[p], shown)
  BY <1>1, FreshHonest DEF Init
<1>3. TypeOK
  BY <1>1, <1>2, Bounds DEF Init, TypeOK
<1>4. QED
  BY <1>2, <1>3 DEF Init, GossipInv, MapsHonest, MailHonest, KnownIsShown,
                    NobodyLeftOut, Others

LEMMA BootstrapStep ==
  ASSUME GossipInv, NEW p \in Peer, Bootstrap(p)
  PROVE  GossipInv'
<1> USE DEF GossipInv
<1> DEFINE rows == ToRows(local[p])
<1>1. /\ net' = net \cup ToAll(p, rows, FALSE)
      /\ UNCHANGED <<clock, local, copy, completed, lost, found, shown, searched>>
  BY DEF Bootstrap, history
<1>2. local[p] \in Map /\ Honest(local[p], searched[p], shown)
  BY DEF TypeOK, MapsHonest
<1>3. rows \in Map /\ Honest(rows, searched[p], shown)
  BY <1>2, ToRowsHonest
<1>4. snapshot' = [snapshot EXCEPT ![p] = rows]
  BY DEF Bootstrap
<1> HIDE DEF rows
<1>5. \A m \in ToAll(p, rows, FALSE) :
        /\ m.to \in Peer /\ m.from \in Others(m.to) /\ Rows(m)
        /\ Honest(m.rows, searched[m.from], shown)
  BY <1>3, HonestMail
<1>6. TypeOK'
  BY <1>1, <1>3, <1>4, <1>5 DEF Bootstrap, TypeOK, Others
<1>7. MapsHonest' /\ KnownIsShown'
  BY <1>1 DEF MapsHonest, KnownIsShown
<1>8. MailHonest'
  BY <1>1, <1>5 DEF MailHonest
<1>9. NobodyLeftOut'
  BY <1>1 DEF NobodyLeftOut, Informed
<1>10. QED
  BY <1>6, <1>7, <1>8, <1>9

LEMMA TickStep ==
  ASSUME GossipInv, NEW p \in Peer, Tick(p)
  PROVE  GossipInv'
<1> USE DEF GossipInv
<1> DEFINE now == clock[p] + 1
           shot == ToRows(local[p])
           rows == Changed(snapshot[p], shot)
<1>1. /\ clock' = [clock EXCEPT ![p] = now]
      /\ local' = [local EXCEPT ![p] = Decayed(@, now)]
      /\ phase' = [phase EXCEPT ![p] = "receive"]
      /\ UNCHANGED <<completed, lost, found, shown, searched>>
  BY DEF Tick, history
<1>2. PICK reachable \in SUBSET Others(p) :
        copy' = [copy EXCEPT ![p] =
          [q \in Peer |-> IF q \in reachable /\ @[q] # None
                          THEN Decayed(@[q], now) ELSE @[q]]]
  BY DEF Tick
<1>3. /\ \/ UNCHANGED net
         \/ net' = net \cup ToAll(p, rows, FALSE)
      /\ \/ UNCHANGED snapshot
         \/ snapshot' = [snapshot EXCEPT ![p] = shot]
  BY DEF Tick, Published
<1>4. now \in 0 .. MaxClock
  BY Bounds DEF Tick, TypeOK
<1>5. local[p] \in Map /\ Honest(local[p], searched[p], shown)
  BY DEF TypeOK, MapsHonest
<1>6. shot \in Map /\ Honest(shot, searched[p], shown)
  BY <1>5, ToRowsHonest
<1>7. Decayed(local[p], now) \in Map /\ Honest(Decayed(local[p], now), searched[p], shown)
  BY <1>4, <1>5, DecayedHonest
<1> HIDE DEF now, shot
<1>8. \A q \in Peer : copy'[p][q] = copy[p][q]
                      \/ /\ q \in Others(p) /\ copy[p][q] # None
                         /\ copy'[p][q] = Decayed(copy[p][q], now)
  BY <1>2 DEF TypeOK, Others
<1>9. \A q \in Others(p) : copy[p][q] # None =>
        /\ Decayed(copy[p][q], now) \in Map
        /\ Honest(Decayed(copy[p][q], now), searched[q], shown)
  <2> SUFFICES ASSUME NEW q \in Others(p), copy[p][q] # None
               PROVE  /\ Decayed(copy[p][q], now) \in Map
                      /\ Honest(Decayed(copy[p][q], now), searched[q], shown)
    OBVIOUS
  <2>1. copy[p][q] \in Map /\ Honest(copy[p][q], searched[q], shown)
    BY DEF TypeOK, MapsHonest, Others
  <2>2. QED
    BY <1>4, <2>1, DecayedHonest
<1>10. \A m \in ToAll(p, rows, FALSE) :
        /\ m.to \in Peer /\ m.from \in Others(m.to) /\ Rows(m)
        /\ Honest(m.rows, searched[m.from], shown)
  <2>1. Honest(rows, searched[p], shown)
    BY <1>6, ChangedHonest
  <2> HIDE DEF rows
  <2>2. QED
    BY <2>1, HonestMail
<1> HIDE DEF rows
<1>11. copy' \in [Peer -> [Peer -> Map \cup {None}]]
  <2> DEFINE mine == [q \in Peer |-> IF q \in reachable /\ copy[p][q] # None
                                     THEN Decayed(copy[p][q], now) ELSE copy[p][q]]
  <2>1. mine \in [Peer -> Map \cup {None}]
    BY <1>9 DEF TypeOK
  <2>2. copy' = [copy EXCEPT ![p] = mine]
    BY <1>2
  <2> HIDE DEF mine
  <2>3. QED
    BY <2>1, <2>2 DEF TypeOK
<1>12. TypeOK'
  BY <1>1, <1>3, <1>4, <1>7, <1>10, <1>11, <1>6 DEF TypeOK
<1>13. MapsHonest'
  <2>1. \A r \in Peer : Honest(local'[r], searched'[r], shown')
    BY <1>1, <1>7 DEF MapsHonest, TypeOK
  <2>2. \A r \in Peer \ {p} : copy'[r] = copy[r]
    BY <1>2 DEF TypeOK
  <2>3. ASSUME NEW r \in Peer, NEW q \in Others(r), copy'[r][q] # None
        PROVE  Honest(copy'[r][q], searched'[q], shown')
    <3>1. CASE r = p
      BY <1>1, <1>8, <1>9, <2>3, <3>1 DEF MapsHonest, Others
    <3>2. CASE r # p
      BY <1>1, <2>2, <2>3, <3>2 DEF MapsHonest
    <3>3. QED
      BY <3>1, <3>2
  <2>4. QED
    BY <2>1, <2>3 DEF MapsHonest, Others
<1>14. MailHonest'
  BY <1>1, <1>3, <1>10 DEF MailHonest
<1>15. NobodyLeftOut' /\ KnownIsShown'
  BY <1>1, <1>3 DEF NobodyLeftOut, Informed, KnownIsShown
<1>16. QED
  BY <1>12, <1>13, <1>14, <1>15

LEMMA HandleUpdateStep ==
  ASSUME GossipInv, NEW p \in Peer, NEW m \in net, HandleUpdate(p, m)
  PROVE  GossipInv'
<1> USE DEF GossipInv
<1> DEFINE q == m.from
           merged == Merge(Held(p, q), m.rows)
<1>1. /\ m.to = p
      /\ copy' = [copy EXCEPT ![p][q] = merged]
      /\ completed' = [completed EXCEPT ![p] = @ \cup Learned(p, m)]
      /\ net' = net \ {m}
      /\ UNCHANGED <<clock, phase, local, snapshot, lost, found, shown, searched>>
  BY DEF HandleUpdate, history
<1>2. q \in Others(p) /\ q \in Peer /\ Honest(m.rows, searched[q], shown)
  BY <1>1 DEF TypeOK, MailHonest, Others
<1>3. Held(p, q) \in Map /\ Honest(Held(p, q), searched[q], shown)
  <2>1. CASE copy[p][q] = None
    BY <2>1, FreshHonest DEF Held, TypeOK
  <2>2. CASE copy[p][q] # None
    BY <1>2, <2>2 DEF Held, TypeOK, MapsHonest
  <2>3. QED
    BY <2>1, <2>2
<1>4. merged \in Map /\ Honest(merged, searched[q], shown)
  BY <1>2, <1>3, MergeHonest
<1>5. Learned(p, m) \in SUBSET shown /\ (m.single => Learned(p, m) = Finished(m.rows))
  BY <1>2, <1>4 DEF Learned, Finished, Honest
<1> HIDE DEF q, merged
<1>6. TypeOK'
  <2>1. copy' \in [Peer -> [Peer -> Map \cup {None}]]
    BY <1>1, <1>2, <1>4 DEF TypeOK
  <2>2. completed' \in [Peer -> SUBSET Cell]
    BY <1>1, <1>5 DEF TypeOK
  <2>3. \A n \in net' : n.to \in Peer /\ n.from \in Others(n.to) /\ Rows(n)
    BY <1>1 DEF TypeOK
  <2>4. QED
    BY <1>1, <2>1, <2>2, <2>3 DEF TypeOK
<1>7. MapsHonest'
  <2>1. ASSUME NEW r \in Peer, NEW s \in Others(r), copy'[r][s] # None
        PROVE  Honest(copy'[r][s], searched[s], shown)
    <3>1. CASE r = p /\ s = q
      BY <1>1, <1>2, <1>4, <3>1 DEF TypeOK
    <3>2. CASE ~(r = p /\ s = q)
      <4>1. copy'[r][s] = copy[r][s]
        BY <1>1, <1>2, <3>2 DEF TypeOK, Others
      <4>2. QED
        BY <2>1, <4>1 DEF MapsHonest
    <3>3. QED
      BY <3>1, <3>2
  <2>2. QED
    BY <1>1, <2>1 DEF MapsHonest, Others
<1>8. MailHonest' /\ KnownIsShown'
  BY <1>1, <1>5 DEF MailHonest, KnownIsShown, TypeOK
<1>9. NobodyLeftOut'
  <2> SUFFICES ASSUME lost = 0, NEW r \in Peer, NEW c \in found PROVE Informed(r, c)'
    BY <1>1 DEF NobodyLeftOut
  <2>1. completed[r] \in SUBSET completed'[r] /\ Learned(p, m) \in SUBSET completed'[p]
    BY <1>1, <1>5 DEF TypeOK
  <2>2. CASE c \in completed[r]
    BY <2>1, <2>2 DEF Informed
  <2>3. ASSUME NEW n \in net, n.to = r, n.single, c \in Finished(n.rows)
        PROVE  Informed(r, c)'
    <3>1. CASE n = m
      BY <1>1, <1>5, <2>1, <2>3, <3>1 DEF Informed
    <3>2. CASE n # m
      BY <1>1, <2>3, <3>2 DEF Informed
    <3>3. QED
      BY <3>1, <3>2
  <2>4. QED
    BY <2>2, <2>3 DEF NobodyLeftOut, Informed
<1>10. QED
  BY <1>6, <1>7, <1>8, <1>9

\* A search makes one entry of the own map higher, and tells the others.
LEMMA SearchStep ==
  ASSUME GossipInv, NEW p \in Peer, NEW c \in Cell, Search(p, c)
  PROVE  GossipInv'
<1> USE DEF GossipInv
<1> DEFINE entry == Searched(local[p][c], clock[p])
           after == [local[p] EXCEPT ![c] = entry]
           one == [d \in {c} |-> entry]
           shot == ToRows(after)
           rows == Changed(snapshot[p], shot)
<1>1. /\ local' = [local EXCEPT ![p] = after]
      /\ net' = (net \cup ToAll(p, one, TRUE)) \cup ToAll(p, rows, FALSE)
      /\ snapshot' = [snapshot EXCEPT ![p] = shot]
      /\ completed' = [completed EXCEPT ![p] = @ \cup Finished(one)]
      /\ found' = found \cup Finished(one)
      /\ shown' = shown \cup Showing(one)
      /\ searched' = [searched EXCEPT ![p] = @ \cup {c}]
      /\ phase' = [phase EXCEPT ![p] = "idle"]
      /\ UNCHANGED <<clock, copy, lost>>
  BY DEF Search, Published
<1>2. local[p] \in Map /\ Honest(local[p], searched[p], shown) /\ clock[p] \in 0 .. MaxClock
  BY DEF TypeOK, MapsHonest
<1>3. entry \in Entry
  <2>1. local[p][c] \in Entry /\ local[p][c].val \in 0 .. Top
    BY <1>2, Bounds DEF Map
  <2>2. QED
    BY <1>2, <2>1, Bounds DEF Searched, Entry
<1>4. /\ Finished(one) \in SUBSET {c} /\ Showing(one) \in SUBSET {c}
      /\ Finished(one) \in SUBSET Showing(one)
      /\ entry.val >= Done \/ Rounded[entry.val] >= Done => c \in Showing(one)
  BY DEF Finished, Showing
<1>5. /\ \A r \in Peer : searched[r] \in SUBSET searched'[r]
      /\ c \in searched'[p]
      /\ shown \in SUBSET shown' /\ shown' \in SUBSET Cell /\ found' \in SUBSET Cell
      /\ entry.val >= Done \/ Rounded[entry.val] >= Done => c \in shown'
  BY <1>1, <1>4 DEF TypeOK
<1> HIDE DEF entry
<1>6. Honest(one, searched'[p], shown')
  BY <1>3, <1>5 DEF Honest
<1>7. after \in Map /\ Honest(after, searched'[p], shown')
  <2>1. after \in Map /\ DOMAIN after = Cell
    BY <1>2, <1>3 DEF Map
  <2>2. \A d \in Cell : after[d] = local[p][d] \/ (d = c /\ after[d] = entry)
    BY <1>2 DEF Map
  <2>3. Honest(local[p], searched'[p], shown')
    BY <1>2, <1>5, HonestGrows
  <2> HIDE DEF after
  <2>4. QED
    BY <1>2, <1>5, <2>1, <2>2, <2>3 DEF Honest, Map
<1>8. shot \in Map /\ Honest(shot, searched'[p], shown')
  BY <1>7, ToRowsHonest
<1> HIDE DEF shot
<1>9. /\ \A m \in ToAll(p, one, TRUE) :
           /\ m.to \in Peer /\ m.from \in Others(m.to) /\ Rows(m)
           /\ Honest(m.rows, searched'[m.from], shown')
      /\ \A m \in ToAll(p, rows, FALSE) :
           /\ m.to \in Peer /\ m.from \in Others(m.to) /\ Rows(m)
           /\ Honest(m.rows, searched'[m.from], shown')
  <2>1. Honest(rows, searched'[p], shown')
    BY <1>8, ChangedHonest
  <2> HIDE DEF rows, one
  <2>2. QED
    BY <1>6, <2>1, HonestMail
<1>10. \A q \in Others(p) : \E m \in net' : /\ m.to = q /\ m.single
                                         /\ Finished(m.rows) = Finished(one)
  <2> SUFFICES ASSUME NEW q \in Others(p)
               PROVE  \E m \in net' : /\ m.to = q /\ m.single
                                     /\ Finished(m.rows) = Finished(one)
    OBVIOUS
  <2>1. DOMAIN one # {}
    OBVIOUS
  <2> HIDE DEF one
  <2>2. [to |-> q, from |-> p, rows |-> one, single |-> TRUE] \in net'
    BY <1>1, <2>1, MailFacts
  <2>3. QED
    BY <2>2
<1> HIDE DEF after, one, rows
<1>11. TypeOK'
  <2>1. local' \in [Peer -> Map] /\ snapshot' \in [Peer -> Map \cup {None}]
    BY <1>1, <1>7, <1>8 DEF TypeOK
  <2>2. completed' \in [Peer -> SUBSET Cell] /\ searched' \in [Peer -> SUBSET Cell]
    BY <1>1, <1>4 DEF TypeOK
  <2>3. \A m \in net' : m.to \in Peer /\ m.from \in Others(m.to) /\ Rows(m)
    BY <1>1, <1>9 DEF TypeOK
  <2>4. QED
    BY <1>1, <1>5, <2>1, <2>2, <2>3 DEF TypeOK
<1>12. MapsHonest'
  <2>1. \A r \in Peer : Honest(local'[r], searched'[r], shown')
    BY <1>1, <1>5, <1>7, HonestGrows DEF MapsHonest, TypeOK
  <2>2. \A r \in Peer : \A q \in Others(r) :
          copy[r][q] # None => Honest(copy[r][q], searched'[q], shown')
    BY <1>5, HonestGrows DEF MapsHonest, Others
  <2>3. QED
    BY <1>1, <2>1, <2>2 DEF MapsHonest, Others
<1>13. MailHonest'
  <2>1. \A m \in net : Honest(m.rows, searched'[m.from], shown')
    BY <1>5, HonestGrows DEF MailHonest, TypeOK, Others
  <2>2. QED
    BY <1>1, <1>9, <2>1 DEF MailHonest
<1>14. KnownIsShown'
  BY <1>1, <1>4, <1>5 DEF KnownIsShown, TypeOK
<1>15. NobodyLeftOut'
  <2> SUFFICES ASSUME lost = 0, NEW r \in Peer, NEW d \in found' PROVE Informed(r, d)'
    BY <1>1 DEF NobodyLeftOut
  <2>1. completed[r] \in SUBSET completed'[r] /\ Finished(one) \in SUBSET completed'[p]
    BY <1>1 DEF TypeOK
  <2>2. CASE d \in found
    BY <1>1, <2>1, <2>2 DEF NobodyLeftOut, Informed
  <2>3. CASE d \in Finished(one) /\ r = p
    BY <2>1, <2>3 DEF Informed
  <2>4. CASE d \in Finished(one) /\ r # p
    BY <1>10, <2>4 DEF Informed, Others
  <2>5. QED
    BY <1>1, <2>2, <2>3, <2>4
<1>16. QED
  BY <1>11, <1>12, <1>13, <1>14, <1>15

LEMMA NextGossip == GossipInv /\ [Next]_vars => GossipInv'
<1> SUFFICES ASSUME GossipInv, [Next]_vars PROVE GossipInv'
  OBVIOUS
<1>1. ASSUME NEW p \in Peer, EndTick(p) PROVE GossipInv'
  BY <1>1 DEF GossipInv, EndTick, history, TypeOK, MapsHonest, MailHonest,
              KnownIsShown, NobodyLeftOut, Informed
<1>2. ASSUME NEW m \in net, Lose(m) PROVE GossipInv'
  <2>1. lost' = lost + 1 /\ lost \in Nat /\ lost' \in 0 .. MaxLost /\ lost' # 0
    BY <1>2, Bounds DEF Lose, GossipInv, TypeOK
  <2>2. QED
    BY <1>2, <2>1 DEF GossipInv, Lose, history, TypeOK, MapsHonest, MailHonest,
                      KnownIsShown, NobodyLeftOut
<1>3. CASE UNCHANGED vars
  BY <1>3 DEF GossipInv, vars, history, TypeOK, MapsHonest, MailHonest,
              KnownIsShown, NobodyLeftOut, Informed
<1>4. QED
  BY <1>1, <1>2, <1>3, BootstrapStep, TickStep, HandleUpdateStep, SearchStep DEF Next

LEMMA GossipInvariant == Spec => []GossipInv
BY InitGossip, NextGossip, PTL DEF Spec
-----------------------------------------------------------------------------
\* Merged, decayed and sent entries are entries, for any instance.
THEOREM GossipTypeCorrect == Spec => []TypeOK
<1>1. GossipInv => TypeOK
  BY DEF GossipInv
<1>2. QED
  BY <1>1, GossipInvariant, PTL

\* Whatever a peer was told by others never comes back to them as its own
\* finding, for any number of peers and any decay.
THEOREM NothingEchoes == Spec => []NoEcho
<1>1. GossipInv => NoEcho
  BY DEF GossipInv, MapsHonest, TypeOK, Map, Honest, NoEcho, Others
<1>2. QED
  BY <1>1, GossipInvariant, PTL

\* Without losses all peers agree on the finished cells once the mesh is quiet,
\* however their clocks drift, but for cells left a rounding short of finished:
\* for any rounding that is monotone and rounds a rounded value no further.
THEOREM QuietPeersAgree == Spec => []QuiescentAgreement
<1>1. GossipInv => QuiescentAgreement
  BY DEF GossipInv, TypeOK, KnownIsShown, NobodyLeftOut, Informed, QuiescentAgreement
<1>2. QED
  BY <1>1, GossipInvariant, PTL

\* The gossiped maps implement the registry of finished cells: a search finishes
\* a cell, leaves it a rounding short of that or does nothing to the registry, a
\* message lets a peer learn, and decay, overwriting and loss are stutters.
THEOREM MapsImplementRegistry == Spec => RegistrySpec
<1>1. Init => Registry!Init
  BY DEF Init, Registry!Init
<1>2. GossipInv /\ [Next]_vars => [Registry!Next]_(Registry!vars)
  <2> SUFFICES ASSUME GossipInv, [Next]_vars PROVE [Registry!Next]_(Registry!vars)
    OBVIOUS
  <2>1. ASSUME UNCHANGED <<shown, completed>> PROVE [Registry!Next]_(Registry!vars)
    BY <2>1 DEF Registry!vars
  <2>2. ASSUME NEW p \in Peer, Bootstrap(p) \/ Tick(p) \/ EndTick(p)
        PROVE  UNCHANGED <<shown, completed>>
    BY <2>2 DEF Bootstrap, Tick, EndTick, history
  <2>3. ASSUME NEW p \in Peer, NEW c \in Cell, Search(p, c)
        PROVE  [Registry!Next]_(Registry!vars)
    <3> DEFINE one == [d \in {c} |-> Searched(local[p][c], clock[p])]
    <3>1. /\ completed' = [completed EXCEPT ![p] = @ \cup Finished(one)]
          /\ shown' = shown \cup Showing(one)
      BY <2>3 DEF Search
    <3>2. /\ Finished(one) \in {{}, {c}} /\ Showing(one) \in {{}, {c}}
          /\ Finished(one) \in SUBSET Showing(one)
      BY DEF Finished, Showing
    <3> HIDE DEF one
    <3>3. CASE Showing(one) = {}
      BY <2>1, <3>1, <3>2, <3>3 DEF GossipInv, TypeOK
    <3>4. CASE Finished(one) = {c}
      BY <3>1, <3>2, <3>4 DEF Registry!Next, Registry!Finish
    <3>5. CASE Finished(one) = {} /\ Showing(one) = {c}
      BY <3>1, <3>5 DEF Registry!Next, Registry!Approach, GossipInv, TypeOK
    <3>6. QED
      BY <3>2, <3>3, <3>4, <3>5
  <2>4. ASSUME NEW p \in Peer, NEW m \in net, HandleUpdate(p, m)
        PROVE  [Registry!Next]_(Registry!vars)
    <3>1. completed' = [completed EXCEPT ![p] = @ \cup Learned(p, m)] /\ UNCHANGED shown
      BY <2>4 DEF HandleUpdate, history
    <3>2. GossipInv'
      BY <2>4, HandleUpdateStep
    <3>3. Learned(p, m) \in SUBSET shown /\ shown \in SUBSET Cell
      BY <3>1, <3>2 DEF GossipInv, TypeOK, KnownIsShown
    <3>4. Registry!Learn(p, Learned(p, m))
      BY <3>1, <3>3 DEF Registry!Learn
    <3>5. QED
      BY <3>3, <3>4 DEF Registry!Next
  <2>5. ASSUME NEW m \in net, Lose(m) PROVE UNCHANGED <<shown, completed>>
    BY <2>5 DEF Lose, history
  <2>6. CASE UNCHANGED vars
    BY <2>1, <2>6 DEF vars, history
  <2>7. QED
    BY <2>1, <2>2, <2>3, <2>4, <2>5, <2>6 DEF Next
<1>3. QED
  BY <1>1, <1>2, GossipInvariant, PTL DEF Spec, RegistrySpec, Registry!Spec
-----------------------------------------------------------------------------
(***************************************************************************)
(* The merged map.  FoldSet is a recursive function on the subsets of the  *)
(* peers heard of: that it exists, and that what it returns holds for      *)
(* every subset, is shown from the least size without it.                  *)
(***************************************************************************)
\* A set of natural numbers has a least element.
LEMMA LeastSize ==
  ASSUME NEW T \in SUBSET Nat, T # {}
  PROVE  \E x \in T : \A y \in T : x <= y
<1>1. PICK x \in T : \A y \in T : <<y, x>> \notin OpToRel(<, Nat)
  BY NatLessThanWellFounded, WFMin
<1>2. \A y \in T : ~(y < x)
  BY <1>1 DEF OpToRel
<1>3. QED
  BY <1>2

\* A property of all sizes from a step of one.
LEMMA EverySize ==
  ASSUME NEW T \in SUBSET Nat, 0 \in T, \A n \in T : n + 1 \in T
  PROVE  T = Nat
<1> SUFFICES ASSUME Nat \ T # {} PROVE FALSE
  OBVIOUS
<1>1. PICK n \in Nat \ T : \A y \in Nat \ T : n <= y
  BY LeastSize
<1>2. n - 1 \in Nat /\ n - 1 \notin Nat \ T
  BY <1>1
<1>3. QED
  BY <1>1, <1>2

One(s) == CHOOSE x \in s : TRUE

\* A step of the fold over s: one map is merged into the fold over the others.
Step(g, s, base, maps) ==
  IF s = {} THEN base ELSE Merge(g[s \ {One(s)}], maps[One(s)])

IsFold(g, S, base, maps) == g = [s \in SUBSET S |-> Step(g, s, base, maps)]

LEMMA MergedUnfolded ==
  ASSUME NEW p \in Peer, NEW S, S = {q \in Others(p) : copy[p][q] # None}
  PROVE  Merged(p) =
           (CHOOSE g : IsFold(g, S, local[p], copy[p]))[S]
BY DEF Merged, FoldSet, MapThenFoldSet, IsFold, Step, One

LEMMA FoldExists ==
  ASSUME NEW S, IsFiniteSet(S), NEW base, NEW maps
  PROVE  \E g : IsFold(g, S, base, maps)
<1> DEFINE Upto(n) == {s \in SUBSET S : Cardinality(s) <= n}
           Ok(n) == \E g : g = [s \in Upto(n) |-> Step(g, s, base, maps)]
<1>1. \A s \in SUBSET S : /\ IsFiniteSet(s) /\ Cardinality(s) \in Nat
                          /\ Cardinality(s) <= Cardinality(S)
                          /\ s # {} => One(s) \in s /\ Cardinality(s \ {One(s)}) = Cardinality(s) - 1
  <2> TAKE s \in SUBSET S
  <2>1. IsFiniteSet(s) /\ Cardinality(s) \in Nat /\ Cardinality(s) <= Cardinality(S)
    BY FS_Subset, FS_CardinalityType
  <2>2. s # {} => One(s) \in s
    BY DEF One
  <2>3. s # {} => Cardinality(s \ {One(s)}) = Cardinality(s) - 1
    BY <2>1, <2>2, FS_RemoveElement
  <2>4. QED
    BY <2>1, <2>2, <2>3
<1>2. Ok(0)
  <2>1. \A s \in Upto(0) : s = {}
    <3> SUFFICES ASSUME NEW s \in Upto(0) PROVE s = {}
      OBVIOUS
    <3>1. IsFiniteSet(s) /\ Cardinality(s) \in Nat /\ Cardinality(s) <= 0
      BY <1>1
    <3>2. Cardinality(s) = 0
      BY <3>1
    <3>3. QED
      BY <3>1, <3>2, FS_EmptySet
  <2>2. [s \in Upto(0) |-> base] = [s \in Upto(0) |-> Step([t \in Upto(0) |-> base], s, base, maps)]
    BY <2>1 DEF Step
  <2>3. QED
    BY <2>2
<1>3. ASSUME NEW n \in Nat, Ok(n) PROVE Ok(n + 1)
  <2>1. PICK g : g = [s \in Upto(n) |-> Step(g, s, base, maps)]
    BY <1>3
  <2> DEFINE h == [s \in Upto(n + 1) |-> Step(g, s, base, maps)]
  <2>2. \A s \in Upto(n) : h[s] = g[s]
    <3>1. \A s \in Upto(n) : s \in Upto(n + 1)
      <4> TAKE s \in Upto(n)
      <4>1. s \in SUBSET S /\ Cardinality(s) \in Nat /\ Cardinality(s) <= n
        BY <1>1
      <4>2. Cardinality(s) <= n + 1
        BY <1>3, <4>1
      <4>3. QED
        BY <4>1, <4>2
    <3>2. QED
      BY <2>1, <3>1
  <2>3. \A s \in Upto(n + 1) : s # {} => s \ {One(s)} \in Upto(n)
    <3> SUFFICES ASSUME NEW s \in Upto(n + 1), s # {} PROVE s \ {One(s)} \in Upto(n)
      OBVIOUS
    <3>1. /\ s \ {One(s)} \in SUBSET S /\ Cardinality(s) \in Nat /\ Cardinality(s) <= n + 1
          /\ Cardinality(s \ {One(s)}) = Cardinality(s) - 1
      BY <1>1
    <3>2. QED
      BY <1>3, <3>1
  <2>4. \A s \in Upto(n + 1) : Step(h, s, base, maps) = Step(g, s, base, maps)
    <3> HIDE DEF h, Upto
    <3>1. QED
      BY <2>2, <2>3 DEF Step
  <2>5. h = [s \in Upto(n + 1) |-> Step(h, s, base, maps)]
    <3>1. h = [s \in Upto(n + 1) |-> Step(g, s, base, maps)]
      OBVIOUS
    <3> HIDE DEF h, Upto
    <3>2. QED
      BY <2>4, <3>1
  <2> HIDE DEF h
  <2>6. QED
    BY <2>5
<1>4. Ok(Cardinality(S))
  <2> DEFINE T == {n \in Nat : Ok(n)}
  <2> HIDE DEF Ok
  <2>1. T \in SUBSET Nat /\ 0 \in T /\ \A n \in T : n + 1 \in T
    BY <1>2, <1>3
  <2>2. T = Nat
    <3> HIDE DEF T
    <3>1. QED
      BY <2>1, EverySize
  <2>3. QED
    BY <1>1, <2>2
<1>5. Upto(Cardinality(S)) = SUBSET S
  BY <1>1
<1>6. QED
  BY <1>4, <1>5 DEF IsFold

\* The order of the entries, as MergedIsLatest has it.
AtMost(e, m) == e.stamp < m.stamp \/ (e.stamp = m.stamp /\ e.val <= m.val)

\* One of the entries it is made of, and one that no other supersedes.
Latest(m, s, base, maps) ==
  /\ m \in Map
  /\ \A c \in Cell : /\ m[c] \in {base[c]} \cup {maps[x][c] : x \in s}
                     /\ AtMost(base[c], m[c])
                     /\ \A x \in s : AtMost(maps[x][c], m[c])

LEMMA NewerPicks ==
  ASSUME NEW old \in Entry, NEW new \in Entry
  PROVE  /\ Newer(old, new) \in {old, new}
         /\ AtMost(old, Newer(old, new)) /\ AtMost(new, Newer(old, new))
         /\ \A e \in Entry : AtMost(e, old) => AtMost(e, Newer(old, new))
<1>1. \A e \in Entry : e.stamp \in Nat /\ e.val \in Nat
  BY Bounds
<1>2. QED
  BY <1>1 DEF Newer, Supersedes, AtMost

LEMMA FoldLatest ==
  ASSUME NEW S, IsFiniteSet(S), NEW base \in Map, NEW maps, \A x \in S : maps[x] \in Map,
         NEW g, IsFold(g, S, base, maps)
  PROVE  \A s \in SUBSET S : Latest(g[s], s, base, maps)
<1> DEFINE Ok(n) == \A s \in SUBSET S : Cardinality(s) = n => Latest(g[s], s, base, maps)
           T == {n \in Nat : Ok(n)}
<1>0. \A s \in SUBSET S : IsFiniteSet(s) /\ Cardinality(s) \in Nat
  BY FS_Subset, FS_CardinalityType
<1>1. Ok(0)
  <2> SUFFICES ASSUME NEW s \in SUBSET S, Cardinality(s) = 0
               PROVE  Latest(g[s], s, base, maps)
    OBVIOUS
  <2>1. s = {}
    BY <1>0, FS_EmptySet
  <2>2. g[s] = base
    BY <2>1 DEF IsFold, Step
  <2>3. \A c \in Cell : base[c] \in Entry /\ base[c].stamp \in Nat /\ base[c].val \in Nat
    BY Bounds DEF Map
  <2>4. \A c \in Cell : AtMost(base[c], base[c])
    BY <2>3 DEF AtMost
  <2>5. QED
    BY <2>1, <2>2, <2>4 DEF Latest
<1>2. ASSUME NEW n \in Nat, Ok(n) PROVE Ok(n + 1)
  <2> SUFFICES ASSUME NEW s \in SUBSET S, Cardinality(s) = n + 1
               PROVE  Latest(g[s], s, base, maps)
    OBVIOUS
  <2> DEFINE x == One(s)
             rest == s \ {x}
  <2>1. s # {}
    <3>1. Cardinality(s) # 0
      BY <1>2
    <3>2. QED
      BY <3>1, FS_EmptySet
  <2>2. x \in s
    BY <2>1 DEF One
  <2>3. Cardinality(rest) = n /\ rest \in SUBSET S
    <3>1. Cardinality(rest) = Cardinality(s) - 1
      BY <1>0, <2>2, FS_RemoveElement
    <3>2. QED
      BY <1>2, <3>1
  <2>4. Latest(g[rest], rest, base, maps)
    BY <1>2, <2>3
  <2>5. g[s] = Merge(g[rest], maps[x])
    BY <2>1 DEF IsFold, Step
  <2>6. s = rest \cup {x}
    BY <2>2
  <2>7. maps[x] \in Map /\ g[rest] \in Map
    BY <2>2, <2>4 DEF Latest
  <2> HIDE DEF x, rest, Ok
  <2>8. \A c \in Cell : /\ maps[x][c] \in Entry /\ g[rest][c] \in Entry /\ base[c] \in Entry
                        /\ \A y \in s : maps[y][c] \in Entry
    BY <2>7 DEF Map
  <2>9. \A c \in Cell : g[s][c] = Newer(g[rest][c], maps[x][c])
    <3>1. DOMAIN maps[x] = Cell
      BY <2>7 DEF Map
    <3>2. QED
      BY <2>5, <3>1 DEF Merge
  <2>10. ASSUME NEW c \in Cell
         PROVE  /\ g[s][c] \in {base[c]} \cup {maps[y][c] : y \in s}
                /\ AtMost(base[c], g[s][c])
                /\ \A y \in s : AtMost(maps[y][c], g[s][c])
    <3>1. /\ g[rest][c] \in {base[c]} \cup {maps[y][c] : y \in rest}
          /\ AtMost(base[c], g[rest][c])
          /\ \A y \in rest : AtMost(maps[y][c], g[rest][c])
      BY <2>4 DEF Latest
    <3>2. /\ g[s][c] \in {g[rest][c], maps[x][c]}
          /\ AtMost(maps[x][c], g[s][c])
          /\ \A e \in Entry : AtMost(e, g[rest][c]) => AtMost(e, g[s][c])
      <4>1. g[rest][c] \in Entry /\ maps[x][c] \in Entry
        BY <2>8
      <4>2. g[s][c] = Newer(g[rest][c], maps[x][c])
        BY <2>9
      <4>3. QED
        BY <4>1, <4>2, NewerPicks
    <3>3. g[s][c] \in {base[c]} \cup {maps[y][c] : y \in s}
      BY <2>6, <3>1, <3>2
    <3>4. \A y \in s : AtMost(maps[y][c], g[s][c])
      BY <2>6, <2>8, <3>1, <3>2
    <3>5. QED
      BY <2>8, <3>1, <3>2, <3>3, <3>4
  <2>11. g[s] \in Map
    <3>1. \A c \in Cell : g[s][c] \in Entry
      BY <2>8, <2>9, NewerPicks
    <3>2. g[s] = [c \in Cell |-> g[s][c]]
      BY <2>5 DEF Merge
    <3>3. QED
      BY <3>1, <3>2 DEF Map
  <2>12. QED
    BY <2>10, <2>11 DEF Latest
<1>3. T = Nat
  <2> HIDE DEF Ok
  <2>1. T \in SUBSET Nat /\ 0 \in T /\ \A n \in T : n + 1 \in T
    BY <1>1, <1>2
  <2> HIDE DEF T
  <2>2. QED
    BY <2>1, EverySize
<1>4. QED
  BY <1>0, <1>3

\* The map zones are chosen from holds the latest entry of every cell, in
\* whatever order the copies of any number of peers are merged.
THEOREM MergedHoldsLatest == Spec => []MergedIsLatest
<1>1. TypeOK => MergedIsLatest
  <2> SUFFICES ASSUME TypeOK, NEW p \in Peer, NEW c \in Cell
               PROVE  LET sources == {local[p][c]} \cup
                            {copy[p][q][c] : q \in {r \in Others(p) : copy[p][r] # None}}
                          m == Merged(p)[c] IN
                      /\ m \in sources
                      /\ \A e \in sources : e.stamp < m.stamp \/ (e.stamp = m.stamp /\ e.val <= m.val)
    BY DEF MergedIsLatest
  <2> DEFINE S == {q \in Others(p) : copy[p][q] # None}
             fold == CHOOSE g : IsFold(g, S, local[p], copy[p])
  <2>1. IsFiniteSet(S)
    <3>1. S \in SUBSET Peer /\ IsFiniteSet(Peer)
      BY MapGossipAssumption DEF Others
    <3>2. QED
      BY <3>1, FS_Subset
  <2>2. local[p] \in Map /\ \A q \in S : copy[p][q] \in Map
    BY DEF TypeOK, Others
  <2>3. Merged(p) = fold[S]
    BY MergedUnfolded
  <2> HIDE DEF S
  <2>4. IsFold(fold, S, local[p], copy[p])
    <3>1. \E g : IsFold(g, S, local[p], copy[p])
      BY <2>1, FoldExists
    <3>2. QED
      BY <3>1
  <2>5. \A s \in SUBSET S : Latest(fold[s], s, local[p], copy[p])
    <3> HIDE DEF fold
    <3>1. QED
      BY <2>1, <2>2, <2>4, FoldLatest
  <2>6. Latest(Merged(p), S, local[p], copy[p])
    BY <2>3, <2>5
  <2>7. QED
    BY <2>6 DEF Latest, AtMost, S
<1>2. QED
  BY <1>1, GossipTypeCorrect, PTL
=============================================================================
