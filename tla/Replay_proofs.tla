---------------------------- MODULE Replay_proofs ----------------------------
(***************************************************************************)
(* Proofs about the replay, for any episodes, demonstrations and sizes:    *)
(* the ring keeps the links of what was driven, the index and the windows  *)
(* find there what may be drawn, a learner is given what was driven, and   *)
(* the tree of priorities keeps the sums of its leaves.                    *)
(***************************************************************************)
EXTENDS ValueTargets, FenwickTree, SumTheorems, FunctionTheorems

-----------------------------------------------------------------------------
Id == Nat \cup {NoId}
StoredEntry == [transition : Recorded, pace : Pace, previous : Id, next : Id, own : BOOLEAN]
LoggedChange == [revision : Nat, appended : Int, evicted : Int, evictedPrevious : Int,
                 evictedNext : Int, reclassified : SUBSET Int]
StoreShape ==
    /\ nextIndex \in Nat
    /\ stored \in [{id \in 0 .. nextIndex - 1 : id >= nextIndex - Capacity} -> StoredEntry]
    /\ displaced \in {Nothing} \cup [transition : Demo, pace : Pace]
    /\ episodeSteps \in [Episode -> [0 .. 9 -> Id]]
    /\ terminalStep \in [Episode -> Nat \cup {NoId}]
    /\ episodePace \in [Episode -> Pace]
    /\ storeRevision \in Nat /\ changes \in Seq(LoggedChange) /\ Len(changes) <= ChangesKept
    /\ offered \subseteq Recorded

(* The index of an open episode knows its steps in the ring by their ids.    *)
StepsInv ==
    /\ \A e \in Episode, s \in 0 .. 9 :
         /\ episodeSteps[e][s] < nextIndex
         /\ Contains(episodeSteps[e][s]) => stored[episodeSteps[e][s]].transition = <<e, s>>
    /\ \A e \in Episode : terminalStep[e] \in {NoId, LastStep[e]}

(* No transition is in two places.                                           *)
OnceInv ==
    /\ \A i, j \in DOMAIN stored : stored[i].transition = stored[j].transition => i = j
    /\ \A i \in DOMAIN stored : stored[i].transition \in offered
    /\ displaced # Nothing =>
         /\ displaced.transition \in offered
         /\ \A i \in DOMAIN stored : stored[i].transition # displaced.transition
    /\ \A t \in offered \cap Demo :
         displaced.transition = t \/ \E i \in DOMAIN stored : stored[i].transition = t

(* An online step in the ring is indexed, or the whole episode has arrived.  *)
ClosedInv ==
    \A i \in DOMAIN stored :
        LET t == stored[i].transition
        IN t \notin Demo =>
             \/ episodeSteps[t[1]][t[2]] = i
             \/ \A s \in 0 .. LastStep[t[1]] : <<t[1], s>> \in offered

(* What stands in for a dropped observation leaves the ring later.           *)
OwnInv ==
    \A i \in DOMAIN stored :
        /\ stored[i].next < nextIndex /\ stored[i].previous < nextIndex
        /\ ~stored[i].own =>
             /\ stored[i].next > i
             /\ stored[stored[i].next].transition = NextObservation(stored[i].transition)

StoreInv ==
    /\ StoreShape /\ StepsInv /\ OnceInv /\ ClosedInv /\ OwnInv
    /\ LinksJoinNeighbours /\ NeighboursAreLinked

-----------------------------------------------------------------------------
\* What is assumed of the replay.
LEMMA StoreConstants ==
    /\ Capacity \in Nat \ {0} /\ ChangesKept \in Nat \ {0} /\ NoId = -1 /\ NoId \notin Nat
    /\ LastStep \in [Episode -> 0 .. 8] /\ Demo \subseteq Recorded
  BY ReplayAssumption DEF NoId

\* A recorded transition is a step of an episode.
LEMMA RecordedIs ==
  ASSUME NEW t \in Recorded
  PROVE  /\ t = <<t[1], t[2]>> /\ t[1] \in Episode /\ t[2] \in 0 .. LastStep[t[1]]
         /\ t[2] \in 0 .. 9 /\ t[2] + 1 \in 0 .. 9 /\ LastStep[t[1]] \in 0 .. 8
<1>1. t \in Transition /\ t[2] <= LastStep[t[1]] BY DEF Recorded
<1>2. PICK e \in Episode, s \in 0 .. 9 : t = <<e, s>> BY <1>1 DEF Transition
<1>3. t[1] = e /\ t[2] = s BY <1>2
<1>4. LastStep[e] \in 0 .. 8 BY StoreConstants
<1> QED BY <1>1, <1>2, <1>3, <1>4

\* The other direction.
LEMMA RecordedIf ==
  ASSUME NEW e \in Episode, NEW s \in 0 .. LastStep[e]
  PROVE  <<e, s>> \in Recorded
<1>1. LastStep[e] \in 0 .. 8 BY StoreConstants
<1>2. s \in 0 .. 9 BY <1>1
<1>3. <<e, s>> \in Transition BY <1>2 DEF Transition
<1> QED BY <1>3, <1>1 DEF Recorded

\* The ring when n ids have been given out.
Ring(n) == {id \in 0 .. n - 1 : id >= n - Capacity}

\* The ring moves on by one: its oldest id leaves and the next one enters.
LEMMA RingMoves ==
  ASSUME NEW n \in Nat
  PROVE  /\ Ring(n + 1) = (Ring(n) \ {n - Capacity}) \cup {n}
         /\ Ring(n) \subseteq Nat /\ n \notin Ring(n) /\ NoId \notin Ring(n) /\ Ring(0) = {}
         /\ \A i \in Ring(n), j \in Nat : i < j /\ j < n => j \in Ring(n)
<1>1. Capacity \in Nat \ {0} /\ NoId = -1 BY StoreConstants
<1> QED BY <1>1 DEF Ring

\* What is stored at an id of the ring, and of what types.
LEMMA InRing ==
  ASSUME StoreShape
  PROVE  /\ DOMAIN stored = Ring(nextIndex) /\ nextIndex \in Nat
         /\ \A i \in DOMAIN stored :
              /\ i \in Nat /\ stored[i] \in StoredEntry /\ stored[i].transition \in Recorded
              /\ stored[i].pace \in Pace /\ stored[i].own \in BOOLEAN
              /\ stored[i].next \in Id /\ stored[i].previous \in Id
<1>1. DOMAIN stored = Ring(nextIndex) /\ nextIndex \in Nat
      /\ \A i \in Ring(nextIndex) : stored[i] \in StoredEntry
  BY DEF StoreShape, Ring
<1>2. Ring(nextIndex) \subseteq Nat BY <1>1, RingMoves
<1> QED BY <1>1, <1>2 DEF StoredEntry

\* What linking changes.
LEMMA LinkFacts ==
  ASSUME NEW D, NEW ring \in [D -> StoredEntry], NEW p \in D \cap Nat, NEW id \in D \cap Nat,
         p # id, ~Ends(ring[p].transition)
  PROVE  /\ Link(ring, p, id) \in [D -> StoredEntry]
         /\ \A i \in D :
              /\ Link(ring, p, id)[i].transition = ring[i].transition
              /\ Link(ring, p, id)[i].pace = ring[i].pace
              /\ Link(ring, p, id)[i].next = IF i = p THEN id ELSE ring[i].next
              /\ Link(ring, p, id)[i].previous = IF i = id THEN p ELSE ring[i].previous
              /\ i # p => Link(ring, p, id)[i].own = ring[i].own
         /\ Link(ring, p, id)[p].own <=>
              ring[p].own
                /\ ~(id > p /\ NextObservation(ring[p].transition) = ring[id].transition)
<1> DEFINE keeps == ring[p].own
                      /\ ~(id > p /\ NextObservation(ring[p].transition) = ring[id].transition)
           linked == [ring EXCEPT ![p].next = id, ![id].previous = p, ![p].own = keeps]
<1>1. Link(ring, p, id) = linked
  BY DEF Link
<1>2. keeps \in BOOLEAN OBVIOUS
<1> HIDE DEF keeps
<1>3. /\ DOMAIN linked = D
      /\ linked[p] = [ring[p] EXCEPT !.next = id, !.own = keeps]
      /\ linked[id] = [ring[id] EXCEPT !.previous = p]
      /\ \A i \in D \ {p, id} : linked[i] = ring[i]
  OBVIOUS
<1> HIDE DEF linked
<1>4. \A i \in D : ring[i] \in StoredEntry OBVIOUS
<1>5. id \in Id /\ p \in Id BY DEF Id
<1>6. /\ linked[p] \in StoredEntry /\ linked[p].transition = ring[p].transition
      /\ linked[p].pace = ring[p].pace /\ linked[p].next = id
      /\ linked[p].previous = ring[p].previous /\ linked[p].own = keeps
  BY <1>2, <1>3, <1>4, <1>5 DEF StoredEntry
<1>7. /\ linked[id] \in StoredEntry /\ linked[id].transition = ring[id].transition
      /\ linked[id].pace = ring[id].pace /\ linked[id].next = ring[id].next
      /\ linked[id].previous = p /\ linked[id].own = ring[id].own
  BY <1>3, <1>4, <1>5 DEF StoredEntry
<1>8. linked \in [D -> StoredEntry]
  <2>1. \A i \in D : linked[i] \in StoredEntry BY <1>3, <1>4, <1>6, <1>7
  <2>2. linked = [i \in D |-> linked[i]] BY DEF linked
  <2> QED BY <2>1, <2>2
<1>9. \A i \in D :
        /\ linked[i].transition = ring[i].transition /\ linked[i].pace = ring[i].pace
        /\ linked[i].next = IF i = p THEN id ELSE ring[i].next
        /\ linked[i].previous = IF i = id THEN p ELSE ring[i].previous
        /\ i # p => linked[i].own = ring[i].own
  BY <1>3, <1>6, <1>7
<1> QED BY <1>1, <1>6, <1>8, <1>9 DEF keeps

\* There is nothing to link with an id outside the ring.
LEMMA LinkNothing ==
  ASSUME NEW D, NEW ring \in [D -> StoredEntry], NEW p, NEW id, p \notin D \/ id \notin D
  PROVE  Link(ring, p, id) = ring
BY DEF Link

-----------------------------------------------------------------------------
(* The parts of a write.                                                     *)
Projected(t) == IF t \in Demo THEN "fast" ELSE "unknown"
StoreEntry(t, pace) == [transition |-> t, pace |-> SamplingPace(t[1], pace),
                   previous |-> StepId(episodeSteps[t[1]], stored, t[2] - 1),
                   next |-> NoId, own |-> TRUE]
Steps1(t) == [IF t[1] \in Forgotten THEN NoSteps ELSE episodeSteps[t[1]] EXCEPT ![t[2]] = nextIndex]
Written(t, pace) ==
    [i \in DOMAIN Kept \cup {nextIndex} |-> IF i = nextIndex THEN StoreEntry(t, pace) ELSE Kept[i]]
Before1(t) == StepId(episodeSteps[t[1]], stored, t[2] - 1)
After1(t, pace) == StepId(Steps1(t), Written(t, pace), t[2] + 1)
Linked(t, pace) ==
    Link(Link(Written(t, pace), Before1(t), nextIndex), nextIndex, After1(t, pace))
Last1(t) == IF Ends(t) THEN t[2] ELSE IF t[1] \in Forgotten THEN NoId ELSE terminalStep[t[1]]
Complete1(t, pace) == Completed(Steps1(t), Last1(t), Linked(t, pace))

\* A write, in its parts.
LEMMA WriteIs ==
  ASSUME NEW t, NEW pace, Write(t, pace)
  PROVE  /\ stored' = Linked(t, pace) /\ nextIndex' = nextIndex + 1 /\ displaced' = Displaced(t)
         /\ episodeSteps' = [x \in Episode |->
              IF x = t[1] THEN (IF Complete1(t, pace) THEN NoSteps ELSE Steps1(t))
              ELSE IF x \in Forgotten THEN NoSteps ELSE episodeSteps[x]]
         /\ terminalStep' = [x \in Episode |->
              IF x = t[1] THEN (IF Complete1(t, pace) THEN NoId ELSE Last1(t))
              ELSE IF x \in Forgotten THEN NoId ELSE terminalStep[x]]
BY DEF Write, StoreEntry, Steps1, Written, Before1, After1, Linked, Last1, Complete1

\* The ring a write leaves has the same entries but for the oldest and the new one.
Fresh(t) == \A i \in DOMAIN stored : stored[i].transition # t

\* What is kept is the ring without its oldest id, and is in the ring after the write.
LEMMA KeptIs ==
  ASSUME StoreShape
  PROVE  /\ DOMAIN Kept = DOMAIN stored \ {Evicted}
         /\ DOMAIN Kept \cup {nextIndex} = Ring(nextIndex + 1)
         /\ nextIndex \notin DOMAIN stored /\ nextIndex \in Nat
         /\ \A i \in DOMAIN Kept : Kept[i] = stored[i]
<1>1. DOMAIN stored = Ring(nextIndex) /\ nextIndex \in Nat BY InRing
<1>2. DOMAIN Kept = DOMAIN stored \ {Evicted} /\ \A i \in DOMAIN Kept : Kept[i] = stored[i]
  BY DEF Kept
<1> QED BY <1>1, <1>2, RingMoves DEF Evicted

\* The ring before its new entry is linked.
LEMMA WrittenFacts ==
  ASSUME StoreInv, NEW t \in Recorded, NEW pace \in Pace
  PROVE  /\ Written(t, pace) \in [Ring(nextIndex + 1) -> StoredEntry]
         /\ Written(t, pace)[nextIndex] = StoreEntry(t, pace)
         /\ \A i \in DOMAIN Kept : Written(t, pace)[i] = stored[i]
         /\ Before1(t) \in Id /\ Before1(t) < nextIndex
<1>1. StoreShape /\ StepsInv BY DEF StoreInv
<1>2. t[1] \in Episode /\ t[2] \in 0 .. 9 BY RecordedIs
<1>3. \A s \in 0 .. 9 : episodeSteps[t[1]][s] \in Id /\ episodeSteps[t[1]][s] < nextIndex
  BY <1>1, <1>2 DEF StoreShape, StepsInv
<1>4. Before1(t) \in Id /\ Before1(t) < nextIndex
  <2>1. CASE t[2] - 1 >= 0
    <3>1. t[2] - 1 \in 0 .. 9 BY <1>2, <2>1
    <3>2. nextIndex \in Nat BY <1>1, InRing
    <3> QED BY <1>3, <3>1, <3>2 DEF Before1, StepId, Id, NoId
  <2>2. CASE ~(t[2] - 1 >= 0)
    BY <2>2, <1>1, InRing DEF Before1, StepId, Id, NoId
  <2> QED BY <2>1, <2>2
<1>5. SamplingPace(t[1], pace) \in Pace BY <1>1, RecordedIs DEF SamplingPace, StoreShape
<1>6. StoreEntry(t, pace) \in StoredEntry
  BY <1>4, <1>5 DEF StoreEntry, StoredEntry, Before1, Id
<1>7. \A i \in DOMAIN Kept : Kept[i] = stored[i] /\ stored[i] \in StoredEntry
  BY <1>1, KeptIs, InRing
<1>8. nextIndex \notin DOMAIN Kept /\ DOMAIN Kept \cup {nextIndex} = Ring(nextIndex + 1)
  BY <1>1, KeptIs
<1>9. /\ DOMAIN Written(t, pace) = Ring(nextIndex + 1)
      /\ Written(t, pace)[nextIndex] = StoreEntry(t, pace)
      /\ \A i \in DOMAIN Kept : Written(t, pace)[i] = stored[i]
  BY <1>7, <1>8 DEF Written
<1>10. \A i \in Ring(nextIndex + 1) : Written(t, pace)[i] \in StoredEntry
  BY <1>6, <1>7, <1>8, <1>9
<1>11. Written(t, pace) = [i \in Ring(nextIndex + 1) |-> Written(t, pace)[i]]
  BY <1>8 DEF Written
<1> QED BY <1>4, <1>9, <1>10, <1>11

\* What the index says of the step before: that one, and nothing follows it yet.
LEMMA BeforeIs ==
  ASSUME StoreInv, NEW t \in Recorded, Fresh(t), Contains(Before1(t))
  PROVE  /\ stored[Before1(t)].transition = <<t[1], t[2] - 1>>
         /\ ~Ends(stored[Before1(t)].transition) /\ t[2] > 0
         /\ ~Contains(stored[Before1(t)].next) /\ stored[Before1(t)].own
<1> DEFINE p == Before1(t)
<1>1. StoreShape /\ StepsInv /\ LinksJoinNeighbours /\ OwnInv BY DEF StoreInv
<1>2. /\ t = <<t[1], t[2]>> /\ t[1] \in Episode /\ t[2] \in 0 .. LastStep[t[1]]
      /\ LastStep[t[1]] \in 0 .. 8
  BY RecordedIs
<1>3. NoId \notin DOMAIN stored BY <1>1, InRing, StoreConstants
<1>4. t[2] - 1 >= 0 /\ p = episodeSteps[t[1]][t[2] - 1]
  BY <1>3 DEF Before1, StepId, Contains
<1>5. t[2] - 1 \in 0 .. 9 BY <1>2, <1>4
<1>6. stored[p].transition = <<t[1], t[2] - 1>>
  BY <1>1, <1>2, <1>4, <1>5 DEF StepsInv
<1>7. ~Ends(stored[p].transition) /\ t[2] > 0 BY <1>2, <1>4, <1>6 DEF Ends
<1>8. ~Contains(stored[p].next)
  <2>1. SUFFICES ASSUME Contains(stored[p].next) PROVE FALSE OBVIOUS
  <2>2. stored[stored[p].next].transition = <<t[1], (t[2] - 1) + 1>>
    BY <1>1, <1>6, <2>1 DEF LinksJoinNeighbours, Contains
  <2>3. (t[2] - 1) + 1 = t[2] BY <1>2
  <2> QED BY <1>2, <2>1, <2>2, <2>3 DEF Fresh, Contains
<1>9. stored[p].own
  <2>1. SUFFICES ASSUME ~stored[p].own PROVE FALSE OBVIOUS
  <2>2. stored[p].next > p /\ stored[p].next < nextIndex
    BY <1>1, <2>1 DEF OwnInv, Contains
  <2>3. p \in Nat /\ stored[p].next \in Id /\ DOMAIN stored = Ring(nextIndex) /\ nextIndex \in Nat
    BY <1>1, InRing DEF Contains
  <2>4. stored[p].next \in Nat BY <2>2, <2>3 DEF Id, NoId
  <2>5. stored[p].next \in Ring(nextIndex)
    BY <2>2, <2>3, <2>4, RingMoves DEF Contains
  <2> QED BY <1>8, <2>3, <2>5 DEF Contains
<1> QED BY <1>6, <1>7, <1>8, <1>9

\* The successor that is found for a new entry is the next step of its episode, not yet linked.
LEMMA AfterIs ==
  ASSUME StoreInv, NEW t \in Recorded, NEW pace \in Pace, Fresh(t)
  PROVE  /\ After1(t, pace) \in Id /\ After1(t, pace) < nextIndex
         /\ After1(t, pace) \in DOMAIN Kept \/ After1(t, pace) = NoId
         /\ After1(t, pace) \in DOMAIN Kept =>
              /\ stored[After1(t, pace)].transition = <<t[1], t[2] + 1>>
              /\ ~Ends(t) /\ t[1] \notin Forgotten
              /\ ~Contains(stored[After1(t, pace)].previous)
<1> DEFINE n == After1(t, pace)
<1>1. StoreShape /\ StepsInv /\ LinksJoinNeighbours BY DEF StoreInv
<1>2. /\ t = <<t[1], t[2]>> /\ t[1] \in Episode /\ t[2] \in 0 .. LastStep[t[1]]
      /\ LastStep[t[1]] \in 0 .. 8 /\ t[2] \in 0 .. 9 /\ t[2] + 1 \in 0 .. 9
  BY RecordedIs
<1>3. nextIndex \in Nat /\ nextIndex \notin DOMAIN Kept BY <1>1, KeptIs
<1>4. DOMAIN Written(t, pace) = DOMAIN Kept \cup {nextIndex} BY DEF Written
<1>5. /\ DOMAIN Kept \subseteq DOMAIN stored /\ \A i \in DOMAIN stored : i \in Nat
      /\ NoId \notin Nat
  BY <1>1, KeptIs, InRing, StoreConstants
<1>6. CASE t[1] \in Forgotten
  <2>1. Steps1(t)[t[2] + 1] = NoId
    BY <1>2, <1>6 DEF Steps1, NoSteps
  <2>2. n = NoId BY <1>2, <2>1 DEF After1, StepId
  <2> QED BY <1>3, <1>5, <2>2 DEF Id, NoId
<1>7. CASE t[1] \notin Forgotten
  <2>1. episodeSteps[t[1]] \in [0 .. 9 -> Id] BY <1>1, <1>2 DEF StoreShape
  <2>2. Steps1(t)[t[2] + 1] = episodeSteps[t[1]][t[2] + 1]
    BY <1>2, <1>7, <2>1 DEF Steps1
  <2>3. /\ episodeSteps[t[1]][t[2] + 1] \in Id /\ episodeSteps[t[1]][t[2] + 1] < nextIndex
        /\ episodeSteps[t[1]][t[2] + 1] \in DOMAIN stored =>
             stored[episodeSteps[t[1]][t[2] + 1]].transition = <<t[1], t[2] + 1>>
    BY <1>1, <1>2, <2>1 DEF StepsInv, Contains
  <2>4. CASE episodeSteps[t[1]][t[2] + 1] \in DOMAIN Kept
    <3>1. n = episodeSteps[t[1]][t[2] + 1] BY <1>2, <1>4, <2>2, <2>4 DEF After1, StepId
    <3>2. stored[n].transition = <<t[1], t[2] + 1>> /\ n \in DOMAIN stored
      BY <1>5, <2>3, <2>4, <3>1
    <3>3. <<t[1], t[2] + 1>> \in Recorded BY <3>2, <1>1, InRing
    <3>4. t[2] + 1 <= LastStep[t[1]] BY <3>3, RecordedIs
    <3>5. ~Ends(t) BY <1>2, <3>4 DEF Ends
    <3>6. ~Contains(stored[n].previous)
      <4>1. SUFFICES ASSUME Contains(stored[n].previous) PROVE FALSE OBVIOUS
      <4> DEFINE q == stored[n].previous
      <4>2. stored[q].next = n /\ q \in DOMAIN stored
        BY <1>1, <3>2, <4>1 DEF LinksJoinNeighbours, Contains
      <4>3. stored[n].transition = <<stored[q].transition[1], stored[q].transition[2] + 1>>
        BY <1>1, <3>2, <4>2 DEF LinksJoinNeighbours, Contains
      <4>4. stored[q].transition \in Recorded BY <1>1, <4>2, InRing
      <4>5. /\ stored[q].transition = <<stored[q].transition[1], stored[q].transition[2]>>
            /\ stored[q].transition[2] \in 0 .. 9
        BY <4>4, RecordedIs
      <4>6. stored[q].transition[1] = t[1] /\ stored[q].transition[2] + 1 = t[2] + 1
        BY <3>2, <4>3
      <4>7. stored[q].transition[2] = t[2] BY <1>2, <4>5, <4>6
      <4> QED BY <1>2, <4>2, <4>5, <4>6, <4>7 DEF Fresh
    <3> QED BY <1>7, <2>3, <2>4, <3>1, <3>2, <3>5, <3>6
  <2>5. CASE episodeSteps[t[1]][t[2] + 1] \notin DOMAIN Kept
    <3>1. episodeSteps[t[1]][t[2] + 1] # nextIndex BY <1>3, <2>3
    <3>2. n = NoId BY <1>4, <2>2, <2>5, <3>1 DEF After1, StepId
    <3> QED BY <1>3, <1>5, <3>2 DEF Id, NoId
  <2> QED BY <2>4, <2>5
<1> QED BY <1>6, <1>7

\* The ring after a write: the new entry and what its links change.
RingFacts(R, t, pace, p, n) ==
    /\ R \in [Ring(nextIndex + 1) -> StoredEntry]
    /\ R[nextIndex].transition = t /\ R[nextIndex].own
    /\ R[nextIndex].previous = p /\ R[nextIndex].next = n
    /\ \A i \in DOMAIN Kept :
         /\ R[i].transition = stored[i].transition /\ R[i].pace = stored[i].pace
         /\ R[i].next = IF i = p THEN nextIndex ELSE stored[i].next
         /\ R[i].previous = IF i = n THEN nextIndex ELSE stored[i].previous
         /\ i # p => R[i].own = stored[i].own
         /\ i = p /\ ~R[i].own => NextObservation(stored[i].transition) = t

\* The ring after the new entry is linked to both its neighbours.
LEMMA LinkedFacts ==
  ASSUME StoreInv, NEW t \in Recorded, NEW pace \in Pace, Fresh(t)
  PROVE  RingFacts(Linked(t, pace), t, pace, Before1(t), After1(t, pace))
<1> DEFINE p == Before1(t)  n == After1(t, pace)  id == nextIndex
           W == Written(t, pace)  L == Link(W, p, id)  D == Ring(nextIndex + 1)
<1>1. StoreShape BY DEF StoreInv
<1>2. /\ DOMAIN Kept = DOMAIN stored \ {Evicted} /\ DOMAIN Kept \cup {id} = D
      /\ id \notin DOMAIN stored /\ id \in Nat /\ id \in D /\ DOMAIN Kept \subseteq D
      /\ DOMAIN stored \subseteq Nat /\ D \subseteq Nat
  BY <1>1, KeptIs, InRing, RingMoves
<1>3. /\ W \in [D -> StoredEntry] /\ W[id] = StoreEntry(t, pace)
      /\ \A i \in DOMAIN Kept : W[i] = stored[i]
      /\ p \in Id /\ p < id
  BY WrittenFacts
<1>4. /\ n \in Id /\ n < id /\ (n \in DOMAIN Kept \/ n = NoId)
      /\ n \in DOMAIN Kept => ~Ends(t)
  BY AfterIs
<1>5. /\ W[id].transition = t /\ W[id].own = TRUE /\ W[id].next = NoId /\ W[id].previous = p
  BY <1>3 DEF StoreEntry, Before1
<1>6. NoId \notin D BY <1>2, StoreConstants
<1> HIDE DEF p, n, W
<1>7. /\ L \in [D -> StoredEntry]
      /\ \A i \in D :
           /\ L[i].transition = W[i].transition /\ L[i].pace = W[i].pace
           /\ i \in DOMAIN Kept => L[i].next = IF i = p THEN id ELSE stored[i].next
           /\ L[i].previous = W[i].previous
           /\ i # p => L[i].own = W[i].own
      /\ L[id].next = NoId
      /\ p \in DOMAIN Kept /\ ~L[p].own => NextObservation(stored[p].transition) = t
  <2>1. CASE p \in D
    <3>1. p \in DOMAIN Kept /\ p # id /\ Contains(p) BY <1>2, <1>3, <2>1 DEF Contains
    <3>2. ~Ends(W[p].transition) /\ W[p] = stored[p] /\ stored[p].own
      BY <1>3, <3>1, BeforeIs DEF p
    <3>3. p \in D \cap Nat /\ id \in D \cap Nat BY <1>2, <2>1
    <3>4. /\ L \in [D -> StoredEntry]
          /\ \A i \in D :
              /\ L[i].transition = W[i].transition
              /\ L[i].pace = W[i].pace
              /\ L[i].next = IF i = p THEN id ELSE W[i].next
              /\ L[i].previous = IF i = id THEN p ELSE W[i].previous
              /\ i # p => L[i].own = W[i].own
          /\ L[p].own <=>
              W[p].own /\ ~(id > p /\ NextObservation(W[p].transition) = W[id].transition)
      BY <1>3, <3>1, <3>2, <3>3, LinkFacts
    <3> HIDE DEF L
    <3>5. ~L[p].own => NextObservation(stored[p].transition) = t
      BY <1>5, <3>2, <3>4
    <3>6. \A i \in D : L[i].previous = W[i].previous BY <1>5, <3>4
    <3>7. \A i \in DOMAIN Kept : W[i].next = stored[i].next BY <1>3
    <3>8. L[id].next = NoId BY <1>2, <1>5, <3>1, <3>4
    <3> QED BY <1>2, <3>4, <3>5, <3>6, <3>7, <3>8
  <2>2. CASE p \notin D
    <3>1. L = W BY <1>3, <2>2, LinkNothing
    <3> QED BY <1>2, <1>3, <1>5, <2>2, <3>1
  <2> QED BY <2>1, <2>2
<1>8. Linked(t, pace) = Link(L, id, n) BY DEF Linked, p, n, W
<1> HIDE DEF L
<1> DEFINE R == Link(L, id, n)
<1>9. /\ R \in [D -> StoredEntry]
      /\ \A i \in D :
           /\ R[i].transition = W[i].transition /\ R[i].pace = W[i].pace
           /\ i \in DOMAIN Kept => R[i].next = IF i = p THEN id ELSE stored[i].next
           /\ R[i].previous = IF i = n THEN id ELSE W[i].previous
           /\ i # p => R[i].own = W[i].own
      /\ R[id].next = n
      /\ p \in DOMAIN Kept /\ ~R[p].own => NextObservation(stored[p].transition) = t
  <2>1. CASE n \in D
    <3>1. n \in DOMAIN Kept /\ n # id BY <1>2, <1>4, <1>6, <2>1
    <3>2. ~Ends(L[id].transition) BY <1>2, <1>4, <1>5, <1>7, <3>1
    <3>3. n \in D \cap Nat /\ id \in D \cap Nat BY <1>2, <2>1
    <3>4. /\ R \in [D -> StoredEntry]
          /\ \A i \in D :
              /\ R[i].transition = L[i].transition
              /\ R[i].pace = L[i].pace
              /\ R[i].next = IF i = id THEN n ELSE L[i].next
              /\ R[i].previous = IF i = n THEN id ELSE L[i].previous
              /\ i # id => R[i].own = L[i].own
          /\ R[id].own <=>
              L[id].own /\ ~(n > id /\ NextObservation(L[id].transition) = L[n].transition)
      BY <1>7, <3>1, <3>2, <3>3, LinkFacts
    <3> HIDE DEF R
    <3>5. id # p BY <1>2, <1>3
    <3>6. R[id].own /\ W[id].own
      BY <1>2, <1>4, <1>5, <1>7, <3>4, <3>5, <3>3
    <3>7. R[id].own \in BOOLEAN /\ W[id].own \in BOOLEAN
      BY <1>2, <1>3, <3>4 DEF StoredEntry
    <3>8. R[id].own = W[id].own BY <3>6, <3>7
    <3>9. \A i \in D : i # p => R[i].own = W[i].own BY <1>7, <3>4, <3>8
    <3>10. p \in DOMAIN Kept => R[p].own = L[p].own BY <1>2, <3>4, <3>5
    <3> QED BY <1>2, <1>7, <3>4, <3>9, <3>10
  <2>2. CASE n \notin D
    <3>1. R = L BY <1>7, <2>2, LinkNothing
    <3>2. n = NoId BY <1>2, <1>4, <2>2
    <3> QED BY <1>2, <1>7, <2>2, <3>1, <3>2
  <2> QED BY <2>1, <2>2
<1> HIDE DEF R
<1>10. R[id].own /\ id # p /\ R[id].previous = p
  BY <1>2, <1>3, <1>4, <1>5, <1>9
<1>11. RingFacts(R, t, pace, p, n)
  BY <1>2, <1>3, <1>5, <1>9, <1>10 DEF RingFacts
<1> QED BY <1>8, <1>11 DEF R, p, n

-----------------------------------------------------------------------------
(* A write keeps the invariant.                                              *)
AnyWrite(t, pace) ==
    /\ t \in Recorded /\ pace \in Pace /\ Fresh(t) /\ Write(t, pace)
    /\ offered' = offered \cup {t} /\ (t \in Demo \/ t \notin offered)
    /\ displaced = Nothing \/ displaced.transition = t

\* A forgotten episode has no entry left.
LEMMA Forgets ==
  ASSUME NEW e \in Forgotten, NEW i \in DOMAIN Kept PROVE stored[i].transition[1] # e
<1>1. Kept[i].transition[1] # e BY DEF Forgotten
<1> QED BY <1>1 DEF Kept

\* The ring after a write.
LEMMA RingAfter ==
  ASSUME StoreInv, NEW t, NEW pace, AnyWrite(t, pace)
  PROVE  /\ RingFacts(stored', t, pace, Before1(t), After1(t, pace))
         /\ nextIndex' = nextIndex + 1 /\ nextIndex \in Nat
         /\ DOMAIN stored' = DOMAIN Kept \cup {nextIndex}
         /\ DOMAIN stored' = Ring(nextIndex + 1)
         /\ DOMAIN Kept = DOMAIN stored \ {Evicted}
         /\ nextIndex \notin DOMAIN stored /\ DOMAIN stored \subseteq Nat
         /\ Before1(t) \in Id /\ Before1(t) < nextIndex
<1>1. StoreShape /\ t \in Recorded /\ pace \in Pace /\ Fresh(t) /\ Write(t, pace)
  BY DEF StoreInv, AnyWrite
<1>2. stored' = Linked(t, pace) /\ nextIndex' = nextIndex + 1 BY <1>1, WriteIs
<1>3. RingFacts(Linked(t, pace), t, pace, Before1(t), After1(t, pace)) BY <1>1, LinkedFacts
<1>4. DOMAIN stored' = Ring(nextIndex + 1) BY <1>2, <1>3 DEF RingFacts
<1> QED BY <1>1, <1>2, <1>3, <1>4, KeptIs, InRing, WrittenFacts

\* What the episode index says after a write.
LEMMA StepsAfterWrite ==
  ASSUME StoreInv, NEW t, NEW pace, AnyWrite(t, pace)
  PROVE  /\ episodeSteps' \in [Episode -> [0 .. 9 -> Id]]
         /\ \A x \in Episode, s \in 0 .. 9 :
              \/ episodeSteps'[x][s] \in {NoId, episodeSteps[x][s]}
              \/ x = t[1] /\ s = t[2] /\ episodeSteps'[x][s] = nextIndex
         /\ \A x \in Episode : terminalStep'[x] \in {NoId, terminalStep[x], LastStep[x]}
         /\ terminalStep' \in [Episode -> Nat \cup {NoId}]
<1>1. StoreShape /\ t \in Recorded /\ Write(t, pace) BY DEF StoreInv, AnyWrite
<1>2. t[1] \in Episode /\ t[2] \in 0 .. 9 /\ LastStep[t[1]] \in 0 .. 8 BY <1>1, RecordedIs
<1>3. /\ episodeSteps \in [Episode -> [0 .. 9 -> Id]] /\ nextIndex \in Nat
      /\ terminalStep \in [Episode -> Nat \cup {NoId}]
  BY <1>1 DEF StoreShape
<1>4. NoSteps \in [0 .. 9 -> Id] /\ \A s \in 0 .. 9 : NoSteps[s] = NoId
  BY DEF NoSteps, Id
<1>5. Steps1(t) \in [0 .. 9 -> Id] BY <1>2, <1>3, <1>4 DEF Steps1, Id
<1>6. \A s \in 0 .. 9 : \/ Steps1(t)[s] \in {NoId, episodeSteps[t[1]][s]}
                        \/ s = t[2] /\ Steps1(t)[s] = nextIndex
  BY <1>2, <1>3, <1>4 DEF Steps1
<1> DEFINE c == Complete1(t, pace)
<1>7. episodeSteps' = [x \in Episode |->
              IF x = t[1] THEN (IF c THEN NoSteps ELSE Steps1(t))
              ELSE IF x \in Forgotten THEN NoSteps ELSE episodeSteps[x]]
  BY <1>1, WriteIs
<1>8. terminalStep' = [x \in Episode |->
              IF x = t[1] THEN (IF c THEN NoId ELSE Last1(t))
              ELSE IF x \in Forgotten THEN NoId ELSE terminalStep[x]]
  BY <1>1, WriteIs
<1> HIDE DEF c
<1>9. episodeSteps' \in [Episode -> [0 .. 9 -> Id]] BY <1>3, <1>4, <1>5, <1>7
<1>10. ASSUME NEW x \in Episode, NEW s \in 0 .. 9
       PROVE  \/ episodeSteps'[x][s] \in {NoId, episodeSteps[x][s]}
              \/ x = t[1] /\ s = t[2] /\ episodeSteps'[x][s] = nextIndex
  BY <1>4, <1>6, <1>7
<1>11. Last1(t) \in {NoId, terminalStep[t[1]], LastStep[t[1]]} BY <1>2 DEF Last1, Ends
<1>12. \A x \in Episode : terminalStep'[x] \in {NoId, terminalStep[x], LastStep[x]}
  BY <1>2, <1>8, <1>11
<1>13. \A x \in Episode : LastStep[x] \in Nat BY StoreConstants
<1>14. terminalStep' \in [Episode -> Nat \cup {NoId}]
  <2>1. \A x \in Episode : terminalStep'[x] \in Nat \cup {NoId} BY <1>3, <1>12, <1>13
  <2>2. terminalStep' = [x \in Episode |-> terminalStep'[x]] BY <1>8
  <2> QED BY <2>1, <2>2
<1> QED BY <1>9, <1>10, <1>12, <1>14

\* The change log keeps its type and its length.
LEMMA LogFacts ==
  ASSUME NEW log \in Seq(LoggedChange), Len(log) <= ChangesKept, NEW c \in LoggedChange
  PROVE  Logged(log, c) \in Seq(LoggedChange) /\ Len(Logged(log, c)) <= ChangesKept
<1>1. ChangesKept \in Nat \ {0} BY StoreConstants
<1>2. Len(log) \in Nat OBVIOUS
<1>3. CASE Len(log) < ChangesKept
  <2>1. Append(log, c) \in Seq(LoggedChange) /\ Len(Append(log, c)) = Len(log) + 1 OBVIOUS
  <2> QED BY <1>1, <1>2, <1>3, <2>1 DEF Logged
<1>4. CASE ~(Len(log) < ChangesKept)
  <2>1. log # <<>> BY <1>1, <1>4
  <2>2. Tail(log) \in Seq(LoggedChange) /\ Len(Tail(log)) = Len(log) - 1 BY <2>1
  <2>3. Append(Tail(log), c) \in Seq(LoggedChange) /\ Len(Append(Tail(log), c)) = Len(Tail(log)) + 1
    BY <2>2
  <2> QED BY <1>1, <1>2, <1>4, <2>2, <2>3 DEF Logged
<1> QED BY <1>3, <1>4

\* A change has the type of the log's entries.
LEMMA ChangeFacts ==
  ASSUME storeRevision \in Nat, NEW a \in Int, NEW b \in Int, NEW p \in Int, NEW n \in Int,
         NEW again \in SUBSET Int
  PROVE  Change(a, b, p, n, again) \in LoggedChange
BY DEF Change, LoggedChange

\* A write keeps the types.
LEMMA WriteShape ==
  ASSUME StoreInv, NEW t, NEW pace, AnyWrite(t, pace)
  PROVE  StoreShape'
<1>1. /\ StoreShape /\ t \in Recorded /\ Write(t, pace) /\ pace \in Pace
      /\ offered' = offered \cup {t}
  BY DEF StoreInv, AnyWrite
<1>2. /\ stored' \in [Ring(nextIndex + 1) -> StoredEntry] /\ nextIndex' = nextIndex + 1
      /\ nextIndex \in Nat
  BY RingAfter DEF RingFacts
<1>3. stored' \in [{id \in 0 .. nextIndex' - 1 : id >= nextIndex' - Capacity} -> StoredEntry]
  BY <1>2 DEF Ring
<1>4. displaced' \in {Nothing} \cup [transition : Demo, pace : Pace]
  <2>1. displaced' = Displaced(t) BY <1>1, WriteIs
  <2>2. CASE Contains(Evicted) /\ IsDemo(Evicted)
    <3>1. stored[Evicted].pace \in Pace /\ stored[Evicted].transition \in Demo
      BY <1>1, <2>2, InRing DEF Contains, IsDemo
    <3> QED BY <2>1, <2>2, <3>1 DEF Displaced
  <2>3. CASE ~(Contains(Evicted) /\ IsDemo(Evicted))
    BY <2>1, <2>3 DEF Displaced
  <2> QED BY <2>2, <2>3
<1>5. storeRevision' = storeRevision + 1 /\ storeRevision \in Nat BY <1>1 DEF Write, StoreShape
<1>6. episodePace' \in [Episode -> Pace]
  <2>1. episodePace' = [x \in Episode |->
                          IF x # t[1] /\ x \in Forgotten THEN "unknown" ELSE episodePace[x]]
    BY <1>1 DEF Write
  <2>2. episodePace \in [Episode -> Pace] BY <1>1 DEF StoreShape
  <2> QED BY <2>1, <2>2 DEF Pace
<1>7. changes' \in Seq(LoggedChange) /\ Len(changes') <= ChangesKept
  <2>1. changes' = Logged(changes,
              IF Contains(Evicted)
                THEN Change(nextIndex, Evicted, stored[Evicted].previous, stored[Evicted].next, {})
                ELSE Change(nextIndex, NoId, NoId, NoId, {}))
    BY <1>1 DEF Write
  <2>2. changes \in Seq(LoggedChange) /\ Len(changes) <= ChangesKept BY <1>1 DEF StoreShape
  <2>3. Evicted \in Int /\ NoId \in Int BY <1>2, StoreConstants DEF Evicted
  <2>4. Contains(Evicted) => stored[Evicted].previous \in Int /\ stored[Evicted].next \in Int
    BY <1>1, InRing DEF Contains, Id, NoId
  <2>5. Change(nextIndex, NoId, NoId, NoId, {}) \in LoggedChange
    BY <1>2, <1>5, <2>3, ChangeFacts
  <2>6. Contains(Evicted) =>
          Change(nextIndex, Evicted, stored[Evicted].previous, stored[Evicted].next, {})
            \in LoggedChange
    BY <1>2, <1>5, <2>3, <2>4, ChangeFacts
  <2>7. (IF Contains(Evicted)
           THEN Change(nextIndex, Evicted, stored[Evicted].previous, stored[Evicted].next, {})
           ELSE Change(nextIndex, NoId, NoId, NoId, {})) \in LoggedChange
    BY <2>5, <2>6
  <2> QED BY <2>1, <2>2, <2>7, LogFacts
<1>8. offered' \subseteq Recorded BY <1>1 DEF StoreShape
<1>9. /\ episodeSteps' \in [Episode -> [0 .. 9 -> Id]]
      /\ terminalStep' \in [Episode -> Nat \cup {NoId}]
  BY StepsAfterWrite
<1>10. nextIndex' \in Nat /\ storeRevision' \in Nat BY <1>2, <1>5
<1> QED BY <1>3, <1>4, <1>6, <1>7, <1>8, <1>9, <1>10 DEF StoreShape

\* A write keeps the episode index in step with the ring.
LEMMA WriteSteps ==
  ASSUME StoreInv, NEW t, NEW pace, AnyWrite(t, pace)
  PROVE  StepsInv'
<1>1. StoreShape /\ StepsInv /\ t \in Recorded BY DEF StoreInv, AnyWrite
<1>2. t = <<t[1], t[2]>> BY <1>1, RecordedIs
<1>3. /\ nextIndex' = nextIndex + 1 /\ nextIndex \in Nat /\ NoId = -1
      /\ DOMAIN stored' = DOMAIN Kept \cup {nextIndex} /\ DOMAIN Kept \subseteq DOMAIN stored
      /\ stored'[nextIndex].transition = t /\ NoId \notin DOMAIN stored'
      /\ \A i \in DOMAIN Kept : stored'[i].transition = stored[i].transition
  BY RingAfter, StoreConstants DEF RingFacts
<1>4. ASSUME NEW x \in Episode, NEW s \in 0 .. 9
      PROVE  /\ episodeSteps'[x][s] < nextIndex'
             /\ episodeSteps'[x][s] \in DOMAIN stored' =>
                  stored'[episodeSteps'[x][s]].transition = <<x, s>>
  <2>1. /\ episodeSteps[x][s] \in Id /\ episodeSteps[x][s] < nextIndex
        /\ episodeSteps[x][s] \in DOMAIN stored => stored[episodeSteps[x][s]].transition = <<x, s>>
    BY <1>1 DEF StoreShape, StepsInv, Contains
  <2>2. CASE episodeSteps'[x][s] = NoId BY <1>3, <2>2
  <2>3. CASE episodeSteps'[x][s] = episodeSteps[x][s]
    <3>1. episodeSteps[x][s] \in Int BY <2>1 DEF Id, NoId
    <3>2. episodeSteps[x][s] # nextIndex BY <1>3, <2>1, <3>1
    <3> QED BY <1>3, <2>1, <2>3, <3>1, <3>2
  <2>4. CASE x = t[1] /\ s = t[2] /\ episodeSteps'[x][s] = nextIndex
    BY <1>2, <1>3, <2>4
  <2> QED BY <2>2, <2>3, <2>4, StepsAfterWrite
<1>5. \A x \in Episode : terminalStep'[x] \in {NoId, LastStep[x]}
  BY <1>1, StepsAfterWrite DEF StepsInv
<1> QED BY <1>4, <1>5 DEF StepsInv, Contains

\* A write stores nothing twice, and what it displaces is held until it is appended again.
LEMMA WriteOnce ==
  ASSUME StoreInv, NEW t, NEW pace, AnyWrite(t, pace)
  PROVE  OnceInv'
<1>1. /\ StoreShape /\ OnceInv /\ t \in Recorded /\ Fresh(t) /\ Write(t, pace)
      /\ offered' = offered \cup {t} /\ (displaced = Nothing \/ displaced.transition = t)
  BY DEF StoreInv, AnyWrite
<1>2. t = <<t[1], t[2]>> BY <1>1, RecordedIs
<1>3. /\ DOMAIN stored' = DOMAIN Kept \cup {nextIndex} /\ DOMAIN Kept = DOMAIN stored \ {Evicted}
      /\ stored'[nextIndex].transition = t
      /\ \A i \in DOMAIN Kept : stored'[i].transition = stored[i].transition
  BY RingAfter DEF RingFacts
<1>4. displaced' = IF Contains(Evicted) /\ IsDemo(Evicted)
                     THEN [transition |-> stored[Evicted].transition, pace |-> stored[Evicted].pace]
                     ELSE Nothing
  BY <1>1, WriteIs DEF Displaced
<1>5. ASSUME NEW i \in DOMAIN stored', NEW j \in DOMAIN stored',
             stored'[i].transition = stored'[j].transition
      PROVE  i = j
  BY <1>1, <1>3, <1>5 DEF OnceInv, Fresh
<1>6. \A i \in DOMAIN stored' : stored'[i].transition \in offered'
  BY <1>1, <1>3 DEF OnceInv
<1>7. ASSUME displaced' # Nothing
      PROVE  /\ displaced'.transition \in offered'
             /\ \A i \in DOMAIN stored' : stored'[i].transition # displaced'.transition
  <2>1. Evicted \in DOMAIN stored /\ displaced'.transition = stored[Evicted].transition
    BY <1>4, <1>7 DEF Contains
  <2> QED BY <1>1, <1>3, <2>1 DEF OnceInv, Fresh
<1>8. ASSUME NEW u \in offered' \cap Demo
      PROVE  displaced'.transition = u \/ \E i \in DOMAIN stored' : stored'[i].transition = u
  <2>1. CASE u = t BY <1>3, <2>1
  <2>2. CASE u # t
    <3>1. u \in offered \cap Demo BY <1>1, <2>2
    <3>2. u \in Recorded BY <3>1, <1>1 DEF StoreShape
    <3>3. u = <<u[1], u[2]>> BY <3>2, RecordedIs
    <3>4. Nothing.transition # u BY <3>3 DEF Nothing
    <3>5. displaced.transition # u BY <1>1, <2>2, <3>4
    <3>6. PICK i \in DOMAIN stored : stored[i].transition = u BY <1>1, <3>1, <3>5 DEF OnceInv
    <3>7. CASE i \in DOMAIN Kept BY <1>3, <3>6, <3>7
    <3>8. CASE i = Evicted
      <4>1. Contains(Evicted) /\ IsDemo(Evicted) BY <3>1, <3>6, <3>8 DEF Contains, IsDemo
      <4> QED BY <1>4, <3>6, <3>8, <4>1
    <3> QED BY <1>3, <3>7, <3>8
  <2> QED BY <2>1, <2>2
<1> QED BY <1>5, <1>6, <1>7, <1>8 DEF OnceInv

\* An episode is closed when all its steps have arrived.
LEMMA CompleteArrived ==
  ASSUME StoreInv, NEW t, NEW pace, AnyWrite(t, pace), Complete1(t, pace)
  PROVE  \A s \in 0 .. LastStep[t[1]] : <<t[1], s>> \in offered'
<1>1. /\ StoreShape /\ StepsInv /\ OnceInv /\ t \in Recorded /\ Write(t, pace)
      /\ offered' = offered \cup {t}
  BY DEF StoreInv, AnyWrite
<1>2. /\ t = <<t[1], t[2]>> /\ t[1] \in Episode /\ t[2] \in 0 .. 9 /\ LastStep[t[1]] \in 0 .. 8
  BY <1>1, RecordedIs
<1>3. /\ DOMAIN stored' = DOMAIN Kept \cup {nextIndex} /\ DOMAIN Kept \subseteq DOMAIN stored
      /\ NoId \notin DOMAIN stored' /\ nextIndex \in Nat
  BY RingAfter, StoreConstants
<1>4. Last1(t) # NoId /\ \A s \in 0 .. Last1(t) : Steps1(t)[s] \in DOMAIN stored'
  BY <1>1, WriteIs DEF Complete1, Completed
<1>5. Last1(t) = LastStep[t[1]]
  BY <1>1, <1>2, <1>4 DEF Last1, Ends, StepsInv
<1>6. ASSUME NEW s \in 0 .. LastStep[t[1]] PROVE <<t[1], s>> \in offered'
  <2>1. s \in 0 .. 9 /\ Steps1(t)[s] \in DOMAIN stored' BY <1>2, <1>4, <1>5
  <2>2. CASE s = t[2] BY <1>1, <1>2, <2>2
  <2>3. CASE s # t[2]
    <3>1. episodeSteps[t[1]] \in [0 .. 9 -> Id] BY <1>1, <1>2 DEF StoreShape
    <3>2. Steps1(t)[s] \in {NoId, episodeSteps[t[1]][s]}
      BY <1>2, <2>1, <2>3, <3>1 DEF Steps1, NoSteps
    <3>3. Steps1(t)[s] = episodeSteps[t[1]][s] BY <1>3, <2>1, <3>2
    <3>4. episodeSteps[t[1]][s] < nextIndex /\ episodeSteps[t[1]][s] \in Id
      BY <1>1, <1>2, <2>1, <3>1 DEF StepsInv
    <3>5. episodeSteps[t[1]][s] \in DOMAIN stored BY <1>3, <2>1, <3>3, <3>4
    <3>6. stored[episodeSteps[t[1]][s]].transition = <<t[1], s>>
      BY <1>1, <1>2, <2>1, <3>5 DEF StepsInv, Contains
    <3> QED BY <1>1, <3>5, <3>6 DEF OnceInv
  <2> QED BY <2>2, <2>3
<1> QED BY <1>6

\* A write leaves every online step indexed unless its episode has arrived.
LEMMA WriteClosed ==
  ASSUME StoreInv, NEW t, NEW pace, AnyWrite(t, pace)
  PROVE  ClosedInv'
<1>1. /\ StoreShape /\ ClosedInv /\ t \in Recorded /\ Fresh(t) /\ Write(t, pace)
      /\ offered' = offered \cup {t}
  BY DEF StoreInv, AnyWrite
<1>2. /\ t = <<t[1], t[2]>> /\ t[1] \in Episode /\ t[2] \in 0 .. 9
  BY <1>1, RecordedIs
<1>3. /\ DOMAIN stored' = DOMAIN Kept \cup {nextIndex} /\ DOMAIN Kept \subseteq DOMAIN stored
      /\ stored'[nextIndex].transition = t
      /\ \A i \in DOMAIN Kept : stored'[i].transition = stored[i].transition
  BY RingAfter DEF RingFacts
<1> DEFINE c == Complete1(t, pace)
<1>4. episodeSteps' = [x \in Episode |->
              IF x = t[1] THEN (IF c THEN NoSteps ELSE Steps1(t))
              ELSE IF x \in Forgotten THEN NoSteps ELSE episodeSteps[x]]
  BY <1>1, WriteIs
<1>5. c => \A s \in 0 .. LastStep[t[1]] : <<t[1], s>> \in offered' BY CompleteArrived
<1> HIDE DEF c
<1>6. episodeSteps \in [Episode -> [0 .. 9 -> Id]] BY <1>1 DEF StoreShape
<1>7. NoSteps \in [0 .. 9 -> Id] BY DEF NoSteps, Id
<1> DEFINE Kept1(i) == LET u == stored'[i].transition
                       IN u \notin Demo =>
                            \/ episodeSteps'[u[1]][u[2]] = i
                            \/ \A s \in 0 .. LastStep[u[1]] : <<u[1], s>> \in offered'
<1>8. Kept1(nextIndex)
  <2>1. Steps1(t)[t[2]] = nextIndex BY <1>2, <1>6, <1>7 DEF Steps1
  <2>2. ~c => episodeSteps'[t[1]][t[2]] = nextIndex BY <1>2, <1>4, <2>1
  <2> QED BY <1>3, <1>5, <2>2
<1>9. ASSUME NEW i \in DOMAIN Kept PROVE Kept1(i)
  <2> DEFINE u == stored[i].transition
  <2>1. stored'[i].transition = u /\ u \in Recorded /\ u # t
    BY <1>1, <1>3, InRing DEF Fresh
  <2>2. u = <<u[1], u[2]>> /\ u[1] \in Episode /\ u[2] \in 0 .. 9 BY <2>1, RecordedIs
  <2>3. u[1] \notin Forgotten BY Forgets
  <2>4. u \notin Demo => \/ episodeSteps[u[1]][u[2]] = i
                         \/ \A s \in 0 .. LastStep[u[1]] : <<u[1], s>> \in offered
    BY <1>1, <1>3 DEF ClosedInv
  <2> HIDE DEF u
  <2>5. u[1] = t[1] => u[2] # t[2] BY <1>2, <2>1, <2>2
  <2>6. u[1] = t[1] => Steps1(t)[u[2]] = episodeSteps[u[1]][u[2]]
    BY <1>2, <1>6, <2>2, <2>3, <2>5 DEF Steps1
  <2>7. (u[1] = t[1] /\ c) \/ episodeSteps'[u[1]][u[2]] = episodeSteps[u[1]][u[2]]
    BY <1>4, <2>2, <2>3, <2>6
  <2>8. offered \subseteq offered' BY <1>1
  <2> QED BY <1>5, <2>1, <2>4, <2>7, <2>8
<1> HIDE DEF Kept1
<1>10. \A i \in DOMAIN stored' : Kept1(i) BY <1>3, <1>8, <1>9
<1> QED BY <1>10 DEF ClosedInv, Kept1

\* A write leaves every dropped observation in the successor that stands in for it.
LEMMA WriteOwn ==
  ASSUME StoreInv, NEW t, NEW pace, AnyWrite(t, pace)
  PROVE  OwnInv'
<1> DEFINE p == Before1(t)  n == After1(t, pace)  id == nextIndex
<1>1. StoreShape /\ OwnInv /\ t \in Recorded /\ pace \in Pace /\ Fresh(t)
  BY DEF StoreInv, AnyWrite
<1>2. RingFacts(stored', t, pace, p, n) BY RingAfter
<1>3. /\ nextIndex' = id + 1 /\ id \in Nat /\ DOMAIN stored' = DOMAIN Kept \cup {id}
      /\ DOMAIN stored' = Ring(id + 1) /\ DOMAIN Kept \subseteq DOMAIN stored
      /\ DOMAIN stored \subseteq Nat /\ id \notin DOMAIN stored /\ p \in Id /\ p < id
  BY RingAfter
<1>4. n \in Id /\ n < id BY <1>1, AfterIs
<1> HIDE DEF p, n
<1> DEFINE Owned(i) ==
             /\ stored'[i].next < nextIndex' /\ stored'[i].previous < nextIndex'
             /\ ~stored'[i].own =>
                  /\ stored'[i].next > i
                  /\ stored'[stored'[i].next].transition = NextObservation(stored'[i].transition)
<1>5. Owned(id) BY <1>2, <1>3, <1>4 DEF RingFacts, Id, NoId
<1>6. ASSUME NEW i \in DOMAIN Kept PROVE Owned(i)
  <2>1. /\ i \in Nat /\ i < id /\ stored[i].next \in Id /\ stored[i].previous \in Id
        /\ stored[i].next < id /\ stored[i].previous < id
        /\ ~stored[i].own =>
             /\ stored[i].next > i
             /\ stored[stored[i].next].transition = NextObservation(stored[i].transition)
    <3>1. i \in DOMAIN stored /\ DOMAIN stored = Ring(id) BY <1>1, <1>3, InRing
    <3>2. i < id BY <1>3, <3>1 DEF Ring
    <3> QED BY <1>1, <1>3, <3>1, <3>2, InRing DEF OwnInv
  <2>2. /\ stored'[i].transition = stored[i].transition
        /\ stored'[i].next = IF i = p THEN id ELSE stored[i].next
        /\ stored'[i].previous = IF i = n THEN id ELSE stored[i].previous
        /\ i # p => stored'[i].own = stored[i].own
        /\ i = p /\ ~stored'[i].own => NextObservation(stored[i].transition) = t
        /\ stored'[id].transition = t
    BY <1>2 DEF RingFacts
  <2>3. stored'[i].next < nextIndex' /\ stored'[i].previous < nextIndex'
    BY <1>3, <2>1, <2>2 DEF Id, NoId
  <2>4. CASE i = p BY <1>3, <2>1, <2>2, <2>3, <2>4
  <2>5. ASSUME i # p, ~stored'[i].own
        PROVE  /\ stored'[i].next > i
               /\ stored'[stored'[i].next].transition = NextObservation(stored'[i].transition)
    <3> DEFINE m == stored[i].next
    <3>1. /\ m > i /\ m < id /\ m \in Nat /\ stored'[i].next = m
          /\ stored[m].transition = NextObservation(stored[i].transition)
      BY <2>1, <2>2, <2>5 DEF Id, NoId
    <3> HIDE DEF m
    <3>2. i \in Ring(id + 1) /\ id + 1 \in Nat /\ m < id + 1 BY <1>3, <3>1
    <3>3. m \in Ring(id + 1) BY <2>1, <3>1, <3>2, RingMoves
    <3>4. m \in DOMAIN Kept BY <1>3, <3>1, <3>3
    <3>5. stored'[m].transition = stored[m].transition BY <1>2, <3>4 DEF RingFacts
    <3> QED BY <2>2, <3>1, <3>5
  <2> QED BY <2>3, <2>4, <2>5
<1> HIDE DEF Owned
<1>7. \A i \in DOMAIN stored' : Owned(i) BY <1>3, <1>5, <1>6
<1> QED BY <1>7 DEF OwnInv, Owned

\* A write keeps links in both directions, between consecutive steps.
LEMMA WriteJoins ==
  ASSUME StoreInv, NEW t, NEW pace, AnyWrite(t, pace)
  PROVE  LinksJoinNeighbours'
<1> DEFINE p == Before1(t)  n == After1(t, pace)  id == nextIndex
<1>1. /\ StoreShape /\ OwnInv /\ LinksJoinNeighbours /\ t \in Recorded /\ pace \in Pace
      /\ Fresh(t)
  BY DEF StoreInv, AnyWrite
<1>2. RingFacts(stored', t, pace, p, n) BY RingAfter
<1>3. /\ id \in Nat /\ DOMAIN stored' = DOMAIN Kept \cup {id}
      /\ DOMAIN Kept \subseteq DOMAIN stored
      /\ DOMAIN stored \subseteq Nat /\ id \notin DOMAIN stored /\ p \in Id /\ p < id
  BY RingAfter
<1>4. /\ n \in Id /\ n < id
      /\ n \in DOMAIN Kept => stored[n].transition = <<t[1], t[2] + 1>>
      /\ n \in DOMAIN Kept => stored[n].previous \notin DOMAIN stored
  BY <1>1, AfterIs DEF Contains
<1>5. p \in DOMAIN stored => /\ stored[p].transition = <<t[1], t[2] - 1>>
                             /\ stored[p].next \notin DOMAIN stored
  BY <1>1, BeforeIs DEF Contains
<1>6. t = <<t[1], t[2]>> /\ t[2] \in Nat BY <1>1, RecordedIs
<1>7. /\ stored'[id].transition = t /\ stored'[id].previous = p /\ stored'[id].next = n
      /\ \A i \in DOMAIN Kept :
         /\ stored'[i].transition = stored[i].transition
         /\ stored'[i].next = IF i = p THEN id ELSE stored[i].next
         /\ stored'[i].previous = IF i = n THEN id ELSE stored[i].previous
  BY <1>2 DEF RingFacts
<1>8. \A i \in DOMAIN stored :
        /\ stored[i].next # id /\ stored[i].previous # id
        /\ stored[i].next \in DOMAIN stored =>
             /\ stored[stored[i].next].previous = i
             /\ stored[stored[i].next].transition
                  = <<stored[i].transition[1], stored[i].transition[2] + 1>>
        /\ stored[i].previous \in DOMAIN stored => stored[stored[i].previous].next = i
  <2>1. ASSUME NEW i \in DOMAIN stored
        PROVE  stored[i].next # id /\ stored[i].previous # id
    <3>1. stored[i].next \in Id /\ stored[i].previous \in Id BY <1>1, InRing
    <3>2. stored[i].next < id /\ stored[i].previous < id BY <1>1 DEF OwnInv
    <3> QED BY <1>3, <3>1, <3>2 DEF Id, NoId
  <2> QED BY <1>1, <2>1 DEF LinksJoinNeighbours, Contains
<1> HIDE DEF p, n
<1>9. p # id /\ n # id BY <1>3, <1>4 DEF Id, NoId
<1> DEFINE succ(u) == <<u[1], u[2] + 1>>
<1>10. ASSUME NEW i \in DOMAIN stored', stored'[i].next \in DOMAIN stored'
       PROVE  /\ stored'[stored'[i].next].previous = i
              /\ stored'[stored'[i].next].transition = succ(stored'[i].transition)
  <2>1. CASE i = id
    <3>1. n \in DOMAIN Kept BY <1>3, <1>7, <1>9, <1>10, <2>1
    <3> QED BY <1>4, <1>7, <2>1, <3>1
  <2>2. CASE i \in DOMAIN Kept /\ i = p
    <3>1. stored'[i].next = id /\ stored'[id].previous = i BY <1>7, <2>2
    <3>2. stored'[i].transition = <<t[1], t[2] - 1>> BY <1>3, <1>5, <1>7, <2>2
    <3>3. t[2] - 1 + 1 = t[2] BY <1>6
    <3> QED BY <1>6, <1>7, <3>1, <3>2, <3>3
  <2>3. CASE i \in DOMAIN Kept /\ i # p
    <3> DEFINE m == stored[i].next
    <3>1. stored'[i].next = m /\ m # id /\ m \in DOMAIN Kept
      BY <1>3, <1>7, <1>8, <1>10, <2>3
    <3>2. stored[m].previous = i /\ stored[m].transition = succ(stored[i].transition)
      BY <1>3, <1>8, <2>3, <3>1
    <3>3. m # n BY <1>3, <1>4, <2>3, <3>1, <3>2
    <3> HIDE DEF m
    <3> QED BY <1>7, <2>3, <3>1, <3>2, <3>3
  <2> QED BY <1>3, <2>1, <2>2, <2>3
<1>11. ASSUME NEW i \in DOMAIN stored', stored'[i].previous \in DOMAIN stored'
       PROVE  stored'[stored'[i].previous].next = i
  <2>1. CASE i = id
    <3>1. p \in DOMAIN Kept BY <1>3, <1>7, <1>9, <1>11, <2>1
    <3> QED BY <1>7, <2>1, <3>1
  <2>2. CASE i \in DOMAIN Kept /\ i = n
    BY <1>7, <2>2
  <2>3. CASE i \in DOMAIN Kept /\ i # n
    <3> DEFINE m == stored[i].previous
    <3>1. stored'[i].previous = m /\ m # id /\ m \in DOMAIN Kept
      BY <1>3, <1>7, <1>8, <1>11, <2>3
    <3>2. stored[m].next = i BY <1>3, <1>8, <2>3, <3>1
    <3>3. m # p BY <1>3, <1>5, <2>3, <3>1, <3>2
    <3> HIDE DEF m
    <3> QED BY <1>7, <2>3, <3>1, <3>2, <3>3
  <2> QED BY <1>3, <2>1, <2>2, <2>3
<1> QED BY <1>10, <1>11 DEF LinksJoinNeighbours, Contains

\* A write keeps consecutive online steps linked.
LEMMA WriteNeighbours ==
  ASSUME StoreInv, NEW t, NEW pace, AnyWrite(t, pace)
  PROVE  NeighboursAreLinked'
<1> DEFINE p == Before1(t)  n == After1(t, pace)  id == nextIndex
<1>1. /\ StoreShape /\ StepsInv /\ OnceInv /\ ClosedInv /\ NeighboursAreLinked
      /\ t \in Recorded /\ pace \in Pace
      /\ Fresh(t) /\ (t \in Demo \/ t \notin offered)
  BY DEF StoreInv, AnyWrite
<1>2. RingFacts(stored', t, pace, p, n) BY RingAfter
<1>3. /\ id \in Nat /\ DOMAIN stored' = DOMAIN Kept \cup {id}
      /\ DOMAIN Kept \subseteq DOMAIN stored
      /\ DOMAIN stored \subseteq Nat /\ id \notin DOMAIN stored
  BY RingAfter
<1>4. p \in DOMAIN stored => stored[p].next \notin DOMAIN stored
  BY <1>1, BeforeIs DEF Contains
<1>5. /\ t = <<t[1], t[2]>> /\ t[1] \in Episode /\ t[2] \in 0 .. 9 /\ t[2] + 1 \in 0 .. 9
      /\ t[2] \in 0 .. LastStep[t[1]] /\ LastStep[t[1]] \in 0 .. 8
  BY <1>1, RecordedIs
<1>6. /\ stored'[id].transition = t /\ stored'[id].next = n
      /\ \A i \in DOMAIN Kept :
         /\ stored'[i].transition = stored[i].transition
         /\ stored'[i].next = IF i = p THEN id ELSE stored[i].next
  BY <1>2 DEF RingFacts
<1> DEFINE succ(u) == <<u[1], u[2] + 1>>
<1>7. ASSUME NEW a \in DOMAIN stored', NEW b \in DOMAIN stored',
             stored'[a].transition \notin Demo, stored'[b].transition \notin Demo,
             stored'[b].transition = succ(stored'[a].transition)
      PROVE  stored'[a].next = b
  \* An online step of t's episode is indexed: t itself has not arrived before.
  <2>1. ASSUME NEW i \in DOMAIN Kept, NEW s \in 0 .. 9, stored[i].transition = <<t[1], s>>,
               stored[i].transition \notin Demo, t \notin Demo
        PROVE  episodeSteps[t[1]][s] = i /\ t[1] \notin Forgotten
    <3>1. t \notin offered BY <1>1, <2>1
    <3>2. ~(\A x \in 0 .. LastStep[t[1]] : <<t[1], x>> \in offered) BY <1>5, <3>1
    <3>3. \/ episodeSteps[stored[i].transition[1]][stored[i].transition[2]] = i
          \/ \A x \in 0 .. LastStep[stored[i].transition[1]] :
               <<stored[i].transition[1], x>> \in offered
      BY <1>1, <1>3, <2>1 DEF ClosedInv
    <3>4. stored[i].transition[1] = t[1] /\ stored[i].transition[2] = s BY <2>1
    <3>5. episodeSteps[t[1]][s] = i BY <3>2, <3>3, <3>4
    <3>6. t[1] \notin Forgotten BY <3>4, Forgets
    <3> QED BY <3>5, <3>6
  <2>2. CASE a = id /\ b = id
    <3>1. t[2] + 1 = t[2] BY <1>6, <1>7, <2>2
    <3> QED BY <1>5, <3>1
  <2>3. CASE a = id /\ b \in DOMAIN Kept
    <3>1. /\ stored[b].transition = <<t[1], t[2] + 1>> /\ t \notin Demo
          /\ stored[b].transition \notin Demo
      BY <1>6, <1>7, <2>3
    <3>2. episodeSteps[t[1]][t[2] + 1] = b /\ t[1] \notin Forgotten BY <1>5, <2>1, <2>3, <3>1
    <3>3. episodeSteps[t[1]] \in [0 .. 9 -> Id] BY <1>1, <1>5 DEF StoreShape
    <3>4. Steps1(t)[t[2] + 1] = b BY <1>5, <3>2, <3>3 DEF Steps1
    <3>5. b \in DOMAIN Written(t, pace) BY <2>3 DEF Written
    <3>6. n = b BY <1>5, <3>4, <3>5 DEF After1, StepId
    <3> QED BY <1>6, <2>3, <3>6
  <2>4. CASE a \in DOMAIN Kept /\ b = id
    <3> DEFINE u == stored[a].transition
    <3>1. t = succ(u) /\ t \notin Demo /\ u \notin Demo /\ u \in Recorded
      BY <1>1, <1>3, <1>6, <1>7, <2>4, InRing
    <3>2. u = <<u[1], u[2]>> /\ u[2] \in 0 .. 9 BY <3>1, RecordedIs
    <3> HIDE DEF u
    <3>3. u[1] = t[1] /\ u[2] = t[2] - 1 /\ t[2] - 1 >= 0 BY <3>1, <3>2
    <3>4. episodeSteps[t[1]][t[2] - 1] = a BY <2>1, <2>4, <3>1, <3>2, <3>3 DEF u
    <3>5. p = a BY <1>3, <2>4, <3>3, <3>4 DEF Before1, StepId
    <3> QED BY <1>6, <2>4, <3>5
  <2>5. CASE a \in DOMAIN Kept /\ b \in DOMAIN Kept
    <3>1. stored[a].next = b
      <4>1. /\ stored[a].transition \notin Demo /\ stored[b].transition \notin Demo
            /\ stored[b].transition = succ(stored[a].transition)
        BY <1>6, <1>7, <2>5
      <4>2. a \in DOMAIN stored /\ b \in DOMAIN stored BY <1>3, <2>5
      <4> QED BY <1>1, <4>1, <4>2 DEF NeighboursAreLinked
    <3>2. a # p BY <1>3, <1>4, <2>5, <3>1
    <3> QED BY <1>6, <2>5, <3>1, <3>2
  <2> QED BY <1>3, <2>2, <2>3, <2>4, <2>5
<1> QED BY <1>7 DEF NeighboursAreLinked

\* A write keeps the invariant.
LEMMA WriteKeeps ==
  ASSUME StoreInv, NEW t, NEW pace, AnyWrite(t, pace)
  PROVE  StoreInv'
BY WriteShape, WriteSteps, WriteOnce, WriteClosed, WriteOwn, WriteJoins, WriteNeighbours
   DEF StoreInv

\* An empty store satisfies the invariant.
LEMMA StoreStarts == StoreInit => StoreInv
<1> SUFFICES ASSUME StoreInit PROVE StoreInv OBVIOUS
<1>1. /\ DOMAIN stored = {} /\ stored = <<>> /\ nextIndex = 0 /\ displaced = Nothing
      /\ episodeSteps = [e \in Episode |-> NoSteps] /\ terminalStep = [e \in Episode |-> NoId]
      /\ episodePace = [e \in Episode |-> "unknown"] /\ storeRevision = 0 /\ changes = <<>>
      /\ offered = {}
  BY DEF StoreInit
<1>2. Ring(0) = {} BY RingMoves
<1>3. stored \in [Ring(0) -> StoredEntry] BY <1>1, <1>2
<1>4. NoSteps \in [0 .. 9 -> Id] /\ \A s \in 0 .. 9 : NoSteps[s] = NoId BY DEF NoSteps, Id
<1>5. ChangesKept \in Nat \ {0} BY StoreConstants
<1>6. changes \in Seq(LoggedChange) /\ Len(changes) = 0 BY <1>1
<1>7. StoreShape
  BY <1>1, <1>3, <1>4, <1>5, <1>6 DEF StoreShape, Ring, Pace
<1>8. StepsInv BY <1>1, <1>4 DEF StepsInv, Contains, NoId
<1>9. OnceInv /\ ClosedInv /\ OwnInv /\ LinksJoinNeighbours /\ NeighboursAreLinked
  BY <1>1 DEF OnceInv, ClosedInv, OwnInv, LinksJoinNeighbours, NeighboursAreLinked
<1> QED BY <1>7, <1>8, <1>9 DEF StoreInv

\* Appending a transition keeps it.
LEMMA AppendKeeps ==
  ASSUME StoreInv, NEW t \in Recorded, AppendTransition(t)
  PROVE  StoreInv'
<1>1. OnceInv BY DEF StoreInv
<1>2. Fresh(t) BY <1>1 DEF Fresh, OnceInv, AppendTransition
<1>3. Projected(t) \in Pace BY DEF Projected, Pace, Label
<1>4. AnyWrite(t, Projected(t)) BY <1>2, <1>3 DEF AnyWrite, AppendTransition, Projected
<1> QED BY <1>4, WriteKeeps

\* Appending the displaced demonstration again keeps it.
LEMMA ReappendKeeps ==
  ASSUME StoreInv, Reappend
  PROVE  StoreInv'
<1>1. StoreShape /\ OnceInv BY DEF StoreInv
<1>2. displaced \in [transition : Demo, pace : Pace] BY <1>1 DEF StoreShape, Reappend
<1>3. displaced.transition \in Demo /\ displaced.pace \in Pace BY <1>2
<1>4. displaced.transition \in Recorded BY <1>3, StoreConstants
<1>5. displaced.transition \in offered /\ Fresh(displaced.transition)
  BY <1>1 DEF OnceInv, Reappend, Fresh
<1>6. AnyWrite(displaced.transition, displaced.pace)
  BY <1>3, <1>4, <1>5 DEF AnyWrite, Reappend
<1> QED BY <1>6, WriteKeeps

\* Steps that leave transitions and links as they are.
LEMMA SameLinks ==
  ASSUME StoreInv, DOMAIN stored' = DOMAIN stored, UNCHANGED <<nextIndex, displaced, offered>>,
         \A i \in DOMAIN stored :
            /\ stored'[i].transition = stored[i].transition /\ stored'[i].next = stored[i].next
            /\ stored'[i].previous = stored[i].previous /\ stored'[i].own = stored[i].own
  PROVE  OnceInv' /\ OwnInv' /\ LinksJoinNeighbours' /\ NeighboursAreLinked'
<1>1. StoreShape /\ OnceInv /\ OwnInv /\ LinksJoinNeighbours /\ NeighboursAreLinked
  BY DEF StoreInv
<1>2. OnceInv' BY <1>1 DEF OnceInv
<1>3. OwnInv'
  <2>1. ASSUME NEW i \in DOMAIN stored, ~stored[i].own PROVE stored[i].next \in DOMAIN stored
    <3>1. /\ i \in Nat /\ i \in Ring(nextIndex) /\ nextIndex \in Nat /\ stored[i].next \in Id
          /\ stored[i].next > i /\ stored[i].next < nextIndex /\ DOMAIN stored = Ring(nextIndex)
      BY <1>1, <2>1, InRing DEF OwnInv
    <3>2. stored[i].next \in Nat BY <3>1 DEF Id, NoId
    <3> QED BY <3>1, <3>2, RingMoves
  <2> QED BY <1>1, <2>1 DEF OwnInv
<1>4. LinksJoinNeighbours' BY <1>1 DEF LinksJoinNeighbours, Contains
<1>5. NeighboursAreLinked' BY <1>1 DEF NeighboursAreLinked
<1> QED BY <1>2, <1>3, <1>4, <1>5

\* Labelling an episode keeps it: links do not depend on the pace.
LEMMA LabelKeeps ==
  ASSUME StoreInv, NEW e \in Episode, NEW p \in Label, LabelEpisode(e, p)
  PROVE  StoreInv'
<1> DEFINE changed == {id \in DOMAIN stored : stored[id].transition[1] = e /\ stored[id].pace # p}
<1>1. StoreShape /\ StepsInv /\ ClosedInv BY DEF StoreInv
<1>2. /\ episodePace' = [episodePace EXCEPT ![e] = p]
      /\ stored' = [id \in DOMAIN stored |->
              IF id \in changed THEN [stored[id] EXCEPT !.pace = p] ELSE stored[id]]
      /\ \/ UNCHANGED <<storeRevision, changes>>
         \/ /\ storeRevision' = storeRevision + 1
            /\ changes' = Logged(changes, Change(NoId, NoId, NoId, NoId, changed))
      /\ UNCHANGED <<nextIndex, displaced, episodeSteps, terminalStep, offered>>
  BY DEF LabelEpisode
<1>3. changed \subseteq Int BY <1>1, InRing
<1> HIDE DEF changed
<1>4. ASSUME NEW i \in DOMAIN stored
      PROVE  /\ stored'[i] \in StoredEntry
             /\ stored'[i].transition = stored[i].transition /\ stored'[i].next = stored[i].next
             /\ stored'[i].previous = stored[i].previous /\ stored'[i].own = stored[i].own
  <2>1. stored[i] \in StoredEntry BY <1>1, InRing
  <2>2. p \in Pace BY DEF Pace
  <2> QED BY <1>2, <2>1, <2>2 DEF StoredEntry
<1>5. DOMAIN stored' = DOMAIN stored BY <1>2
<1>6. OnceInv' /\ OwnInv' /\ LinksJoinNeighbours' /\ NeighboursAreLinked'
  BY <1>2, <1>4, <1>5, SameLinks
<1>7. StepsInv' BY <1>1, <1>2, <1>4, <1>5 DEF StepsInv, Contains
<1>8. ClosedInv' BY <1>1, <1>2, <1>4, <1>5 DEF ClosedInv
<1>9. StoreShape'
  <2>1. stored' \in [DOMAIN stored -> StoredEntry] BY <1>2, <1>4
  <2>2. DOMAIN stored = {id \in 0 .. nextIndex - 1 : id >= nextIndex - Capacity}
    BY <1>1 DEF StoreShape
  <2>3. episodePace' \in [Episode -> Pace] BY <1>1, <1>2 DEF StoreShape, Pace
  <2>4. /\ changes \in Seq(LoggedChange) /\ Len(changes) <= ChangesKept /\ storeRevision \in Nat
    BY <1>1 DEF StoreShape
  <2>5. Change(NoId, NoId, NoId, NoId, changed) \in LoggedChange
    BY <1>3, <2>4, StoreConstants, ChangeFacts
  <2>6. changes' \in Seq(LoggedChange) /\ Len(changes') <= ChangesKept /\ storeRevision' \in Nat
    BY <1>2, <2>4, <2>5, LogFacts
  <2> QED BY <1>1, <1>2, <2>1, <2>2, <2>3, <2>6 DEF StoreShape
<1> QED BY <1>6, <1>7, <1>8, <1>9 DEF StoreInv

\* The index rebuilt from the ring: each step in it, by its only id.
LEMMA RebuiltIs ==
  ASSUME StoreInv, NEW e \in Episode
  PROVE  /\ RebuiltSteps(e) \in [0 .. 9 -> Id] /\ RebuiltTerminal(e) \in {NoId, LastStep[e]}
         /\ \A s \in 0 .. 9 :
              \/ RebuiltSteps(e)[s] = NoId
              \/ /\ RebuiltSteps(e)[s] \in DOMAIN stored
                 /\ stored[RebuiltSteps(e)[s]].transition = <<e, s>>
         /\ \A i \in DOMAIN stored, s \in 0 .. 9 :
              stored[i].transition = <<e, s>> => RebuiltSteps(e)[s] = i
<1>1. StoreShape /\ OnceInv BY DEF StoreInv
<1>2. /\ \A i \in DOMAIN stored : i \in Nat
      /\ \A i, j \in DOMAIN stored : stored[i].transition = stored[j].transition => i = j
  BY <1>1, InRing DEF OnceInv
<1> DEFINE At(s) == {i \in DOMAIN stored : stored[i].transition = <<e, s>>}
           Found(s) == CHOOSE id \in DOMAIN stored :
             /\ stored[id].transition = <<e, s>>
             /\ \A other \in DOMAIN stored : stored[other].transition = <<e, s>> => other <= id
<1>3. ASSUME NEW s \in 0 .. 9, NEW i \in DOMAIN stored, stored[i].transition = <<e, s>>
      PROVE  Found(s) = i
  <2>1. \A other \in DOMAIN stored : stored[other].transition = <<e, s>> => other <= i
    BY <1>2, <1>3
  <2>2. /\ Found(s) \in DOMAIN stored /\ stored[Found(s)].transition = <<e, s>>
    BY <1>3, <2>1
  <2> HIDE DEF Found
  <2> QED BY <1>2, <1>3, <2>2
<1> HIDE DEF Found
<1>4. RebuiltSteps(e) = [s \in 0 .. 9 |->
        IF \E id \in DOMAIN stored : stored[id].transition = <<e, s>> THEN Found(s) ELSE NoId]
  BY DEF RebuiltSteps, Found
<1>5. ASSUME NEW s \in 0 .. 9
      PROVE  \/ /\ RebuiltSteps(e)[s] = NoId
                /\ ~\E id \in DOMAIN stored : stored[id].transition = <<e, s>>
             \/ /\ RebuiltSteps(e)[s] \in DOMAIN stored
                /\ stored[RebuiltSteps(e)[s]].transition = <<e, s>>
  BY <1>3, <1>4
<1>6. \A i \in DOMAIN stored, s \in 0 .. 9 :
        stored[i].transition = <<e, s>> => RebuiltSteps(e)[s] = i
  BY <1>3, <1>4
<1>7. \A s \in 0 .. 9 : RebuiltSteps(e)[s] \in Id BY <1>2, <1>5 DEF Id
<1>8. RebuiltSteps(e) \in [0 .. 9 -> Id] BY <1>4, <1>7
<1>9. RebuiltTerminal(e) \in {NoId, LastStep[e]} BY DEF RebuiltTerminal
<1> QED BY <1>5, <1>6, <1>8, <1>9

\* Restoring the columns and rebuilding the episode index keeps it.
LEMMA ReloadKeeps ==
  ASSUME StoreInv, Reload
  PROVE  StoreInv'
<1> DEFINE complete(e) == Completed(RebuiltSteps(e), RebuiltTerminal(e), stored)
<1>1. StoreShape /\ StepsInv /\ OnceInv /\ ClosedInv BY DEF StoreInv
<1>2. /\ episodeSteps' = [e \in Episode |-> IF complete(e) THEN NoSteps ELSE RebuiltSteps(e)]
      /\ terminalStep' = [e \in Episode |-> IF complete(e) THEN NoId ELSE RebuiltTerminal(e)]
      /\ storeRevision' = storeRevision + 1
      /\ changes' = <<>>
      /\ UNCHANGED <<stored, nextIndex, displaced, episodePace, offered>>
  BY DEF Reload
<1>3. ASSUME NEW e \in Episode, complete(e)
      PROVE  \A s \in 0 .. LastStep[e] : <<e, s>> \in offered
  <2>1. RebuiltTerminal(e) = LastStep[e] /\ LastStep[e] \in 0 .. 8
    BY <1>3, RebuiltIs, StoreConstants DEF Completed
  <2>2. \A s \in 0 .. LastStep[e] : RebuiltSteps(e)[s] \in DOMAIN stored
    BY <1>3, <2>1 DEF Completed
  <2>3. NoId \notin DOMAIN stored BY <1>1, InRing, StoreConstants
  <2>4. ASSUME NEW s \in 0 .. LastStep[e] PROVE <<e, s>> \in offered
    <3>1. s \in 0 .. 9 BY <2>1
    <3>2. stored[RebuiltSteps(e)[s]].transition = <<e, s>> BY <2>2, <2>3, <3>1, RebuiltIs
    <3> QED BY <1>1, <2>2, <3>2 DEF OnceInv
  <2> QED BY <2>4
<1> HIDE DEF complete
<1>4. NoSteps \in [0 .. 9 -> Id] /\ \A s \in 0 .. 9 : NoSteps[s] = NoId BY DEF NoSteps, Id
<1>5. OnceInv' /\ OwnInv' /\ LinksJoinNeighbours' /\ NeighboursAreLinked'
  BY <1>2, SameLinks
<1>6. StoreShape'
  <2>1. \A e \in Episode : RebuiltSteps(e) \in [0 .. 9 -> Id] /\ LastStep[e] \in Nat
    BY RebuiltIs, StoreConstants
  <2>2. episodeSteps' \in [Episode -> [0 .. 9 -> Id]] BY <1>2, <1>4, <2>1
  <2>3. \A e \in Episode : RebuiltTerminal(e) \in Nat \cup {NoId} BY <2>1, RebuiltIs
  <2>4. terminalStep' \in [Episode -> Nat \cup {NoId}] BY <1>2, <2>3
  <2>5. changes' \in Seq(LoggedChange) /\ Len(changes') = 0 BY <1>2
  <2>6. ChangesKept \in Nat \ {0} BY StoreConstants
  <2> QED BY <1>1, <1>2, <2>2, <2>4, <2>5, <2>6 DEF StoreShape
<1>7. StepsInv'
  <2>1. ASSUME NEW e \in Episode, NEW s \in 0 .. 9
        PROVE  /\ episodeSteps'[e][s] < nextIndex
               /\ episodeSteps'[e][s] \in DOMAIN stored =>
                    stored[episodeSteps'[e][s]].transition = <<e, s>>
    <3>1. \/ episodeSteps'[e][s] = NoId
          \/ /\ episodeSteps'[e][s] \in DOMAIN stored
             /\ stored[episodeSteps'[e][s]].transition = <<e, s>>
      BY <1>2, <1>4, RebuiltIs
    <3>2. nextIndex \in Nat /\ DOMAIN stored = Ring(nextIndex) /\ NoId = -1
      BY <1>1, InRing, StoreConstants
    <3>3. \A i \in Ring(nextIndex) : i < nextIndex BY <3>2 DEF Ring
    <3>4. NoId \notin DOMAIN stored /\ NoId < nextIndex BY <3>2, RingMoves
    <3> QED BY <3>1, <3>2, <3>3, <3>4
  <2>2. \A e \in Episode : terminalStep'[e] \in {NoId, LastStep[e]} BY <1>2, RebuiltIs
  <2> QED BY <1>2, <2>1, <2>2 DEF StepsInv, Contains
<1>8. ClosedInv'
  <2>1. ASSUME NEW i \in DOMAIN stored
        PROVE  LET t == stored[i].transition
               IN \/ episodeSteps'[t[1]][t[2]] = i
                  \/ \A s \in 0 .. LastStep[t[1]] : <<t[1], s>> \in offered
    <3> DEFINE t == stored[i].transition
    <3>1. t \in Recorded BY <1>1, InRing
    <3>2. t = <<t[1], t[2]>> /\ t[1] \in Episode /\ t[2] \in 0 .. 9 BY <3>1, RecordedIs
    <3>3. RebuiltSteps(t[1])[t[2]] = i BY <3>2, RebuiltIs
    <3> HIDE DEF t
    <3>4. complete(t[1]) \/ episodeSteps'[t[1]][t[2]] = i BY <1>2, <3>2, <3>3
    <3>5. \/ episodeSteps'[t[1]][t[2]] = i
          \/ \A s \in 0 .. LastStep[t[1]] : <<t[1], s>> \in offered
      BY <1>3, <3>2, <3>4
    <3> QED BY <3>5 DEF t
  <2> QED BY <1>2, <2>1 DEF ClosedInv
<1> QED BY <1>5, <1>6, <1>7, <1>8 DEF StoreInv

\* The ring, its links and the episode index are inductive.
THEOREM StoreInductive == StoreSpec => []StoreInv
<1>1. StoreInv /\ [StoreNext]_storeVars => StoreInv'
  <2> SUFFICES ASSUME StoreInv, [StoreNext]_storeVars PROVE StoreInv' OBVIOUS
  <2>1. ASSUME NEW t \in Recorded, AppendTransition(t) PROVE StoreInv' BY <2>1, AppendKeeps
  <2>2. CASE Reappend BY <2>2, ReappendKeeps
  <2>3. ASSUME NEW e \in Episode, NEW p \in Label, LabelEpisode(e, p) PROVE StoreInv'
    BY <2>3, LabelKeeps
  <2>4. CASE Reload BY <2>4, ReloadKeeps
  <2>5. CASE UNCHANGED storeVars
    <3>1. OnceInv' /\ OwnInv' /\ LinksJoinNeighbours' /\ NeighboursAreLinked'
      BY <2>5, SameLinks DEF storeVars
    <3>2. StoreShape' /\ StepsInv' /\ ClosedInv'
      BY <2>5 DEF storeVars, StoreInv, StoreShape, StepsInv, ClosedInv, Contains
    <3> QED BY <3>1, <3>2 DEF StoreInv
  <2> QED BY <2>1, <2>2, <2>3, <2>4, <2>5 DEF StoreNext, StoreStep
<1> QED BY <1>1, StoreStarts, PTL DEF StoreSpec

\* The store keeps the types of its variables.
LEMMA StoreTypes == StoreInv => StoreTypeOK
<1> SUFFICES ASSUME StoreInv PROVE StoreTypeOK OBVIOUS
<1>1. StoreShape BY DEF StoreInv
<1>2. \A id \in DOMAIN stored :
         /\ id \in Nat
         /\ stored[id].transition \in Recorded
         /\ stored[id].pace \in Pace /\ stored[id].own \in BOOLEAN
         /\ stored[id].previous \in Nat \cup {NoId}
         /\ stored[id].next \in Nat \cup {NoId}
  BY <1>1, InRing DEF Id
<1>3. DOMAIN stored = {id \in 0 .. nextIndex - 1 : id >= nextIndex - Capacity}
  BY <1>1 DEF StoreShape
<1>4. displaced = Nothing \/ displaced.transition \in Demo BY <1>1 DEF StoreShape
<1> QED BY <1>1, <1>2, <1>3, <1>4 DEF StoreTypeOK, StoreShape

\* What the invariant says of reading the next observation.
LEMMA ObservationsKept == StoreInv => NextObservationIsKept
<1> SUFFICES ASSUME StoreInv, NEW i \in DOMAIN stored
             PROVE  ReadNext(i) = NextObservation(stored[i].transition)
  BY DEF NextObservationIsKept
<1>1. StoreShape /\ OwnInv BY DEF StoreInv
<1>2. CASE stored[i].own BY <1>2 DEF ReadNext
<1>3. CASE ~stored[i].own
  <2>1. /\ i \in Nat /\ i \in Ring(nextIndex) /\ nextIndex \in Nat /\ stored[i].next \in Id
        /\ stored[i].next > i /\ stored[i].next < nextIndex /\ DOMAIN stored = Ring(nextIndex)
        /\ stored[stored[i].next].transition = NextObservation(stored[i].transition)
    BY <1>1, <1>3, InRing DEF OwnInv
  <2>2. stored[i].next \in Nat BY <2>1 DEF Id, NoId
  <2>3. Contains(stored[i].next) BY <2>1, <2>2, RingMoves DEF Contains
  <2> QED BY <1>3, <2>1, <2>3 DEF ReadNext
<1> QED BY <1>2, <1>3

\* What the invariant says of demonstrations.
LEMMA DemosKept == StoreInv => DemonstrationsAreKept
<1> SUFFICES ASSUME StoreInv PROVE DemonstrationsAreKept OBVIOUS
<1>1. StoreShape /\ OnceInv BY DEF StoreInv
<1> DEFINE D == DOMAIN stored  T == {stored[id].transition : id \in D}
           f == [id \in D |-> stored[id].transition]
<1>2. IsFiniteSet(D)
  <2>1. D \subseteq 0 .. nextIndex - 1 /\ nextIndex - 1 \in Int /\ 0 \in Int
    BY <1>1 DEF StoreShape
  <2> QED BY <2>1, FS_Interval, FS_Subset
<1>3. f \in Bijection(D, T)
  <2>1. f \in [D -> T] OBVIOUS
  <2>2. \A i, j \in D : f[i] = f[j] => i = j BY <1>1 DEF OnceInv
  <2>3. \A u \in T : \E i \in D : f[i] = u OBVIOUS
  <2> QED BY <2>1, <2>2, <2>3, Fun_IsBij
<1>4. ExistsBijection(D, T) BY <1>3 DEF ExistsBijection
<1>5. Cardinality(T) = Cardinality(D) BY <1>2, <1>4, FS_Bijection
<1>6. \A t \in offered \cap Demo :
         displaced.transition = t \/ \E id \in DOMAIN stored : stored[id].transition = t
  BY <1>1 DEF OnceInv
<1> QED BY <1>5, <1>6 DEF DemonstrationsAreKept

\* Neighbours stay linked in both directions and through evictions, a next observation can be
\* read as it was appended, and no demonstration is lost or stored twice, for any capacity and
\* any episodes whose steps arrive in any order (core/replay/store.py:92-170).
THEOREM StoreKeeps == StoreSpec => [](EpisodesStayLinked /\ DemonstrationsAreKept)
<1>1. StoreInv => EpisodesStayLinked /\ DemonstrationsAreKept
  BY ObservationsKept, DemosKept DEF StoreInv, EpisodesStayLinked
<1> QED BY <1>1, StoreInductive, PTL

-----------------------------------------------------------------------------
(* Chains of linked transitions.                                             *)
Fwd(id, k) == Ahead(id, k)[k]
Bwd(id, k) == Behind(id, k)[k]

\* The ids met along the links, one after the other.
LEMMA AheadIs ==
    ASSUME NEW id \in Int
    PROVE  /\ \A n \in Nat : DOMAIN Ahead(id, n) = 1 .. n
           /\ \A n \in Nat : \A k \in 1 .. n : Ahead(id, n)[k] = Fwd(id, k)
           /\ Fwd(id, 1) = id
           /\ \A k \in Nat \ {0} : Fwd(id, k + 1) = After(Fwd(id, k))
<1> DEFINE Body(h, n) == [k \in 1 .. n |-> IF k = 1 THEN id ELSE After(h[k - 1])]
           U == {n \in Nat : \E h : h = Body(h, n)}
<1>1. 0 \in U
  <2> DEFINE h == [k \in 1 .. 0 |-> id]
  <2>1. h = Body(h, 0) OBVIOUS
  <2> HIDE DEF h
  <2>2. \E h1 : h1 = Body(h1, 0) BY <2>1
  <2> HIDE DEF Body
  <2> QED BY <2>2
<1>2. ASSUME NEW n \in Nat, n \in U PROVE n + 1 \in U
  <2>1. PICK h : h = Body(h, n) BY <1>2
  <2>2. \A k \in 1 .. n : h[k] = IF k = 1 THEN id ELSE After(h[k - 1]) BY <2>1
  <2> DEFINE g == [k \in 1 .. n + 1 |-> IF k = n + 1 THEN (IF k = 1 THEN id ELSE After(h[n]))
                                       ELSE h[k]]
  <2>3. ASSUME NEW k \in 1 .. n + 1 PROVE g[k] = IF k = 1 THEN id ELSE After(g[k - 1])
    <3>1. CASE k = n + 1
      <4>1. g[k] = (IF k = 1 THEN id ELSE After(h[n])) BY <3>1
      <4>2. k # 1 => g[k - 1] = h[n] BY <3>1
      <4> HIDE DEF g
      <4> QED BY <4>1, <4>2
    <3>2. CASE k # n + 1
      <4>1. k \in 1 .. n /\ g[k] = h[k] BY <3>2
      <4>2. k # 1 => g[k - 1] = h[k - 1] BY <3>2
      <4> HIDE DEF g
      <4> QED BY <2>2, <4>1, <4>2
    <3> QED BY <3>1, <3>2
  <2>4. g = Body(g, n + 1) BY <2>3
  <2> HIDE DEF g
  <2>5. \E h1 : h1 = Body(h1, n + 1) BY <2>4
  <2> HIDE DEF Body
  <2> QED BY <2>5
<1>3. ASSUME NEW n \in Nat PROVE Ahead(id, n) = Body(Ahead(id, n), n)
  <2>1. n \in U
    <3> HIDE DEF U
    <3> QED BY <1>1, <1>2, SetInduction
  <2>2. \E h : h = Body(h, n) BY <2>1
  <2>3. Ahead(id, n) = CHOOSE h : h = Body(h, n) BY DEF Ahead
  <2> HIDE DEF Body
  <2> QED BY <2>2, <2>3
<1>4. ASSUME NEW n \in Nat
      PROVE  /\ DOMAIN Ahead(id, n) = 1 .. n
             /\ \A k \in 1 .. n :
                  Ahead(id, n)[k] = IF k = 1 THEN id ELSE After(Ahead(id, n)[k - 1])
  <2> DEFINE h == Ahead(id, n)
  <2>1. h = Body(h, n) BY <1>3
  <2> HIDE DEF h
  <2>2. /\ DOMAIN h = 1 .. n
        /\ \A k \in 1 .. n : h[k] = IF k = 1 THEN id ELSE After(h[k - 1])
    BY <2>1
  <2> QED BY <2>2 DEF h
<1> DEFINE V == {k \in Nat : k > 0 => \A n \in Nat : k <= n => Ahead(id, n)[k] = Fwd(id, k)}
<1>5. 0 \in V OBVIOUS
<1>6. ASSUME NEW k \in Nat, k \in V PROVE k + 1 \in V
  <2> SUFFICES ASSUME NEW n \in Nat, k + 1 <= n PROVE Ahead(id, n)[k + 1] = Fwd(id, k + 1)
    OBVIOUS
  <2>1. CASE k = 0
    <3>1. Ahead(id, n)[1] = id /\ Ahead(id, 1)[1] = id BY <1>4, <2>1
    <3> QED BY <2>1, <3>1 DEF Fwd
  <2>2. CASE k > 0
    <3>1. k + 1 \in 1 .. n /\ k + 1 # 1 /\ k + 1 - 1 = k /\ k + 1 \in 1 .. k + 1 /\ k + 1 \in Nat
      BY <2>2
    <3>2. Ahead(id, n)[k + 1] = After(Ahead(id, n)[k]) BY <1>4, <3>1
    <3>3. Ahead(id, k + 1)[k + 1] = After(Ahead(id, k + 1)[k]) BY <1>4, <3>1
    <3>4. Ahead(id, n)[k] = Fwd(id, k) /\ Ahead(id, k + 1)[k] = Fwd(id, k) BY <1>6, <2>2
    <3> QED BY <3>2, <3>3, <3>4 DEF Fwd
  <2> QED BY <2>1, <2>2
<1>7. ASSUME NEW n \in Nat, NEW k \in 1 .. n PROVE Ahead(id, n)[k] = Fwd(id, k)
  <2>1. k \in V
    <3> HIDE DEF V
    <3> QED BY <1>5, <1>6, SetInduction
  <2> QED BY <2>1
<1>8. Fwd(id, 1) = id BY <1>4 DEF Fwd
<1>9. ASSUME NEW k \in Nat \ {0} PROVE Fwd(id, k + 1) = After(Fwd(id, k))
  <2>1. k + 1 \in Nat /\ k + 1 \in 1 .. k + 1 /\ k + 1 # 1 /\ k + 1 - 1 = k /\ k \in 1 .. k + 1
    OBVIOUS
  <2>2. Ahead(id, k + 1)[k + 1] = After(Ahead(id, k + 1)[k]) BY <1>4, <2>1
  <2>3. Ahead(id, k + 1)[k] = Fwd(id, k) BY <1>7, <2>1
  <2> QED BY <2>2, <2>3 DEF Fwd
<1> QED BY <1>4, <1>7, <1>8, <1>9

\* And against them.
LEMMA BehindIs ==
    ASSUME NEW id \in Int
    PROVE  /\ \A n \in Nat : DOMAIN Behind(id, n) = 1 .. n
           /\ \A n \in Nat : \A k \in 1 .. n : Behind(id, n)[k] = Bwd(id, k)
           /\ Bwd(id, 1) = id
           /\ \A k \in Nat \ {0} : Bwd(id, k + 1) = Before(Bwd(id, k))
<1> DEFINE Body(h, n) == [k \in 1 .. n |-> IF k = 1 THEN id ELSE Before(h[k - 1])]
           U == {n \in Nat : \E h : h = Body(h, n)}
<1>1. 0 \in U
  <2> DEFINE h == [k \in 1 .. 0 |-> id]
  <2>1. h = Body(h, 0) OBVIOUS
  <2> HIDE DEF h
  <2>2. \E h1 : h1 = Body(h1, 0) BY <2>1
  <2> HIDE DEF Body
  <2> QED BY <2>2
<1>2. ASSUME NEW n \in Nat, n \in U PROVE n + 1 \in U
  <2>1. PICK h : h = Body(h, n) BY <1>2
  <2>2. \A k \in 1 .. n : h[k] = IF k = 1 THEN id ELSE Before(h[k - 1]) BY <2>1
  <2> DEFINE g == [k \in 1 .. n + 1 |-> IF k = n + 1 THEN (IF k = 1 THEN id ELSE Before(h[n]))
                                       ELSE h[k]]
  <2>3. ASSUME NEW k \in 1 .. n + 1 PROVE g[k] = IF k = 1 THEN id ELSE Before(g[k - 1])
    <3>1. CASE k = n + 1
      <4>1. g[k] = (IF k = 1 THEN id ELSE Before(h[n])) BY <3>1
      <4>2. k # 1 => g[k - 1] = h[n] BY <3>1
      <4> HIDE DEF g
      <4> QED BY <4>1, <4>2
    <3>2. CASE k # n + 1
      <4>1. k \in 1 .. n /\ g[k] = h[k] BY <3>2
      <4>2. k # 1 => g[k - 1] = h[k - 1] BY <3>2
      <4> HIDE DEF g
      <4> QED BY <2>2, <4>1, <4>2
    <3> QED BY <3>1, <3>2
  <2>4. g = Body(g, n + 1) BY <2>3
  <2> HIDE DEF g
  <2>5. \E h1 : h1 = Body(h1, n + 1) BY <2>4
  <2> HIDE DEF Body
  <2> QED BY <2>5
<1>3. ASSUME NEW n \in Nat PROVE Behind(id, n) = Body(Behind(id, n), n)
  <2>1. n \in U
    <3> HIDE DEF U
    <3> QED BY <1>1, <1>2, SetInduction
  <2>2. \E h : h = Body(h, n) BY <2>1
  <2>3. Behind(id, n) = CHOOSE h : h = Body(h, n) BY DEF Behind
  <2> HIDE DEF Body
  <2> QED BY <2>2, <2>3
<1>4. ASSUME NEW n \in Nat
      PROVE  /\ DOMAIN Behind(id, n) = 1 .. n
             /\ \A k \in 1 .. n :
                  Behind(id, n)[k] = IF k = 1 THEN id ELSE Before(Behind(id, n)[k - 1])
  <2> DEFINE h == Behind(id, n)
  <2>1. h = Body(h, n) BY <1>3
  <2> HIDE DEF h
  <2>2. /\ DOMAIN h = 1 .. n
        /\ \A k \in 1 .. n : h[k] = IF k = 1 THEN id ELSE Before(h[k - 1])
    BY <2>1
  <2> QED BY <2>2 DEF h
<1> DEFINE V == {k \in Nat : k > 0 => \A n \in Nat : k <= n => Behind(id, n)[k] = Bwd(id, k)}
<1>5. 0 \in V OBVIOUS
<1>6. ASSUME NEW k \in Nat, k \in V PROVE k + 1 \in V
  <2> SUFFICES ASSUME NEW n \in Nat, k + 1 <= n PROVE Behind(id, n)[k + 1] = Bwd(id, k + 1)
    OBVIOUS
  <2>1. CASE k = 0
    <3>1. Behind(id, n)[1] = id /\ Behind(id, 1)[1] = id BY <1>4, <2>1
    <3> QED BY <2>1, <3>1 DEF Bwd
  <2>2. CASE k > 0
    <3>1. k + 1 \in 1 .. n /\ k + 1 # 1 /\ k + 1 - 1 = k /\ k + 1 \in 1 .. k + 1 /\ k + 1 \in Nat
      BY <2>2
    <3>2. Behind(id, n)[k + 1] = Before(Behind(id, n)[k]) BY <1>4, <3>1
    <3>3. Behind(id, k + 1)[k + 1] = Before(Behind(id, k + 1)[k]) BY <1>4, <3>1
    <3>4. Behind(id, n)[k] = Bwd(id, k) /\ Behind(id, k + 1)[k] = Bwd(id, k) BY <1>6, <2>2
    <3> QED BY <3>2, <3>3, <3>4 DEF Bwd
  <2> QED BY <2>1, <2>2
<1>7. ASSUME NEW n \in Nat, NEW k \in 1 .. n PROVE Behind(id, n)[k] = Bwd(id, k)
  <2>1. k \in V
    <3> HIDE DEF V
    <3> QED BY <1>5, <1>6, SetInduction
  <2> QED BY <2>1
<1>8. Bwd(id, 1) = id BY <1>4 DEF Bwd
<1>9. ASSUME NEW k \in Nat \ {0} PROVE Bwd(id, k + 1) = Before(Bwd(id, k))
  <2>1. k + 1 \in Nat /\ k + 1 \in 1 .. k + 1 /\ k + 1 # 1 /\ k + 1 - 1 = k /\ k \in 1 .. k + 1
    OBVIOUS
  <2>2. Behind(id, k + 1)[k + 1] = Before(Behind(id, k + 1)[k]) BY <1>4, <2>1
  <2>3. Behind(id, k + 1)[k] = Bwd(id, k) BY <1>7, <2>1
  <2> QED BY <2>2, <2>3 DEF Bwd
<1> QED BY <1>4, <1>7, <1>8, <1>9

\* One link ahead, and one behind.
LEMMA StepAhead ==
    ASSUME StoreInv, NEW i \in Int, Contains(After(i))
    PROVE  /\ Contains(i) /\ Before(After(i)) = i /\ ~Ends(stored[i].transition)
           /\ After(i) = stored[i].next
           /\ stored[After(i)].transition
                = <<stored[i].transition[1], stored[i].transition[2] + 1>>
<1>1. StoreShape /\ LinksJoinNeighbours BY DEF StoreInv
<1>2. NoId \notin DOMAIN stored BY <1>1, InRing, RingMoves
<1>3. Contains(i) /\ ~Ends(stored[i].transition) /\ After(i) = stored[i].next
  BY <1>2 DEF After, Contains
<1>4. /\ stored[stored[i].next].previous = i
      /\ stored[stored[i].next].transition
           = <<stored[i].transition[1], stored[i].transition[2] + 1>>
  BY <1>1, <1>3 DEF LinksJoinNeighbours, Contains
<1> QED BY <1>3, <1>4 DEF Before

LEMMA StepBehind ==
    ASSUME StoreInv, NEW i \in Int, Contains(Before(i))
    PROVE  /\ Contains(i) /\ After(Before(i)) = i /\ Before(i) = stored[i].previous
           /\ stored[Before(i)].transition[1] = stored[i].transition[1]
           /\ stored[Before(i)].transition[2] = stored[i].transition[2] - 1
<1>1. StoreShape /\ LinksJoinNeighbours BY DEF StoreInv
<1>2. NoId \notin DOMAIN stored BY <1>1, InRing, RingMoves
<1>3. Contains(i) /\ Before(i) = stored[i].previous BY <1>2 DEF Before, Contains
<1> DEFINE p == stored[i].previous
<1>4. stored[p].next = i /\ Contains(p) BY <1>1, <1>3 DEF LinksJoinNeighbours, Contains
<1>5. stored[i].transition = <<stored[p].transition[1], stored[p].transition[2] + 1>>
  BY <1>1, <1>3, <1>4 DEF LinksJoinNeighbours, Contains
<1>6. stored[i].transition \in Recorded /\ stored[p].transition \in Recorded
  BY <1>1, <1>3, <1>4, InRing DEF Contains
<1> HIDE DEF p
<1>7. ~Ends(stored[p].transition)
  BY <1>5, <1>6, RecordedIs DEF Ends
<1>8. After(p) = i BY <1>4, <1>7 DEF After
<1>9. stored[p].transition[2] = stored[i].transition[2] - 1 BY <1>5, <1>6, RecordedIs
<1> QED BY <1>3, <1>5, <1>8, <1>9 DEF p

\* Both stay among the ids, and chains begin with their first link.
LEMMA LinkTypes ==
    ASSUME StoreShape, NEW i \in Int
    PROVE  After(i) \in Int /\ Before(i) \in Int
<1>1. Contains(i) => stored[i].next \in Int /\ stored[i].previous \in Int
  BY InRing DEF Contains, Id, NoId
<1> QED BY <1>1 DEF After, Before, NoId

LEMMA FwdShift ==
    ASSUME StoreShape, NEW i \in Int, NEW k \in Nat \ {0}
    PROVE  Fwd(i, k + 1) = Fwd(After(i), k)
<1>0. After(i) \in Int BY LinkTypes
<1> DEFINE U == {n \in Nat : Fwd(i, n + 2) = Fwd(After(i), n + 1)}
<1>1. 0 \in U
  <2>1. Fwd(i, 1 + 1) = After(Fwd(i, 1)) /\ Fwd(i, 1) = i /\ Fwd(After(i), 1) = After(i)
    BY <1>0, AheadIs
  <2> QED BY <2>1
<1>2. ASSUME NEW n \in Nat, n \in U PROVE n + 1 \in U
  <2>1. n + 2 \in Nat \ {0} /\ n + 1 \in Nat \ {0} OBVIOUS
  <2>2. Fwd(i, n + 2 + 1) = After(Fwd(i, n + 2)) BY <2>1, AheadIs
  <2>3. Fwd(After(i), n + 1 + 1) = After(Fwd(After(i), n + 1)) BY <1>0, <2>1, AheadIs
  <2> QED BY <1>2, <2>2, <2>3
<1>3. k - 1 \in U
  <2> HIDE DEF U
  <2> QED BY <1>1, <1>2, SetInduction
<1> QED BY <1>3

LEMMA BwdShift ==
    ASSUME StoreShape, NEW i \in Int, NEW k \in Nat \ {0}
    PROVE  Bwd(i, k + 1) = Bwd(Before(i), k)
<1>0. Before(i) \in Int BY LinkTypes
<1> DEFINE U == {n \in Nat : Bwd(i, n + 2) = Bwd(Before(i), n + 1)}
<1>1. 0 \in U
  <2>1. Bwd(i, 1 + 1) = Before(Bwd(i, 1)) /\ Bwd(i, 1) = i /\ Bwd(Before(i), 1) = Before(i)
    BY <1>0, BehindIs
  <2> QED BY <2>1
<1>2. ASSUME NEW n \in Nat, n \in U PROVE n + 1 \in U
  <2>1. n + 2 \in Nat \ {0} /\ n + 1 \in Nat \ {0} OBVIOUS
  <2>2. Bwd(i, n + 2 + 1) = Before(Bwd(i, n + 2)) BY <2>1, BehindIs
  <2>3. Bwd(Before(i), n + 1 + 1) = Before(Bwd(Before(i), n + 1)) BY <1>0, <2>1, BehindIs
  <2> QED BY <1>2, <2>2, <2>3
<1>3. k - 1 \in U
  <2> HIDE DEF U
  <2> QED BY <1>1, <1>2, SetInduction
<1> QED BY <1>3

\* A chain ahead joins consecutive steps, is in the ring up to any of them, and leads back.
Leads(i, k) ==
    Contains(Fwd(i, k)) =>
        /\ \A l \in 1 .. k : Contains(Fwd(i, l))
        /\ stored[Fwd(i, k)].transition
             = <<stored[i].transition[1], stored[i].transition[2] + (k - 1)>>
        /\ Bwd(Fwd(i, k), k) = i

LEMMA ChainAhead ==
    ASSUME StoreInv, NEW i \in Int, NEW k \in Nat \ {0}
    PROVE  Leads(i, k) /\ Fwd(i, k) \in Int
<1>0. StoreShape BY DEF StoreInv
<1> DEFINE U == {n \in Nat : Leads(i, n + 1) /\ Fwd(i, n + 1) \in Int}
<1>1. 0 \in U
  <2>1. Fwd(i, 1) = i /\ Bwd(i, 1) = i BY AheadIs, BehindIs
  <2>2. ASSUME Contains(i)
        PROVE  stored[i].transition
                 = <<stored[i].transition[1], stored[i].transition[2] + (1 - 1)>>
    <3>1. stored[i].transition \in Recorded BY <1>0, <2>2, InRing DEF Contains
    <3> QED BY <3>1, RecordedIs
  <2>3. Leads(i, 1) BY <2>1, <2>2 DEF Leads
  <2> QED BY <2>1, <2>3
<1>2. ASSUME NEW n \in Nat, n \in U PROVE n + 1 \in U
  <2> DEFINE m == n + 1
             y == Fwd(i, m)
             z == Fwd(i, m + 1)
  <2>1. m \in Nat \ {0} /\ Leads(i, m) /\ y \in Int BY <1>2
  <2> HIDE DEF m
  <2>2. z = After(y) BY <2>1, AheadIs
  <2>3. z \in Int BY <1>0, <2>1, <2>2, LinkTypes
  <2>4. ASSUME Contains(z)
        PROVE  /\ \A l \in 1 .. m + 1 : Contains(Fwd(i, l))
               /\ stored[z].transition
                    = <<stored[i].transition[1], stored[i].transition[2] + ((m + 1) - 1)>>
               /\ Bwd(z, m + 1) = i
    <3>1. /\ Contains(y) /\ Before(z) = y
          /\ stored[z].transition = <<stored[y].transition[1], stored[y].transition[2] + 1>>
      BY <2>1, <2>2, <2>4, StepAhead
    <3>2. /\ \A l \in 1 .. m : Contains(Fwd(i, l))
          /\ stored[y].transition
               = <<stored[i].transition[1], stored[i].transition[2] + (m - 1)>>
          /\ Bwd(y, m) = i
      BY <2>1, <3>1 DEF Leads
    <3>3. Bwd(z, m + 1) = i BY <1>0, <2>1, <2>3, <3>1, <3>2, BwdShift
    <3>4. \A l \in 1 .. m + 1 : Contains(Fwd(i, l))
      <4>1. \A l \in 1 .. m + 1 : l \in 1 .. m \/ l = m + 1 BY <2>1
      <4> QED BY <2>4, <3>2, <4>1
    <3>5. stored[i].transition[2] \in Int
      <4>1. 1 \in 1 .. m /\ Fwd(i, 1) = i BY <2>1, AheadIs
      <4>2. Contains(i) BY <3>2, <4>1
      <4> QED BY <1>0, <4>2, InRing, RecordedIs DEF Contains
    <3>6. stored[z].transition
            = <<stored[i].transition[1], stored[i].transition[2] + ((m + 1) - 1)>>
      <4>1. stored[y].transition[1] = stored[i].transition[1]
            /\ stored[y].transition[2] + 1 = stored[i].transition[2] + ((m + 1) - 1)
        BY <2>1, <3>2, <3>5
      <4> QED BY <3>1, <4>1
    <3> QED BY <3>3, <3>4, <3>6
  <2>5. Leads(i, m + 1) BY <2>4 DEF Leads
  <2> QED BY <2>3, <2>5 DEF m
<1>3. k - 1 \in U
  <2> HIDE DEF U
  <2> QED BY <1>1, <1>2, SetInduction
<1> QED BY <1>3

\* A chain behind, likewise.
Recalls(i, k) ==
    Contains(Bwd(i, k)) =>
        /\ \A l \in 1 .. k : Contains(Bwd(i, l))
        /\ stored[Bwd(i, k)].transition
             = <<stored[i].transition[1], stored[i].transition[2] - (k - 1)>>
        /\ Fwd(Bwd(i, k), k) = i

LEMMA ChainBehind ==
    ASSUME StoreInv, NEW i \in Int, NEW k \in Nat \ {0}
    PROVE  Recalls(i, k) /\ Bwd(i, k) \in Int
<1>0. StoreShape BY DEF StoreInv
<1> DEFINE U == {n \in Nat : Recalls(i, n + 1) /\ Bwd(i, n + 1) \in Int}
<1>1. 0 \in U
  <2>1. Bwd(i, 1) = i /\ Fwd(i, 1) = i BY AheadIs, BehindIs
  <2>2. ASSUME Contains(i)
        PROVE  stored[i].transition
                 = <<stored[i].transition[1], stored[i].transition[2] - (1 - 1)>>
    <3>1. stored[i].transition \in Recorded BY <1>0, <2>2, InRing DEF Contains
    <3> QED BY <3>1, RecordedIs
  <2>3. Recalls(i, 1) BY <2>1, <2>2 DEF Recalls
  <2> QED BY <2>1, <2>3
<1>2. ASSUME NEW n \in Nat, n \in U PROVE n + 1 \in U
  <2> DEFINE m == n + 1
             y == Bwd(i, m)
             z == Bwd(i, m + 1)
  <2>1. m \in Nat \ {0} /\ Recalls(i, m) /\ y \in Int BY <1>2
  <2> HIDE DEF m
  <2>2. z = Before(y) BY <2>1, BehindIs
  <2>3. z \in Int BY <1>0, <2>1, <2>2, LinkTypes
  <2>4. ASSUME Contains(z)
        PROVE  /\ \A l \in 1 .. m + 1 : Contains(Bwd(i, l))
               /\ stored[z].transition
                    = <<stored[i].transition[1], stored[i].transition[2] - ((m + 1) - 1)>>
               /\ Fwd(z, m + 1) = i
    <3>1. /\ Contains(y) /\ After(z) = y
          /\ stored[z].transition[1] = stored[y].transition[1]
          /\ stored[z].transition[2] = stored[y].transition[2] - 1
      BY <2>1, <2>2, <2>4, StepBehind
    <3>2. /\ \A l \in 1 .. m : Contains(Bwd(i, l))
          /\ stored[y].transition
               = <<stored[i].transition[1], stored[i].transition[2] - (m - 1)>>
          /\ Fwd(y, m) = i
      BY <2>1, <3>1 DEF Recalls
    <3>3. Fwd(z, m + 1) = i BY <1>0, <2>1, <2>3, <3>1, <3>2, FwdShift
    <3>4. \A l \in 1 .. m + 1 : Contains(Bwd(i, l))
      <4>1. \A l \in 1 .. m + 1 : l \in 1 .. m \/ l = m + 1 BY <2>1
      <4> QED BY <2>4, <3>2, <4>1
    <3>5. stored[i].transition[2] \in Int
      <4>1. 1 \in 1 .. m /\ Bwd(i, 1) = i BY <2>1, BehindIs
      <4>2. Contains(i) BY <3>2, <4>1
      <4> QED BY <1>0, <4>2, InRing, RecordedIs DEF Contains
    <3>6. stored[z].transition
            = <<stored[i].transition[1], stored[i].transition[2] - ((m + 1) - 1)>>
      <4>1. stored[z].transition[1] = stored[i].transition[1]
            /\ stored[z].transition[2] = stored[i].transition[2] - ((m + 1) - 1)
        BY <2>1, <3>1, <3>2, <3>5
      <4>2. stored[z].transition \in Recorded BY <1>0, <2>4, InRing DEF Contains
      <4> QED BY <4>1, <4>2, RecordedIs
    <3> QED BY <3>3, <3>4, <3>6
  <2>5. Recalls(i, m + 1) BY <2>4 DEF Recalls
  <2> QED BY <2>3, <2>5 DEF m
<1>3. k - 1 \in U
  <2> HIDE DEF U
  <2> QED BY <1>1, <1>2, SetInduction
<1> QED BY <1>3

\* A horizon is the first few ids of a chain, each of another step.
LEMMA HorizonShape ==
    ASSUME StoreInv, NEW i \in DOMAIN stored, NEW n \in Nat \ {0}
    PROVE  LET c == Cardinality(HorizonIds(i, n))
           IN /\ c \in 1 .. n
              /\ \A k \in 1 .. n : Contains(Fwd(i, k)) <=> k <= c
              /\ HorizonIds(i, n) = {Fwd(i, k) : k \in 1 .. c}
<1>0. StoreShape /\ i \in Int /\ Contains(i) /\ stored[i].transition[2] \in Int
  <2>1. StoreShape /\ i \in Int /\ Contains(i) BY InRing DEF StoreInv, Contains
  <2> QED BY <2>1, InRing, RecordedIs DEF Contains
<1> DEFINE K == {k \in 1 .. n : Contains(Fwd(i, k))}
<1>1. 1 \in K BY <1>0, AheadIs
<1>2. \A k \in K : \A l \in 1 .. k : l \in K
  <2> SUFFICES ASSUME NEW k \in K, NEW l \in 1 .. k PROVE l \in K OBVIOUS
  <2>1. k \in Nat \ {0} /\ Contains(Fwd(i, k)) /\ k <= n OBVIOUS
  <2>2. Leads(i, k) BY <1>0, <2>1, ChainAhead
  <2>3. Contains(Fwd(i, l)) BY <2>1, <2>2 DEF Leads
  <2> QED BY <2>1, <2>3
<1>3. PICK m \in K : \A k \in K : k <= m
  <2>1. K \in SUBSET Nat /\ K # {} /\ \A k \in K : k <= n BY <1>1
  <2> HIDE DEF K
  <2>2. Max(K) \in K /\ \A k \in K : k <= Max(K) BY <2>1, MaxExists
  <2> QED BY <2>2
<1>4. K = 1 .. m /\ m \in 1 .. n
  <2>1. K \subseteq 1 .. n OBVIOUS
  <2> HIDE DEF K
  <2>2. \A k \in K : k \in 1 .. m BY <1>3, <2>1
  <2>3. \A k \in 1 .. m : k \in K BY <1>2, <1>3
  <2> QED BY <1>3, <2>1, <2>2, <2>3
<1> DEFINE H == {Fwd(i, k) : k \in 1 .. m}
           f == [k \in 1 .. m |-> Fwd(i, k)]
<1>5. HorizonIds(i, n) = H
  <2>1. \A k \in 1 .. n : Ahead(i, n)[k] = Fwd(i, k) BY <1>0, AheadIs
  <2>2. HorizonIds(i, n) = {Fwd(i, k) : k \in 1 .. n} \cap DOMAIN stored
    BY <2>1 DEF HorizonIds
  <2>3. \A k \in 1 .. n : Contains(Fwd(i, k)) <=> k \in 1 .. m BY <1>4
  <2>4. \A k \in 1 .. m : k \in 1 .. n BY <1>4
  <2> QED BY <2>2, <2>3, <2>4 DEF Contains
<1>6. f \in Bijection(1 .. m, H)
  <2>1. f \in [1 .. m -> H] OBVIOUS
  <2>2. ASSUME NEW k \in 1 .. m, NEW l \in 1 .. m, f[k] = f[l] PROVE k = l
    <3>1. k \in K /\ l \in K BY <1>4
    <3>2. k \in Nat \ {0} /\ l \in Nat \ {0} /\ Contains(Fwd(i, k)) /\ Contains(Fwd(i, l))
      BY <3>1
    <3>3. Leads(i, k) /\ Leads(i, l) BY <1>0, <3>2, ChainAhead
    <3>4. /\ stored[Fwd(i, k)].transition[2] = stored[i].transition[2] + (k - 1)
          /\ stored[Fwd(i, l)].transition[2] = stored[i].transition[2] + (l - 1)
      BY <3>2, <3>3 DEF Leads
    <3>5. Fwd(i, k) = Fwd(i, l) BY <2>2
    <3> QED BY <1>0, <3>2, <3>4, <3>5
  <2>3. \A u \in H : \E k \in 1 .. m : f[k] = u OBVIOUS
  <2> QED BY <2>1, <2>2, <2>3, Fun_IsBij
<1>7. Cardinality(H) = m
  <2>1. ExistsBijection(1 .. m, H) BY <1>6 DEF ExistsBijection
  <2>2. IsFiniteSet(1 .. m) /\ Cardinality(1 .. m) = m BY <1>4, FS_Interval
  <2> HIDE DEF H
  <2> QED BY <2>1, <2>2, FS_Bijection
<1>8. \A k \in 1 .. n : Contains(Fwd(i, k)) <=> k <= m BY <1>4
<1> HIDE DEF H, K
<1> QED BY <1>4, <1>5, <1>7, <1>8 DEF H

\* A history likewise, counted back from its last id.
LEMMA HistoryShape ==
    ASSUME StoreInv, NEW i \in DOMAIN stored, NEW n \in Nat \ {0}
    PROVE  LET c == Cardinality(HistoryIds(i, n))
           IN /\ c \in 1 .. n
              /\ \A k \in 1 .. n : Contains(Bwd(i, k)) <=> k <= c
              /\ HistoryIds(i, n) = {Bwd(i, k) : k \in 1 .. c}
<1>0. StoreShape /\ i \in Int /\ Contains(i) /\ stored[i].transition[2] \in Int
  <2>1. StoreShape /\ i \in Int /\ Contains(i) BY InRing DEF StoreInv, Contains
  <2> QED BY <2>1, InRing, RecordedIs DEF Contains
<1> DEFINE K == {k \in 1 .. n : Contains(Bwd(i, k))}
<1>1. 1 \in K BY <1>0, BehindIs
<1>2. \A k \in K : \A l \in 1 .. k : l \in K
  <2> SUFFICES ASSUME NEW k \in K, NEW l \in 1 .. k PROVE l \in K OBVIOUS
  <2>1. k \in Nat \ {0} /\ Contains(Bwd(i, k)) /\ k <= n OBVIOUS
  <2>2. Recalls(i, k) BY <1>0, <2>1, ChainBehind
  <2>3. Contains(Bwd(i, l)) BY <2>1, <2>2 DEF Recalls
  <2> QED BY <2>1, <2>3
<1>3. PICK m \in K : \A k \in K : k <= m
  <2>1. K \in SUBSET Nat /\ K # {} /\ \A k \in K : k <= n BY <1>1
  <2> HIDE DEF K
  <2>2. Max(K) \in K /\ \A k \in K : k <= Max(K) BY <2>1, MaxExists
  <2> QED BY <2>2
<1>4. K = 1 .. m /\ m \in 1 .. n
  <2>1. K \subseteq 1 .. n OBVIOUS
  <2> HIDE DEF K
  <2>2. \A k \in K : k \in 1 .. m BY <1>3, <2>1
  <2>3. \A k \in 1 .. m : k \in K BY <1>2, <1>3
  <2> QED BY <1>3, <2>1, <2>2, <2>3
<1> DEFINE H == {Bwd(i, k) : k \in 1 .. m}
           f == [k \in 1 .. m |-> Bwd(i, k)]
<1>5. HistoryIds(i, n) = H
  <2>1. \A k \in 1 .. n : Behind(i, n)[k] = Bwd(i, k) BY <1>0, BehindIs
  <2>2. HistoryIds(i, n) = {Bwd(i, k) : k \in 1 .. n} \cap DOMAIN stored
    BY <2>1 DEF HistoryIds
  <2>3. \A k \in 1 .. n : Contains(Bwd(i, k)) <=> k \in 1 .. m BY <1>4
  <2>4. \A k \in 1 .. m : k \in 1 .. n BY <1>4
  <2> QED BY <2>2, <2>3, <2>4 DEF Contains
<1>6. f \in Bijection(1 .. m, H)
  <2>1. f \in [1 .. m -> H] OBVIOUS
  <2>2. ASSUME NEW k \in 1 .. m, NEW l \in 1 .. m, f[k] = f[l] PROVE k = l
    <3>1. k \in K /\ l \in K BY <1>4
    <3>2. k \in Nat \ {0} /\ l \in Nat \ {0} /\ Contains(Bwd(i, k)) /\ Contains(Bwd(i, l))
      BY <3>1
    <3>3. Recalls(i, k) /\ Recalls(i, l) BY <1>0, <3>2, ChainBehind
    <3>4. /\ stored[Bwd(i, k)].transition[2] = stored[i].transition[2] - (k - 1)
          /\ stored[Bwd(i, l)].transition[2] = stored[i].transition[2] - (l - 1)
      BY <3>2, <3>3 DEF Recalls
    <3>5. Bwd(i, k) = Bwd(i, l) BY <2>2
    <3> QED BY <1>0, <3>2, <3>4, <3>5
  <2>3. \A u \in H : \E k \in 1 .. m : f[k] = u OBVIOUS
  <2> QED BY <2>1, <2>2, <2>3, Fun_IsBij
<1>7. Cardinality(H) = m
  <2>1. ExistsBijection(1 .. m, H) BY <1>6 DEF ExistsBijection
  <2>2. IsFiniteSet(1 .. m) /\ Cardinality(1 .. m) = m BY <1>4, FS_Interval
  <2> HIDE DEF H
  <2> QED BY <2>1, <2>2, FS_Bijection
<1>8. \A k \in 1 .. n : Contains(Bwd(i, k)) <=> k <= m BY <1>4
<1> HIDE DEF H, K
<1> QED BY <1>4, <1>5, <1>7, <1>8 DEF H

-----------------------------------------------------------------------------
(* What the index goes by: the chains of links through the ring.             *)
Joins(y, z) ==
    /\ Contains(y) /\ Contains(z) /\ ~Ends(stored[y].transition)
    /\ stored[y].next = z
AheadAt(x, k, y) == Contains(y) /\ Fwd(x, k) = y
BehindAt(x, k, y) == Contains(y) /\ Bwd(x, k) = y

JoinFacts ==
    /\ \A y \in DOMAIN stored : y \in Nat
    /\ \A y, z : Joins(y, z) <=> Contains(y) /\ Contains(z) /\ stored[z].previous = y
ChainFacts ==
    /\ \A x \in Int : \A y : AheadAt(x, 1, y) <=> Contains(x) /\ y = x
    /\ \A x \in Int : \A y : BehindAt(x, 1, y) <=> Contains(x) /\ y = x
    /\ \A x \in Int, k \in Nat \ {0} : \A z :
         /\ AheadAt(x, k + 1, z) <=> \E y : AheadAt(x, k, y) /\ Joins(y, z)
         /\ BehindAt(x, k + 1, z) <=> \E y : BehindAt(x, k, y) /\ Joins(z, y)
    /\ \A x \in Int, y \in Int, k \in Nat \ {0} : AheadAt(x, k, y) <=> BehindAt(y, k, x)
    /\ \A x \in Int, n \in Nat : \A y :
         /\ y \in HorizonIds(x, n) <=> \E k \in 1 .. n : AheadAt(x, k, y)
         /\ y \in HistoryIds(x, n) <=> \E k \in 1 .. n : BehindAt(x, k, y)

\* Links agree in both directions.
LEMMA JoinsAre == StoreInv => JoinFacts
<1> SUFFICES ASSUME StoreInv PROVE JoinFacts OBVIOUS
<1>1. StoreShape /\ LinksJoinNeighbours BY DEF StoreInv
<1>2. \A y \in DOMAIN stored : y \in Nat /\ stored[y].transition \in Recorded BY <1>1, InRing
<1>3. ASSUME NEW y, NEW z, Contains(y), Contains(z), stored[z].previous = y
      PROVE  stored[y].next = z /\ ~Ends(stored[y].transition)
  <2>1. stored[y].next = z BY <1>1, <1>3 DEF LinksJoinNeighbours, Contains
  <2>2. stored[z].transition = <<stored[y].transition[1], stored[y].transition[2] + 1>>
    BY <1>1, <1>3, <2>1 DEF LinksJoinNeighbours, Contains
  <2>3. stored[y].transition \in Recorded /\ stored[z].transition \in Recorded
    BY <1>2, <1>3 DEF Contains
  <2>4. stored[z].transition[1] = stored[y].transition[1]
        /\ stored[z].transition[2] = stored[y].transition[2] + 1
    BY <2>2
  <2> QED BY <2>1, <2>3, <2>4, RecordedIs DEF Ends
<1>4. ASSUME NEW y, NEW z, Joins(y, z) PROVE stored[z].previous = y
  BY <1>1, <1>4 DEF LinksJoinNeighbours, Contains, Joins
<1> QED BY <1>2, <1>3, <1>4 DEF Joins, JoinFacts

\* A chain goes on from one transition to the next it is joined with, and back again.
LEMMA ChainsAre == StoreInv => ChainFacts
<1> SUFFICES ASSUME StoreInv PROVE ChainFacts OBVIOUS
<1>1. StoreShape /\ JoinFacts BY JoinsAre DEF StoreInv
<1>2. NoId \notin DOMAIN stored BY <1>1, InRing, RingMoves
<1>3. ASSUME NEW x \in Int, NEW y
      PROVE  /\ AheadAt(x, 1, y) <=> Contains(x) /\ y = x
             /\ BehindAt(x, 1, y) <=> Contains(x) /\ y = x
  <2>1. Fwd(x, 1) = x /\ Bwd(x, 1) = x BY AheadIs, BehindIs
  <2> QED BY <2>1 DEF AheadAt, BehindAt
<1>4. ASSUME NEW x \in Int, NEW k \in Nat \ {0}, NEW z
      PROVE  AheadAt(x, k + 1, z) <=> \E y : AheadAt(x, k, y) /\ Joins(y, z)
  <2>1. Fwd(x, k + 1) = After(Fwd(x, k)) BY AheadIs
  <2>2. ASSUME AheadAt(x, k + 1, z) PROVE \E y : AheadAt(x, k, y) /\ Joins(y, z)
    <3> DEFINE y == Fwd(x, k)
    <3>1. Contains(z) /\ After(y) = z BY <2>1, <2>2 DEF AheadAt
    <3> HIDE DEF y
    <3>2. Contains(y) /\ ~Ends(stored[y].transition) /\ stored[y].next = z
      BY <1>2, <3>1 DEF After, Contains
    <3>3. AheadAt(x, k, y) BY <3>2 DEF AheadAt, y
    <3> QED BY <3>1, <3>2, <3>3 DEF Joins
  <2>3. ASSUME NEW y, AheadAt(x, k, y), Joins(y, z) PROVE AheadAt(x, k + 1, z)
    <3>1. Fwd(x, k) = y /\ After(y) = z /\ Contains(z) BY <2>3 DEF AheadAt, Joins, After
    <3> QED BY <2>1, <3>1 DEF AheadAt
  <2> QED BY <2>2, <2>3
<1>5. ASSUME NEW x \in Int, NEW k \in Nat \ {0}, NEW z
      PROVE  BehindAt(x, k + 1, z) <=> \E y : BehindAt(x, k, y) /\ Joins(z, y)
  <2>1. Bwd(x, k + 1) = Before(Bwd(x, k)) BY BehindIs
  <2>2. ASSUME BehindAt(x, k + 1, z) PROVE \E y : BehindAt(x, k, y) /\ Joins(z, y)
    <3> DEFINE y == Bwd(x, k)
    <3>1. Contains(z) /\ Before(y) = z BY <2>1, <2>2 DEF BehindAt
    <3> HIDE DEF y
    <3>2. Contains(y) /\ stored[y].previous = z BY <1>2, <3>1 DEF Before, Contains
    <3>3. BehindAt(x, k, y) BY <3>2 DEF BehindAt, y
    <3>4. Joins(z, y) BY <1>1, <3>1, <3>2 DEF JoinFacts
    <3> QED BY <3>3, <3>4
  <2>3. ASSUME NEW y, BehindAt(x, k, y), Joins(z, y) PROVE BehindAt(x, k + 1, z)
    <3>0. Contains(y) /\ Contains(z) /\ stored[y].previous = z BY <1>1, <2>3 DEF JoinFacts
    <3>1. Bwd(x, k) = y /\ Before(y) = z /\ Contains(z) BY <2>3, <3>0 DEF BehindAt, Before
    <3> QED BY <2>1, <3>1 DEF BehindAt
  <2> QED BY <2>2, <2>3
<1>6. ASSUME NEW x \in Int, NEW y \in Int, NEW k \in Nat \ {0}
      PROVE  AheadAt(x, k, y) <=> BehindAt(y, k, x)
  <2>1. Leads(x, k) /\ Recalls(y, k) BY ChainAhead, ChainBehind
  <2>2. 1 \in 1 .. k /\ Fwd(x, 1) = x /\ Bwd(y, 1) = y BY AheadIs, BehindIs
  <2>3. ASSUME AheadAt(x, k, y) PROVE BehindAt(y, k, x)
    <3>1. Contains(Fwd(x, k)) /\ Fwd(x, k) = y BY <2>3 DEF AheadAt
    <3>2. Contains(Fwd(x, 1)) /\ Bwd(Fwd(x, k), k) = x BY <2>1, <2>2, <3>1 DEF Leads
    <3> QED BY <2>2, <3>1, <3>2 DEF BehindAt
  <2>4. ASSUME BehindAt(y, k, x) PROVE AheadAt(x, k, y)
    <3>1. Contains(Bwd(y, k)) /\ Bwd(y, k) = x BY <2>4 DEF BehindAt
    <3>2. Contains(Bwd(y, 1)) /\ Fwd(Bwd(y, k), k) = y BY <2>1, <2>2, <3>1 DEF Recalls
    <3> QED BY <2>2, <3>1, <3>2 DEF AheadAt
  <2> QED BY <2>3, <2>4
<1>7. ASSUME NEW x \in Int, NEW y, NEW n \in Nat
      PROVE  /\ y \in HorizonIds(x, n) <=> \E k \in 1 .. n : AheadAt(x, k, y)
             /\ y \in HistoryIds(x, n) <=> \E k \in 1 .. n : BehindAt(x, k, y)
  <2>1. \A k \in 1 .. n : Ahead(x, n)[k] = Fwd(x, k) /\ Behind(x, n)[k] = Bwd(x, k)
    BY AheadIs, BehindIs
  <2>2. y \in HorizonIds(x, n) <=> Contains(y) /\ \E k \in 1 .. n : Fwd(x, k) = y
    BY <2>1 DEF HorizonIds, Contains
  <2>3. y \in HistoryIds(x, n) <=> Contains(y) /\ \E k \in 1 .. n : Bwd(x, k) = y
    BY <2>1 DEF HistoryIds, Contains
  <2> QED BY <2>2, <2>3 DEF AheadAt, BehindAt
<1> QED BY <1>3, <1>4, <1>5, <1>6, <1>7 DEF ChainFacts

\* The same of the state after a step.
LEMMA ChainsAreNext == StoreInv' => JoinFacts' /\ ChainFacts'
  BY JoinsAre, ChainsAre, PTL

\* A transition is behind another when that one is ahead of it.
MeetFacts ==
    \A x \in DOMAIN stored, a \in Int, n \in Nat :
        /\ x \in HistoryIds(a, n) <=> a \in HorizonIds(x, n)
        /\ x \in HorizonIds(a, n) <=> a \in HistoryIds(x, n)

LEMMA Meet == StoreInv => MeetFacts
<1> SUFFICES ASSUME StoreInv, NEW x \in DOMAIN stored, NEW a \in Int, NEW n \in Nat
             PROVE  /\ x \in HistoryIds(a, n) <=> a \in HorizonIds(x, n)
                    /\ x \in HorizonIds(a, n) <=> a \in HistoryIds(x, n)
  BY DEF MeetFacts
<1>1. ChainFacts /\ x \in Int BY ChainsAre, JoinsAre DEF JoinFacts
<1>2. /\ x \in HistoryIds(a, n) <=> \E k \in 1 .. n : BehindAt(a, k, x)
      /\ a \in HorizonIds(x, n) <=> \E k \in 1 .. n : AheadAt(x, k, a)
      /\ x \in HorizonIds(a, n) <=> \E k \in 1 .. n : AheadAt(a, k, x)
      /\ a \in HistoryIds(x, n) <=> \E k \in 1 .. n : BehindAt(x, k, a)
  BY <1>1 DEF ChainFacts
<1>3. \A k \in 1 .. n : /\ AheadAt(x, k, a) <=> BehindAt(a, k, x)
                        /\ AheadAt(a, k, x) <=> BehindAt(x, k, a)
  BY <1>1 DEF ChainFacts
<1> QED BY <1>2, <1>3

-----------------------------------------------------------------------------
(* What a step of the store does to the chains.                              *)

\* The links after a write, but for those of the ids that come and go.
LEMMA WriteJoinsOthers ==
    ASSUME StoreInv, StoreInv', NEW t, NEW pace, AnyWrite(t, pace), NEW v, v = Evicted,
           NEW new, new = nextIndex, NEW y, NEW z
    PROVE  /\ Joins(y, z) => Joins(y, z)' \/ y = v \/ z = v \/ Joins(y, new)'
           /\ Joins(y, z) => Joins(y, z)' \/ y = v \/ z = v \/ Joins(new, z)'
           /\ Joins(y, z)' => Joins(y, z) \/ y = new \/ z = new
<1> DEFINE R == stored'  K == DOMAIN stored \ {v}  p == Before1(t)  n == After1(t, pace)
<1>1.    /\ R = stored'
         /\ DOMAIN R = K \cup {new} /\ K = DOMAIN stored \ {v}
         /\ new \notin DOMAIN stored
         /\ \A i \in K : /\ R[i].transition = stored[i].transition
                         /\ R[i].next = IF i = p THEN new ELSE stored[i].next
                         /\ R[i].previous = IF i = n THEN new ELSE stored[i].previous
  <2>1. /\ RingFacts(stored', t, pace, Before1(t), After1(t, pace))
        /\ DOMAIN Kept = DOMAIN stored \ {v}
        /\ DOMAIN stored' = DOMAIN Kept \cup {new} /\ new \notin DOMAIN stored
    BY RingAfter
  <2>2. \A i \in DOMAIN Kept :
            /\ stored'[i].transition = stored[i].transition
            /\ stored'[i].next = IF i = Before1(t) THEN new ELSE stored[i].next
            /\ stored'[i].previous = IF i = After1(t, pace) THEN new ELSE stored[i].previous
    BY <2>1 DEF RingFacts
  <2> QED BY <2>1, <2>2
<1> HIDE DEF R, K, p, n
<1>2. JoinFacts /\ JoinFacts' BY JoinsAre, ChainsAreNext
<1>3. \A a, b : Joins(a, b)' <=> /\ a \in DOMAIN R /\ b \in DOMAIN R /\ ~Ends(R[a].transition)
                                /\ R[a].next = b
  BY <1>1 DEF Joins, Contains, Ends
<1>4. \A a, b : Joins(a, b)' <=> /\ a \in DOMAIN R /\ b \in DOMAIN R /\ R[b].previous = a
  BY <1>1, <1>2 DEF JoinFacts, Contains
<1>5. \A a, b : Joins(a, b) <=> /\ a \in DOMAIN stored /\ b \in DOMAIN stored
                               /\ ~Ends(stored[a].transition) /\ stored[a].next = b
  BY DEF Joins, Contains
<1>6. \A a, b : Joins(a, b) <=> a \in DOMAIN stored /\ b \in DOMAIN stored /\ stored[b].previous = a
  BY <1>2 DEF JoinFacts, Contains
<1>7. ASSUME Joins(y, z), y # v, z # v
      PROVE  /\ Joins(y, z)' \/ Joins(y, new)'
             /\ Joins(y, z)' \/ Joins(new, z)'
  <2>1. y \in K /\ z \in K /\ stored[y].next = z /\ stored[z].previous = y
        /\ ~Ends(stored[y].transition)
    BY <1>1, <1>5, <1>6, <1>7
  <2>2. y \in DOMAIN R /\ z \in DOMAIN R /\ new \in DOMAIN R /\ ~Ends(R[y].transition)
        /\ R[y].next \in {z, new} /\ R[z].previous \in {y, new}
    BY <1>1, <2>1
  <2>3. Joins(y, z)' \/ Joins(y, new)' BY <1>3, <2>2
  <2>4. Joins(y, z)' \/ Joins(new, z)' BY <1>4, <2>2
  <2> QED BY <2>3, <2>4
<1>8. ASSUME Joins(y, z)', y # new, z # new PROVE Joins(y, z)
  <2>1. y \in K /\ z \in K /\ R[y].next = z /\ ~Ends(R[y].transition) BY <1>1, <1>3, <1>8
  <2>2. R[y].transition = stored[y].transition BY <1>1, <2>1
  <2>3. y # p BY <1>1, <1>8, <2>1
  <2>4. stored[y].next = z BY <1>1, <2>1, <2>3
  <2>5. y \in DOMAIN stored /\ z \in DOMAIN stored BY <1>1, <2>1
  <2> QED BY <1>5, <2>1, <2>2, <2>4, <2>5
<1> QED BY <1>7, <1>8

\* The chains of a transition within reach of a draw are those they were.
SameChains(x) ==
    /\ \A k \in 1 .. NStep : \A y : AheadAt(x, k, y)' <=> AheadAt(x, k, y)
    /\ \A k \in 1 .. SequenceLength : \A y : BehindAt(x, k, y)' <=> BehindAt(x, k, y)

\* What a write logs can be told from the chains after it.
Unmoved(x, new, p, n) ==
    /\ new \notin HorizonIds(x, NStep) /\ new \notin HistoryIds(x, SequenceLength)
    /\ NStep > 1 => p \notin HorizonIds(x, NStep - 1)
    /\ SequenceLength > 1 => n \notin HistoryIds(x, SequenceLength - 1)

\* What is assumed of the index.
LEMMA IndexConstants ==
    NStep \in Nat \ {0} /\ SequenceLength \in Nat \ {0} /\ AllowPadding \in BOOLEAN
  BY ReplayIndexAssumption

\* A transition none of them is on the chains of has the chains it had.
LEMMA WriteMoves ==
    ASSUME StoreInv, StoreInv', NEW t, NEW pace, AnyWrite(t, pace),
           NEW x \in DOMAIN stored, x \in DOMAIN stored', NEW p, NEW n,
           Contains(Evicted) => p = stored[Evicted].previous /\ n = stored[Evicted].next,
           NEW new, new = nextIndex, Unmoved(x, new, p, n)'
    PROVE  SameChains(x)
<1>1. /\ JoinFacts /\ JoinFacts' /\ ChainFacts /\ ChainFacts' /\ x \in Int
      /\ Contains(x) /\ Contains(x)'
  <2>1. JoinFacts /\ ChainFacts /\ JoinFacts' /\ ChainFacts' BY JoinsAre, ChainsAre, ChainsAreNext
  <2> QED BY <2>1 DEF JoinFacts, Contains
<1>2. /\ DOMAIN stored' = (DOMAIN stored \ {Evicted}) \cup {new} /\ new \notin DOMAIN stored
      /\ new \in Int /\ NStep \in Nat \ {0} /\ SequenceLength \in Nat \ {0}
  <2>1. nextIndex \in Nat /\ new = nextIndex BY RingAfter
  <2> QED BY <2>1, RingAfter, IndexConstants
<1>3. PICK v : v = Evicted OBVIOUS
<1>4. \A y, z : /\ Joins(y, z) => Joins(y, z)' \/ y = v \/ z = v \/ Joins(y, new)'
                /\ Joins(y, z) => Joins(y, z)' \/ y = v \/ z = v \/ Joins(new, z)'
                /\ Joins(y, z)' => Joins(y, z) \/ y = new \/ z = new
  BY <1>3, WriteJoinsOthers
<1>5. /\ \A y : Joins(y, v) => y = p
      /\ \A y : Joins(v, y) => y = n
  <2>1. \A y : Joins(y, v) => Contains(v) /\ stored[v].previous = y BY <1>1 DEF JoinFacts
  <2>2. \A y : Joins(v, y) => Contains(v) /\ stored[v].next = y BY DEF Joins
  <2> QED BY <1>3, <2>1, <2>2
<1>6. /\ \A k \in 1 .. NStep : ~AheadAt(x, k, new)'
      /\ \A k \in 1 .. SequenceLength : ~BehindAt(x, k, new)'
      /\ \A k \in 1 .. NStep - 1 : ~AheadAt(x, k, p)'
      /\ \A k \in 1 .. SequenceLength - 1 : ~BehindAt(x, k, n)'
  <2>1. /\ new \notin HorizonIds(x, NStep)' /\ new \notin HistoryIds(x, SequenceLength)'
        /\ NStep > 1 => p \notin HorizonIds(x, NStep - 1)'
        /\ SequenceLength > 1 => n \notin HistoryIds(x, SequenceLength - 1)'
    BY DEF Unmoved
  <2>2. \A m \in Nat : \A y :
          /\ y \in HorizonIds(x, m)' <=> \E k \in 1 .. m : AheadAt(x, k, y)'
          /\ y \in HistoryIds(x, m)' <=> \E k \in 1 .. m : BehindAt(x, k, y)'
    BY <1>1 DEF ChainFacts
  <2>3. NStep > 1 => NStep - 1 \in Nat BY <1>2
  <2>4. SequenceLength > 1 => SequenceLength - 1 \in Nat BY <1>2
  <2> QED BY <1>2, <2>1, <2>2, <2>3, <2>4
<1>7. \A k \in Nat \ {0} : \A y : AheadAt(x, k, y)' \/ BehindAt(x, k, y)' => y \in DOMAIN stored'
  BY DEF AheadAt, BehindAt, Contains
<1> DEFINE U == {m \in Nat : m + 1 <= NStep =>
                               \A y : AheadAt(x, m + 1, y)' <=> AheadAt(x, m + 1, y)}
           V == {m \in Nat : m + 1 <= SequenceLength =>
                               \A y : BehindAt(x, m + 1, y)' <=> BehindAt(x, m + 1, y)}
<1>8. 0 \in U /\ 0 \in V
  <2>1. \A y : /\ AheadAt(x, 1, y)' <=> AheadAt(x, 1, y)
               /\ BehindAt(x, 1, y)' <=> BehindAt(x, 1, y)
    BY <1>1 DEF ChainFacts
  <2> QED BY <2>1
<1>9. ASSUME NEW m \in Nat, m \in U PROVE m + 1 \in U
  <2> DEFINE k == m + 1
  <2>1. k \in Nat \ {0} /\ k = m + 1 OBVIOUS
  <2> HIDE DEF k
  <2> SUFFICES ASSUME k + 1 <= NStep, NEW z PROVE AheadAt(x, k + 1, z)' <=> AheadAt(x, k + 1, z)
    BY <2>1
  <2>2. \A y : AheadAt(x, k, y)' <=> AheadAt(x, k, y) BY <1>2, <1>9, <2>1
  <2>3. /\ AheadAt(x, k + 1, z) <=> \E y : AheadAt(x, k, y) /\ Joins(y, z)
        /\ \A w : AheadAt(x, k + 1, w)' <=> \E y : AheadAt(x, k, y)' /\ Joins(y, w)'
    BY <1>1, <2>1 DEF ChainFacts
  <2>4. ~AheadAt(x, k + 1, new)' /\ ~AheadAt(x, k, new)' /\ ~AheadAt(x, k, p)'
    BY <1>2, <1>6, <2>1
  <2>5. ASSUME NEW y, AheadAt(x, k, y), Joins(y, z) PROVE Joins(y, z)'
    <3>1. AheadAt(x, k, y)' /\ y \in DOMAIN stored' BY <1>7, <2>1, <2>2, <2>5
    <3>2. ~Joins(y, new)' BY <2>3, <2>4, <3>1
    <3>3. y # v BY <1>2, <1>3, <2>4, <3>1
    <3>4. z # v BY <1>5, <2>4, <2>5, <3>1
    <3> QED BY <1>4, <2>5, <3>2, <3>3, <3>4
  <2>6. ASSUME NEW y, AheadAt(x, k, y)', Joins(y, z)' PROVE Joins(y, z)
    <3>1. AheadAt(x, k + 1, z)' BY <2>3, <2>6
    <3>2. z # new /\ y # new BY <2>4, <2>6, <3>1
    <3> QED BY <1>4, <2>6, <3>2
  <2> QED BY <2>2, <2>3, <2>5, <2>6
<1>10. ASSUME NEW m \in Nat, m \in V PROVE m + 1 \in V
  <2> DEFINE k == m + 1
  <2>1. k \in Nat \ {0} /\ k = m + 1 OBVIOUS
  <2> HIDE DEF k
  <2> SUFFICES ASSUME k + 1 <= SequenceLength, NEW z
               PROVE  BehindAt(x, k + 1, z)' <=> BehindAt(x, k + 1, z)
    BY <2>1
  <2>2. \A y : BehindAt(x, k, y)' <=> BehindAt(x, k, y) BY <1>2, <1>10, <2>1
  <2>3. /\ BehindAt(x, k + 1, z) <=> \E y : BehindAt(x, k, y) /\ Joins(z, y)
        /\ \A w : BehindAt(x, k + 1, w)' <=> \E y : BehindAt(x, k, y)' /\ Joins(w, y)'
    BY <1>1, <2>1 DEF ChainFacts
  <2>4. ~BehindAt(x, k + 1, new)' /\ ~BehindAt(x, k, new)' /\ ~BehindAt(x, k, n)'
    BY <1>2, <1>6, <2>1
  <2>5. ASSUME NEW y, BehindAt(x, k, y), Joins(z, y) PROVE Joins(z, y)'
    <3>1. BehindAt(x, k, y)' /\ y \in DOMAIN stored' BY <1>7, <2>1, <2>2, <2>5
    <3>2. ~Joins(new, y)' BY <2>3, <2>4, <3>1
    <3>3. y # v BY <1>2, <1>3, <2>4, <3>1
    <3>4. z # v BY <1>5, <2>4, <2>5, <3>1
    <3> QED BY <1>4, <2>5, <3>2, <3>3, <3>4
  <2>6. ASSUME NEW y, BehindAt(x, k, y)', Joins(z, y)' PROVE Joins(z, y)
    <3>1. BehindAt(x, k + 1, z)' BY <2>3, <2>6
    <3>2. z # new /\ y # new BY <2>4, <2>6, <3>1
    <3> QED BY <1>4, <2>6, <3>2
  <2> QED BY <2>2, <2>3, <2>5, <2>6
<1>11. Nat \subseteq U /\ Nat \subseteq V
  <2> HIDE DEF U, V
  <2> QED BY <1>8, <1>9, <1>10, SetInduction
<1>12. ASSUME NEW k \in 1 .. NStep, NEW y PROVE AheadAt(x, k, y)' <=> AheadAt(x, k, y)
  <2>1. k - 1 \in Nat /\ k - 1 + 1 = k /\ k <= NStep BY <1>2
  <2>2. k - 1 \in U BY <1>11, <2>1
  <2> QED BY <2>1, <2>2
<1>13. ASSUME NEW k \in 1 .. SequenceLength, NEW y
       PROVE  BehindAt(x, k, y)' <=> BehindAt(x, k, y)
  <2>1. k - 1 \in Nat /\ k - 1 + 1 = k /\ k <= SequenceLength BY <1>2
  <2>2. k - 1 \in V BY <1>11, <2>1
  <2> QED BY <2>1, <2>2
<1> QED BY <1>12, <1>13 DEF SameChains

\* Steps that leave transitions and links as they are leave the chains as they are.
LEMMA QuietMoves ==
    ASSUME StoreInv, StoreInv', NEW x \in DOMAIN stored, DOMAIN stored' = DOMAIN stored,
           \A i \in DOMAIN stored : /\ stored'[i].transition = stored[i].transition
                                    /\ stored'[i].next = stored[i].next
    PROVE  SameChains(x)
<1>1. /\ JoinFacts /\ JoinFacts' /\ ChainFacts /\ ChainFacts' /\ x \in Int
      /\ Contains(x) /\ Contains(x)'
  <2>1. JoinFacts /\ ChainFacts /\ JoinFacts' /\ ChainFacts' BY JoinsAre, ChainsAre, ChainsAreNext
  <2> QED BY <2>1 DEF JoinFacts, Contains
<1>2. \A y, z : Joins(y, z)' <=> Joins(y, z) BY DEF Joins, Contains, Ends
<1> DEFINE U == {m \in Nat : \A y : /\ AheadAt(x, m + 1, y)' <=> AheadAt(x, m + 1, y)
                                    /\ BehindAt(x, m + 1, y)' <=> BehindAt(x, m + 1, y)}
<1>3. 0 \in U
  <2>1. \A y : /\ AheadAt(x, 1, y)' <=> AheadAt(x, 1, y)
               /\ BehindAt(x, 1, y)' <=> BehindAt(x, 1, y)
    BY <1>1 DEF ChainFacts
  <2> QED BY <2>1
<1>4. ASSUME NEW m \in Nat, m \in U PROVE m + 1 \in U
  <2> DEFINE k == m + 1
  <2>1. k \in Nat \ {0} /\ k = m + 1 OBVIOUS
  <2> HIDE DEF k
  <2>2. \A y : /\ AheadAt(x, k, y)' <=> AheadAt(x, k, y)
               /\ BehindAt(x, k, y)' <=> BehindAt(x, k, y)
    BY <1>4, <2>1
  <2>3. \A w : /\ AheadAt(x, k + 1, w) <=> \E y : AheadAt(x, k, y) /\ Joins(y, w)
               /\ BehindAt(x, k + 1, w) <=> \E y : BehindAt(x, k, y) /\ Joins(w, y)
    BY <1>1, <2>1 DEF ChainFacts
  <2>4. \A w : /\ AheadAt(x, k + 1, w)' <=> \E y : AheadAt(x, k, y)' /\ Joins(y, w)'
               /\ BehindAt(x, k + 1, w)' <=> \E y : BehindAt(x, k, y)' /\ Joins(w, y)'
    BY <1>1, <2>1 DEF ChainFacts
  <2>5. \A w : /\ AheadAt(x, k + 1, w)' <=> AheadAt(x, k + 1, w)
               /\ BehindAt(x, k + 1, w)' <=> BehindAt(x, k + 1, w)
    BY <1>2, <2>2, <2>3, <2>4
  <2> QED BY <2>1, <2>5
<1>5. Nat \subseteq U
  <2> HIDE DEF U
  <2> QED BY <1>3, <1>4, SetInduction
<1>6. ASSUME NEW k \in Nat \ {0}, NEW y
      PROVE  /\ AheadAt(x, k, y)' <=> AheadAt(x, k, y)
             /\ BehindAt(x, k, y)' <=> BehindAt(x, k, y)
  <2>1. k - 1 \in Nat /\ k - 1 + 1 = k OBVIOUS
  <2>2. k - 1 \in U BY <1>5, <2>1
  <2> QED BY <2>1, <2>2
<1>7. \A k : (k \in 1 .. NStep \/ k \in 1 .. SequenceLength) => k \in Nat \ {0}
  BY IndexConstants
<1> QED BY <1>6, <1>7 DEF SameChains

\* The windows a transition is drawn with are those they were.
SameReach(x) ==
    /\ \A n \in 1 .. NStep : \A y : y \in HorizonIds(x, n)' <=> y \in HorizonIds(x, n)
    /\ \A n \in 1 .. SequenceLength : \A y : y \in HistoryIds(x, n)' <=> y \in HistoryIds(x, n)

\* Equal chains give equal windows.
LEMMA ReachIs ==
    ASSUME StoreInv, StoreInv', NEW x \in DOMAIN stored, SameChains(x)
    PROVE  SameReach(x)
<1>1. ChainFacts /\ ChainFacts' /\ x \in Int
  <2>1. JoinFacts /\ ChainFacts /\ ChainFacts' BY JoinsAre, ChainsAre, ChainsAreNext
  <2> QED BY <2>1 DEF JoinFacts
<1>2. NStep \in Nat \ {0} /\ SequenceLength \in Nat \ {0} BY IndexConstants
<1>3. \A n \in Nat : \A y :
         /\ y \in HorizonIds(x, n) <=> \E k \in 1 .. n : AheadAt(x, k, y)
         /\ y \in HistoryIds(x, n) <=> \E k \in 1 .. n : BehindAt(x, k, y)
  BY <1>1 DEF ChainFacts
<1>4. \A n \in Nat : \A y :
         /\ y \in HorizonIds(x, n)' <=> \E k \in 1 .. n : AheadAt(x, k, y)'
         /\ y \in HistoryIds(x, n)' <=> \E k \in 1 .. n : BehindAt(x, k, y)'
  BY <1>1 DEF ChainFacts
<1>5. ASSUME NEW n \in 1 .. NStep, NEW y PROVE y \in HorizonIds(x, n)' <=> y \in HorizonIds(x, n)
  <2>1. n \in Nat /\ 1 .. n \subseteq 1 .. NStep BY <1>2
  <2>2. \A k \in 1 .. n : AheadAt(x, k, y)' <=> AheadAt(x, k, y) BY <2>1 DEF SameChains
  <2> QED BY <1>3, <1>4, <2>1, <2>2
<1>6. ASSUME NEW n \in 1 .. SequenceLength, NEW y
      PROVE  y \in HistoryIds(x, n)' <=> y \in HistoryIds(x, n)
  <2>1. n \in Nat /\ 1 .. n \subseteq 1 .. SequenceLength BY <1>2
  <2>2. \A k \in 1 .. n : BehindAt(x, k, y)' <=> BehindAt(x, k, y) BY <2>1 DEF SameChains
  <2> QED BY <1>3, <1>4, <2>1, <2>2
<1> QED BY <1>5, <1>6 DEF SameReach

\* A history reaches the reset when it has the first step of an episode in it.
LEMMA ResetIs ==
    ASSUME StoreInv, NEW x
    PROVE  StartsAtReset(x) <=>
             \E i \in HistoryIds(x, SequenceLength) : stored[i].transition[2] = 0
<1>1. StoreShape /\ LinksJoinNeighbours BY DEF StoreInv
<1>2. ASSUME NEW i \in DOMAIN stored, stored[i].transition[2] = 0
      PROVE  ~Contains(stored[i].previous)
  <2>1. SUFFICES ASSUME Contains(stored[i].previous) PROVE FALSE OBVIOUS
  <2> DEFINE p == stored[i].previous
  <2>2. p \in DOMAIN stored /\ stored[p].next = i BY <1>1, <2>1 DEF LinksJoinNeighbours, Contains
  <2>3. stored[i].transition = <<stored[p].transition[1], stored[p].transition[2] + 1>>
    BY <1>1, <2>2 DEF LinksJoinNeighbours, Contains
  <2>4. stored[p].transition[2] \in Nat BY <1>1, <2>2, InRing, RecordedIs, StoreConstants
  <2>5. stored[i].transition[2] = stored[p].transition[2] + 1 BY <2>3
  <2> QED BY <1>2, <2>4, <2>5
<1>3. HistoryIds(x, SequenceLength) \subseteq DOMAIN stored BY DEF HistoryIds
<1> QED BY <1>2, <1>3 DEF StartsAtReset

\* The same of the state after a step.
ResetFacts ==
    \A x : StartsAtReset(x) <=>
             \E i \in HistoryIds(x, SequenceLength) : stored[i].transition[2] = 0
LEMMA ResetIsNext == (StoreInv => ResetFacts) /\ (StoreInv' => ResetFacts')
<1>1. StoreInv => ResetFacts BY ResetIs DEF ResetFacts
<1> QED BY <1>1, PTL

\* A transition with the windows it had may be drawn when it might.
LEMMA EligibleAsBefore ==
    ASSUME StoreInv, StoreInv', NEW x \in DOMAIN stored, x \in DOMAIN stored', SameReach(x),
           \A i \in DOMAIN stored \cap DOMAIN stored' :
              stored'[i].transition = stored[i].transition
    PROVE  /\ Eligible(x)' <=> Eligible(x)
           /\ HorizonComplete(x)' <=> HorizonComplete(x)
           /\ HistoryIds(x, SequenceLength)' = HistoryIds(x, SequenceLength)
<1>1. NStep \in 1 .. NStep /\ SequenceLength \in 1 .. SequenceLength BY IndexConstants
<1>2. /\ HorizonIds(x, NStep)' = HorizonIds(x, NStep)
      /\ HistoryIds(x, SequenceLength)' = HistoryIds(x, SequenceLength)
  <2>1. /\ \A y : y \in HorizonIds(x, NStep)' <=> y \in HorizonIds(x, NStep)
        /\ \A y : y \in HistoryIds(x, SequenceLength)' <=> y \in HistoryIds(x, SequenceLength)
    BY <1>1 DEF SameReach
  <2> QED BY <2>1
<1>3. /\ HorizonIds(x, NStep) \subseteq DOMAIN stored
      /\ HistoryIds(x, SequenceLength) \subseteq DOMAIN stored
      /\ HorizonIds(x, NStep)' \subseteq DOMAIN stored'
      /\ HistoryIds(x, SequenceLength)' \subseteq DOMAIN stored'
  BY DEF HorizonIds, HistoryIds
<1>4. HorizonComplete(x)' <=> HorizonComplete(x) BY <1>2, <1>3 DEF HorizonComplete, Ends
<1>5. StartsAtReset(x)' <=> StartsAtReset(x)
  <2>1. /\ StartsAtReset(x) <=>
             \E i \in HistoryIds(x, SequenceLength) : stored[i].transition[2] = 0
        /\ StartsAtReset(x)' <=>
             \E i \in HistoryIds(x, SequenceLength)' : stored'[i].transition[2] = 0
    BY ResetIsNext DEF ResetFacts
  <2> QED BY <1>2, <1>3, <2>1
<1>6. HistoryComplete(x)' <=> HistoryComplete(x) BY <1>2, <1>5 DEF HistoryComplete
<1> QED BY <1>2, <1>4, <1>6 DEF Eligible, Contains

-----------------------------------------------------------------------------
(* What the changes since the index was brought up to date say.              *)
TouchedBy(x, c) ==
    \/ c.appended \in HorizonIds(x, NStep)
    \/ c.appended \in HistoryIds(x, SequenceLength)
    \/ NStep > 1 /\ c.evictedPrevious \in HorizonIds(x, NStep - 1)
    \/ SequenceLength > 1 /\ c.evictedNext \in HistoryIds(x, SequenceLength - 1)
Missed == {changes[k] : k \in MissedChanges}
IsGone(x) == \E c \in Missed : c.evicted = x
IsAgain(x) == \E c \in Missed : x \in c.reclassified
IsTouched(x) == IsAgain(x) \/ \E c \in Missed : TouchedBy(x, c)

\* A change is a candidate's when one of its ids is in the candidate's windows.
LEMMA AffectedIs ==
    ASSUME StoreInv, NEW x \in DOMAIN stored, NEW c \in LoggedChange
    PROVE  x \in AffectedCandidates(c) <=> TouchedBy(x, c)
<1>1. c.appended \in Int /\ c.evictedPrevious \in Int /\ c.evictedNext \in Int
  BY DEF LoggedChange
<1>2. NStep \in Nat \ {0} /\ SequenceLength \in Nat \ {0} BY IndexConstants
<1>3. \A a \in Int, n \in Nat : /\ x \in HistoryIds(a, n) <=> a \in HorizonIds(x, n)
                                /\ x \in HorizonIds(a, n) <=> a \in HistoryIds(x, n)
  BY Meet DEF MeetFacts
<1>4. NStep > 1 => NStep - 1 \in Nat BY <1>2
<1>5. SequenceLength > 1 => SequenceLength - 1 \in Nat BY <1>2
<1>6. /\ x \in HistoryIds(c.appended, NStep) <=> c.appended \in HorizonIds(x, NStep)
      /\ x \in HorizonIds(c.appended, SequenceLength)
           <=> c.appended \in HistoryIds(x, SequenceLength)
      /\ NStep > 1 => (x \in HistoryIds(c.evictedPrevious, NStep - 1)
                         <=> c.evictedPrevious \in HorizonIds(x, NStep - 1))
      /\ SequenceLength > 1 => (x \in HorizonIds(c.evictedNext, SequenceLength - 1)
                         <=> c.evictedNext \in HistoryIds(x, SequenceLength - 1))
  BY <1>1, <1>2, <1>3, <1>4, <1>5
<1> QED BY <1>6 DEF AffectedCandidates, TouchedBy

\* A change touches the transitions it touched as long as they keep their windows.
LEMMA TouchedAsBefore ==
    ASSUME NEW x, NEW c, SameReach(x)
    PROVE  TouchedBy(x, c)' <=> TouchedBy(x, c)
<1>1. NStep \in 1 .. NStep /\ SequenceLength \in 1 .. SequenceLength
      /\ (NStep > 1 => NStep - 1 \in 1 .. NStep)
      /\ (SequenceLength > 1 => SequenceLength - 1 \in 1 .. SequenceLength)
  BY IndexConstants
<1> QED BY <1>1 DEF TouchedBy, SameReach

\* The change log: consecutive revisions up to the store's, of transitions that have left.
LogInv ==
    /\ indexRevision \in Int /\ -1 <= indexRevision /\ indexRevision <= storeRevision
    /\ \A k \in 1 .. Len(changes) :
         /\ changes[k].revision = storeRevision - Len(changes) + k
         /\ changes[k].evicted < nextIndex /\ ~Contains(changes[k].evicted)

\* Logging a change: the log stays consecutive, and nothing the index has missed is forgotten
\* unless the index has to be built again.
LEMMA LogMoves ==
    ASSUME StoreShape, LogInv, NEW c \in LoggedChange, c.revision = storeRevision + 1,
           changes' = Logged(changes, c), storeRevision' = storeRevision + 1,
           indexRevision' = indexRevision
    PROVE  /\ \A k \in 1 .. Len(changes') :
                /\ changes'[k].revision = storeRevision' - Len(changes') + k
                /\ changes'[k] = c \/ \E j \in 1 .. Len(changes) : changes'[k] = changes[j]
           /\ ~MustRebuild' => ~MustRebuild /\ Missed \cup {c} \subseteq Missed'
<1>1. /\ changes \in Seq(LoggedChange) /\ Len(changes) \in Nat /\ storeRevision \in Nat
      /\ ChangesKept \in Nat \ {0} /\ Len(changes) <= ChangesKept
      /\ indexRevision \in Int /\ indexRevision <= storeRevision
  BY StoreConstants DEF StoreShape, LogInv
<1> DEFINE n == Len(changes)
<1>2. PICK d \in {0, 1} :
         /\ Len(changes') = n - d + 1 /\ changes'[n - d + 1] = c /\ d <= n
         /\ \A k \in 1 .. n - d : changes'[k] = changes[k + d]
  <2>1. CASE n < ChangesKept
    <3>1. changes' = Append(changes, c) BY <2>1 DEF Logged
    <3>2. /\ Len(changes') = n - 0 + 1 /\ changes'[n - 0 + 1] = c /\ 0 <= n
          /\ \A k \in 1 .. n - 0 : changes'[k] = changes[k + 0]
      BY <1>1, <3>1
    <3> QED BY <3>2
  <2>2. CASE ~(n < ChangesKept)
    <3>1. changes' = Append(Tail(changes), c) /\ n >= 1 BY <1>1, <2>2 DEF Logged
    <3>2. changes # <<>> BY <1>1, <3>1
    <3>3. /\ Tail(changes) \in Seq(LoggedChange) /\ Len(Tail(changes)) = n - 1
          /\ \A k \in 1 .. n - 1 : Tail(changes)[k] = changes[k + 1]
      BY <1>1, <3>2
    <3>4. /\ Len(changes') = n - 1 + 1 /\ changes'[n - 1 + 1] = c /\ 1 <= n
          /\ \A k \in 1 .. n - 1 : changes'[k] = changes[k + 1]
      BY <1>1, <3>1, <3>3
    <3> QED BY <3>4
  <2> QED BY <2>1, <2>2
<1>3. \A k \in 1 .. n : changes[k].revision = storeRevision - n + k BY DEF LogInv
<1>4. ASSUME NEW k \in 1 .. Len(changes')
      PROVE  /\ changes'[k].revision = storeRevision' - Len(changes') + k
             /\ changes'[k] = c \/ \E j \in 1 .. n : changes'[k] = changes[j]
  <2>1. CASE k = n - d + 1 BY <1>1, <1>2, <2>1
  <2>2. CASE k # n - d + 1
    <3>1. k \in 1 .. n - d /\ k + d \in 1 .. n BY <1>1, <1>2, <2>2
    <3>2. changes'[k] = changes[k + d] BY <1>2, <3>1
    <3>3. changes[k + d].revision = storeRevision - n + (k + d) BY <1>3, <3>1
    <3>4. storeRevision - n + (k + d) = storeRevision' - Len(changes') + k BY <1>1, <1>2, <3>1
    <3>5. changes'[k].revision = storeRevision' - Len(changes') + k BY <3>2, <3>3, <3>4
    <3> QED BY <3>1, <3>2, <3>5
  <2> QED BY <2>1, <2>2
<1>5. ASSUME ~MustRebuild' PROVE ~MustRebuild /\ Missed \cup {c} \subseteq Missed'
  <2>1. indexRevision # NoId /\ indexRevision >= storeRevision - n + d
    <3>1. 1 \in 1 .. Len(changes') /\ Len(changes') = n - d + 1 BY <1>1, <1>2
    <3>5. changes'[1].revision = storeRevision' - Len(changes') + 1 BY <1>4, <3>1
    <3>2. changes'[1].revision = storeRevision + 1 - (n - d + 1) + 1 BY <1>1, <1>2, <3>1, <3>5
    <3>3. indexRevision # NoId /\ indexRevision # storeRevision + 1 BY <1>1, <1>5 DEF MustRebuild
    <3>4. ~(indexRevision < changes'[1].revision - 1) BY <1>5, <3>3 DEF MustRebuild
    <3> QED BY <1>1, <1>2, <3>2, <3>3, <3>4
  <2>2. ~MustRebuild
    <3>1. changes = <<>> => indexRevision = storeRevision BY <1>1, <1>2, <2>1
    <3>2. changes # <<>> => changes[1].revision = storeRevision - n + 1 BY <1>1, <1>3
    <3> QED BY <1>1, <1>2, <2>1, <3>1, <3>2 DEF MustRebuild
  <2>3. \A k \in 1 .. Len(changes') :
          changes'[k].revision > indexRevision => changes'[k] \in Missed'
    BY DEF Missed, MissedChanges
  <2>4. c \in Missed'
    <3>1. n - d + 1 \in 1 .. Len(changes') /\ c.revision > indexRevision BY <1>1, <1>2
    <3> QED BY <1>2, <2>3, <3>1
  <2>5. ASSUME NEW k \in 1 .. n, changes[k].revision > indexRevision PROVE changes[k] \in Missed'
    <3>1. k > d BY <1>1, <1>2, <1>3, <2>1, <2>5
    <3>2. k - d \in 1 .. n - d /\ k - d \in 1 .. Len(changes') /\ k - d + d = k BY <1>1, <1>2, <3>1
    <3>3. changes'[k - d] = changes[k] BY <1>2, <3>2
    <3> QED BY <2>3, <2>5, <3>2, <3>3
  <2>6. Missed \subseteq Missed' BY <2>5 DEF Missed, MissedChanges
  <2> QED BY <2>2, <2>4, <2>6
<1> QED BY <1>4, <1>5

-----------------------------------------------------------------------------
(* The index.                                                                *)
IndexSlot == [id : Int, active : BOOLEAN, elite : BOOLEAN, expert : BOOLEAN, low : BOOLEAN]
IsActive(x) == slots[SlotOf(x)].active /\ slots[SlotOf(x)].id = x
IsRight(x) == slots[SlotOf(x)].elite = IsElite(x) /\ slots[SlotOf(x)].expert = IsExpert(x)

(* The index is right about every transition the changes it missed say nothing
   of, and holds no other than those of the ring and those that left it since.  *)
Current ==
    /\ \A s \in 0 .. Capacity - 1 : slots[s].active =>
         /\ SlotOf(slots[s].id) = s /\ slots[s].id < nextIndex
         /\ Contains(slots[s].id) \/ IsGone(slots[s].id)
    /\ \A x \in DOMAIN stored : ~IsTouched(x) => (IsActive(x) <=> Eligible(x))
    /\ \A x \in DOMAIN stored : ~IsAgain(x) /\ IsActive(x) => IsRight(x)

IndexShape ==
    /\ slots \in [0 .. Capacity - 1 -> IndexSlot]
    /\ PrioritiesStayWithTheirId
IndexInv == StoreInv /\ LogInv /\ IndexShape /\ (~MustRebuild => Current)

\* The ids of the ring are in slots of their own.
LEMMA SlotsApart ==
    ASSUME StoreShape
    PROVE  /\ \A x \in Int : SlotOf(x) \in 0 .. Capacity - 1
           /\ \A x, y \in DOMAIN stored : SlotOf(x) = SlotOf(y) => x = y
<1>1. Capacity \in Nat \ {0} BY StoreConstants
<1>2. \A x \in DOMAIN stored : x \in Int /\ nextIndex - Capacity <= x /\ x < nextIndex
      /\ nextIndex \in Int
  BY InRing DEF StoreShape
<1>3. \A x \in Int : SlotOf(x) \in 0 .. Capacity - 1 /\ x = Capacity * (x \div Capacity) + SlotOf(x)
                     /\ x \div Capacity \in Int
  BY <1>1 DEF SlotOf
<1>4. ASSUME NEW x \in DOMAIN stored, NEW y \in DOMAIN stored, SlotOf(x) = SlotOf(y) PROVE x = y
  <2> DEFINE a == x \div Capacity  b == y \div Capacity
  <2>1. a \in Int /\ b \in Int /\ x = Capacity * a + SlotOf(x) /\ y = Capacity * b + SlotOf(x)
    BY <1>2, <1>3, <1>4
  <2>2. x - y < Capacity /\ y - x < Capacity BY <1>1, <1>2
  <2> HIDE DEF a, b
  <2>3. ASSUME NEW m \in Int, NEW q \in Int, m < q
        PROVE  Capacity * q - Capacity * m >= Capacity
    <3>1. Capacity * (q - m) >= Capacity BY <1>1, <2>3
    <3>2. Capacity \in Int BY <1>1
    <3>3. Capacity * (q - m) = Capacity * q - Capacity * m BY <3>2
    <3> QED BY <3>1, <3>3
  <2>4. Capacity * a \in Int /\ Capacity * b \in Int /\ SlotOf(x) \in Int /\ Capacity \in Int
    BY <1>1, <1>2, <1>3, <2>1
  <2>5. a > b => FALSE BY <2>1, <2>2, <2>3, <2>4
  <2>6. b > a => FALSE BY <2>1, <2>2, <2>3, <2>4
  <2> QED BY <2>1, <2>5, <2>6
<1> QED BY <1>3, <1>4

\* The index starts with nothing in it.
LEMMA IndexStarts == ReplayInit => IndexInv
<1> SUFFICES ASSUME ReplayInit PROVE IndexInv OBVIOUS
<1>1. StoreInv BY StoreStarts DEF ReplayInit
<1>2. changes = <<>> /\ storeRevision = 0 /\ indexRevision = NoId
      /\ slots = [s \in 0 .. Capacity - 1 |-> EmptySlot]
  BY DEF ReplayInit, StoreInit
<1>3. LogInv BY <1>2 DEF LogInv, NoId
<1>4. IndexShape BY <1>2 DEF IndexShape, PrioritiesStayWithTheirId, IndexSlot, EmptySlot, NoId
<1>5. MustRebuild BY <1>2 DEF MustRebuild
<1> QED BY <1>1, <1>3, <1>4, <1>5 DEF IndexInv

\* The change a write logs.
WriteChange ==
    IF Contains(Evicted)
      THEN Change(nextIndex, Evicted, stored[Evicted].previous, stored[Evicted].next, {})
      ELSE Change(nextIndex, NoId, NoId, NoId, {})

\* What it says.
LEMMA WriteLogs ==
    ASSUME StoreInv, NEW t, NEW pace, AnyWrite(t, pace), NEW c, c = WriteChange
    PROVE  /\ changes' = Logged(changes, c) /\ storeRevision' = storeRevision + 1
           /\ c \in LoggedChange /\ c.revision = storeRevision + 1 /\ c.appended = nextIndex
           /\ c.reclassified = {} /\ c.evicted < nextIndex /\ c.evicted \notin DOMAIN stored'
           /\ Contains(Evicted) => /\ c.evicted = Evicted
                                   /\ c.evictedPrevious = stored[Evicted].previous
                                   /\ c.evictedNext = stored[Evicted].next
<1>1. /\ StoreShape /\ storeRevision \in Nat /\ nextIndex \in Nat /\ Capacity \in Nat \ {0}
      /\ NoId = -1 /\ Evicted \in Int
  BY StoreConstants DEF StoreInv, StoreShape, Evicted
<1>2. /\ changes' = Logged(changes, c) /\ storeRevision' = storeRevision + 1
  BY DEF AnyWrite, Write, WriteChange
<1>3. DOMAIN stored' = (DOMAIN stored \ {Evicted}) \cup {nextIndex} BY RingAfter
<1>4. /\ NoId \notin DOMAIN stored /\ Evicted < nextIndex /\ NoId < nextIndex
      /\ {} \in SUBSET Int
  BY <1>1, InRing, RingMoves DEF Evicted
<1>5. CASE Contains(Evicted)
  <2>1. stored[Evicted].previous \in Int /\ stored[Evicted].next \in Int
    BY <1>1, <1>5, InRing DEF Contains, Id
  <2>2. c = Change(nextIndex, Evicted, stored[Evicted].previous, stored[Evicted].next, {})
    BY <1>5 DEF WriteChange
  <2>3. c \in LoggedChange
    <3>1. nextIndex \in Int /\ Evicted \in Int BY <1>1
    <3>2. PICK p \in Int, n \in Int : p = stored[Evicted].previous /\ n = stored[Evicted].next
      BY <2>1
    <3>3. c = Change(nextIndex, Evicted, p, n, {}) BY <2>2, <3>2
    <3> QED BY <1>1, <1>4, <3>1, <3>3, ChangeFacts
  <2>4. /\ c.revision = storeRevision + 1 /\ c.appended = nextIndex /\ c.reclassified = {}
        /\ c.evicted = Evicted /\ c.evictedPrevious = stored[Evicted].previous
        /\ c.evictedNext = stored[Evicted].next
    BY <2>2 DEF Change
  <2> QED BY <1>1, <1>2, <1>3, <1>4, <2>3, <2>4
<1>6. CASE ~Contains(Evicted)
  <2>1. c = Change(nextIndex, NoId, NoId, NoId, {}) BY <1>6 DEF WriteChange
  <2>2. c \in LoggedChange BY <1>1, <1>4, <2>1, ChangeFacts
  <2>3. /\ c.revision = storeRevision + 1 /\ c.appended = nextIndex /\ c.reclassified = {}
        /\ c.evicted = NoId
    BY <2>1 DEF Change
  <2> QED BY <1>1, <1>2, <1>3, <1>4, <1>6, <2>2, <2>3
<1> QED BY <1>5, <1>6

\* A write touches every transition whose windows it changes, and the new one.
LEMMA WriteTouches ==
    ASSUME StoreInv, StoreInv', NEW t, NEW pace, AnyWrite(t, pace), NEW c, c = WriteChange,
           NEW x \in DOMAIN stored', ~TouchedBy(x, c)'
    PROVE  x \in DOMAIN stored /\ SameReach(x) /\ (Eligible(x)' <=> Eligible(x))
<1>1. /\ c.appended = nextIndex
      /\ Contains(Evicted) => /\ c.evictedPrevious = stored[Evicted].previous
                              /\ c.evictedNext = stored[Evicted].next
  BY WriteLogs
<1> DEFINE new == c.appended  p == c.evictedPrevious  n == c.evictedNext
<1>2. Unmoved(x, new, p, n)' BY DEF TouchedBy, Unmoved
<1>3. new = nextIndex /\ (Contains(Evicted) => p = stored[Evicted].previous
                                                /\ n = stored[Evicted].next)
  BY <1>1
<1>4. x # new
  <2>1. x \in Int /\ Contains(x)' /\ ChainFacts' BY ChainsAreNext DEF JoinFacts, Contains
  <2>2. AheadAt(x, 1, x)' BY <2>1 DEF ChainFacts
  <2>3. NStep \in Nat /\ 1 \in 1 .. NStep BY IndexConstants
  <2>4. x \in HorizonIds(x, NStep)' BY <2>1, <2>2, <2>3 DEF ChainFacts
  <2> QED BY <1>2, <2>4 DEF Unmoved
<1> HIDE DEF new, p, n
<1>5. x \in DOMAIN stored BY <1>3, <1>4, RingAfter
<1>6. SameChains(x) BY <1>2, <1>3, <1>5, WriteMoves
<1>7. SameReach(x) BY <1>5, <1>6, ReachIs
<1>8. \A i \in DOMAIN stored \cap DOMAIN stored' : stored'[i].transition = stored[i].transition
  <2>1. /\ RingFacts(stored', t, pace, Before1(t), After1(t, pace))
        /\ DOMAIN stored' = DOMAIN Kept \cup {nextIndex} /\ nextIndex \notin DOMAIN stored
    BY RingAfter
  <2> QED BY <2>1 DEF RingFacts
<1>9. Eligible(x)' <=> Eligible(x) BY <1>5, <1>7, <1>8, EligibleAsBefore
<1> QED BY <1>5, <1>7, <1>9

\* A write keeps the index right about what its change says nothing of.
LEMMA WriteFollowed ==
    ASSUME IndexInv, StoreInv', NEW t, NEW pace, AnyWrite(t, pace), UNCHANGED indexVars
    PROVE  IndexInv'
<1>1. StoreInv /\ StoreShape /\ LogInv /\ IndexShape BY DEF IndexInv, StoreInv
<1>2. PICK c : c = WriteChange OBVIOUS
<1>3. /\ changes' = Logged(changes, c) /\ storeRevision' = storeRevision + 1
      /\ c \in LoggedChange /\ c.revision = storeRevision + 1 /\ c.appended = nextIndex
      /\ c.reclassified = {} /\ c.evicted < nextIndex /\ c.evicted \notin DOMAIN stored'
      /\ Contains(Evicted) => c.evicted = Evicted
  BY <1>1, <1>2, WriteLogs
<1>4. /\ nextIndex' = nextIndex + 1 /\ nextIndex \in Nat /\ nextIndex \notin DOMAIN stored
      /\ DOMAIN stored' = (DOMAIN stored \ {Evicted}) \cup {nextIndex}
      /\ \A i \in DOMAIN stored \ {Evicted} :
            /\ stored'[i].transition = stored[i].transition /\ stored'[i].pace = stored[i].pace
  <2>1. RingFacts(stored', t, pace, Before1(t), After1(t, pace)) BY <1>1, RingAfter
  <2> QED BY <1>1, <2>1, RingAfter DEF RingFacts
<1>5. slots' = slots /\ indexRevision' = indexRevision /\ lowered' = lowered BY DEF indexVars
<1>6. /\ \A k \in 1 .. Len(changes') :
           /\ changes'[k].revision = storeRevision' - Len(changes') + k
           /\ changes'[k] = c \/ \E j \in 1 .. Len(changes) : changes'[k] = changes[j]
      /\ ~MustRebuild' => ~MustRebuild /\ Missed \cup {c} \subseteq Missed'
  BY <1>1, <1>3, <1>5, LogMoves
<1>7. LogInv'
  <2>1. \A j \in 1 .. Len(changes) : changes[j].evicted < nextIndex /\ ~Contains(changes[j].evicted)
                                    /\ changes[j].evicted \in Int
    <3>1. changes \in Seq(LoggedChange) BY <1>1 DEF StoreShape
    <3>2. \A j \in 1 .. Len(changes) : changes[j] \in LoggedChange BY <3>1
    <3>3. \A c1 \in LoggedChange : c1.evicted \in Int BY DEF LoggedChange
    <3> QED BY <1>1, <3>2, <3>3 DEF LogInv
  <2>2. \A k \in 1 .. Len(changes') :
            changes'[k].evicted < nextIndex' /\ changes'[k].evicted \notin DOMAIN stored'
    <3>1. c.evicted \in Int BY <1>3 DEF LoggedChange
    <3>2. c.evicted < nextIndex' /\ c.evicted \notin DOMAIN stored' BY <1>3, <1>4, <3>1
    <3>3. ASSUME NEW j \in 1 .. Len(changes)
          PROVE  changes[j].evicted < nextIndex' /\ changes[j].evicted \notin DOMAIN stored'
      <4>1. PICK o \in Int : o = changes[j].evicted BY <2>1
      <4>2. o < nextIndex /\ o \notin DOMAIN stored BY <2>1, <4>1 DEF Contains
      <4>3. o < nextIndex' /\ o \notin DOMAIN stored' BY <1>4, <4>2
      <4> QED BY <4>1, <4>3
    <3> QED BY <1>6, <3>2, <3>3
  <2>3. storeRevision \in Nat BY <1>1 DEF StoreShape
  <2> QED BY <1>1, <1>3, <1>5, <1>6, <2>2, <2>3 DEF LogInv, Contains
<1>8. IndexShape' BY <1>1, <1>5 DEF IndexShape, PrioritiesStayWithTheirId
<1>9. ASSUME ~MustRebuild' PROVE Current'
  <2>1. Current /\ Missed \subseteq Missed' /\ c \in Missed' BY <1>6, <1>9 DEF IndexInv
  <2>2. \A x : (IsActive(x)' <=> IsActive(x)) /\ (IsGone(x) => IsGone(x)')
              /\ (IsAgain(x) => IsAgain(x)')
    BY <1>5, <2>1 DEF IsActive, IsGone, IsAgain
  <2>3. ASSUME NEW s \in 0 .. Capacity - 1, slots[s].active
        PROVE  /\ SlotOf(slots[s].id) = s /\ slots[s].id < nextIndex'
               /\ slots[s].id \in DOMAIN stored' \/ IsGone(slots[s].id)'
    <3>1. /\ SlotOf(slots[s].id) = s /\ slots[s].id < nextIndex
          /\ Contains(slots[s].id) \/ IsGone(slots[s].id)
          /\ slots[s].id \in Int
      BY <1>1, <2>1, <2>3 DEF Current, IndexShape, IndexSlot
    <3>2. PICK x \in Int : x = slots[s].id BY <3>1
    <3>3. x < nextIndex' BY <1>4, <3>1, <3>2
    <3>4. x = Evicted /\ Contains(x) => IsGone(x)'
      <4>1. c \in Missed' /\ (x = Evicted /\ Contains(x) => c.evicted = x) BY <1>3, <2>1
      <4> QED BY <4>1 DEF IsGone
    <3>5. IsGone(x) => IsGone(x)' BY <2>2
    <3>6. x \in DOMAIN stored' \/ IsGone(x)' BY <1>4, <3>1, <3>2, <3>4, <3>5 DEF Contains
    <3>7. IsGone(slots[s].id)' <=> IsGone(x)' BY <1>5, <3>2 DEF IsGone
    <3> QED BY <3>1, <3>2, <3>3, <3>6, <3>7
  <2>4. ASSUME NEW x \in DOMAIN stored', ~IsTouched(x)' PROVE IsActive(x)' <=> Eligible(x)'
    <3>1. ~TouchedBy(x, c)' BY <2>1, <2>4 DEF IsTouched
    <3>2. x \in DOMAIN stored /\ SameReach(x) /\ (Eligible(x)' <=> Eligible(x))
      BY <1>1, <1>2, <3>1, WriteTouches
    <3>3. ASSUME IsTouched(x) PROVE FALSE
      <4>1. ~IsAgain(x)' /\ \A d \in Missed' : ~TouchedBy(x, d)' BY <2>4 DEF IsTouched
      <4>2. PICK d \in Missed : TouchedBy(x, d) BY <2>2, <3>3, <4>1 DEF IsTouched
      <4>3. d \in Missed' BY <2>1
      <4>4. TouchedBy(x, d)' BY <3>2, <4>2, TouchedAsBefore
      <4> QED BY <4>1, <4>3, <4>4
    <3> QED BY <2>1, <2>2, <3>2, <3>3 DEF Current
  <2>5. ASSUME NEW x \in DOMAIN stored', ~IsAgain(x)', IsActive(x) PROVE IsRight(x)'
    <3>1. x \in DOMAIN stored \ {Evicted}
      <4>1. SUFFICES ASSUME x = nextIndex PROVE FALSE BY <1>4
      <4>2. x \in Int /\ SlotOf(x) \in 0 .. Capacity - 1 BY <1>1, <1>4, <4>1, SlotsApart
      <4>3. PICK s \in 0 .. Capacity - 1 : s = SlotOf(x) BY <4>2
      <4>4. slots[s].active /\ slots[s].id = x BY <2>5, <4>3 DEF IsActive
      <4>5. slots[s].id < nextIndex BY <2>1, <4>4 DEF Current
      <4> QED BY <1>4, <4>1, <4>4, <4>5
    <3>2. IsRight(x) BY <2>1, <2>2, <2>5, <3>1 DEF Current
    <3> QED BY <1>4, <1>5, <3>1, <3>2 DEF IsRight, IsElite, IsExpert, IsDemo
  <2> QED BY <1>5, <2>2, <2>3, <2>4, <2>5 DEF Current, Contains
<1> QED BY <1>7, <1>8, <1>9 DEF IndexInv

\* Labelling an episode: links do not change, and the log says whose pace does.
LEMMA LabelFollowed ==
    ASSUME IndexInv, StoreInv', NEW e \in Episode, NEW p \in Label, LabelEpisode(e, p),
           UNCHANGED indexVars
    PROVE  IndexInv'
<1>1. StoreInv /\ StoreShape /\ LogInv /\ IndexShape BY DEF IndexInv, StoreInv
<1>2. PICK D : D = {id \in DOMAIN stored : stored[id].transition[1] = e /\ stored[id].pace # p}
  OBVIOUS
<1>3. /\ stored' = [id \in DOMAIN stored |->
              IF id \in D THEN [stored[id] EXCEPT !.pace = p] ELSE stored[id]]
      /\ UNCHANGED nextIndex
      /\ IF D = {} THEN UNCHANGED <<storeRevision, changes>>
         ELSE /\ storeRevision' = storeRevision + 1
              /\ changes' = Logged(changes, Change(NoId, NoId, NoId, NoId, D))
  BY <1>2 DEF LabelEpisode
<1>4. DOMAIN stored' = DOMAIN stored
      /\ \A i \in DOMAIN stored :
            /\ stored'[i].transition = stored[i].transition /\ stored'[i].next = stored[i].next
            /\ i \notin D => stored'[i].pace = stored[i].pace
  <2>1. \A i \in DOMAIN stored : stored[i] \in StoredEntry BY <1>1, InRing
  <2> QED BY <1>3, <2>1 DEF StoredEntry
<1>5. slots' = slots /\ indexRevision' = indexRevision /\ lowered' = lowered BY DEF indexVars
<1>6. IndexShape' BY <1>1, <1>5 DEF IndexShape, PrioritiesStayWithTheirId
<1>7. ASSUME NEW x \in DOMAIN stored
      PROVE  SameReach(x) /\ (Eligible(x)' <=> Eligible(x))
  <2>1. SameChains(x) BY <1>1, <1>4, QuietMoves
  <2>2. SameReach(x) BY <1>1, <2>1, ReachIs
  <2> QED BY <1>1, <1>4, <2>2, EligibleAsBefore
<1>8. LogInv' /\ (~MustRebuild' => /\ ~MustRebuild /\ Missed \subseteq Missed'
                                   /\ \A x \in D : IsAgain(x)')
  <2>1. CASE D = {}
    <3>1. storeRevision' = storeRevision /\ changes' = changes BY <1>3, <2>1
    <3>2. LogInv' BY <1>1, <1>3, <1>4, <1>5, <3>1 DEF LogInv, Contains
    <3>3. MustRebuild' = MustRebuild /\ Missed' = Missed
      BY <1>5, <3>1 DEF MustRebuild, Missed, MissedChanges
    <3> QED BY <2>1, <3>2, <3>3
  <2>2. CASE D # {}
    <3>1. PICK c : c = Change(NoId, NoId, NoId, NoId, D) OBVIOUS
    <3>2. /\ changes' = Logged(changes, c) /\ storeRevision' = storeRevision + 1
          /\ storeRevision \in Nat
      BY <1>1, <1>3, <2>2, <3>1 DEF StoreShape
    <3>3. c \in LoggedChange
      <4>1. D \in SUBSET Int /\ NoId \in Int BY <1>1, <1>2, InRing, StoreConstants
      <4> QED BY <3>1, <3>2, <4>1, ChangeFacts
    <3>4. c.revision = storeRevision + 1 /\ c.evicted = NoId /\ c.reclassified = D
      BY <3>1 DEF Change
    <3>5. /\ \A k \in 1 .. Len(changes') :
               /\ changes'[k].revision = storeRevision' - Len(changes') + k
               /\ changes'[k] = c \/ \E j \in 1 .. Len(changes) : changes'[k] = changes[j]
          /\ ~MustRebuild' => ~MustRebuild /\ Missed \cup {c} \subseteq Missed'
      BY <1>1, <1>5, <3>2, <3>3, <3>4, LogMoves
    <3>6. NoId < nextIndex /\ NoId \notin DOMAIN stored BY <1>1, InRing, RingMoves, StoreConstants
    <3>7. \A k \in 1 .. Len(changes') :
              changes'[k].evicted < nextIndex /\ changes'[k].evicted \notin DOMAIN stored
      BY <1>1, <3>4, <3>5, <3>6 DEF LogInv, Contains
    <3>8. LogInv' BY <1>1, <1>3, <1>4, <1>5, <3>2, <3>5, <3>7 DEF LogInv, Contains
    <3>9. ASSUME ~MustRebuild', NEW x \in D PROVE IsAgain(x)'
      <4>1. c \in Missed' BY <3>5, <3>9
      <4> QED BY <3>4, <4>1 DEF IsAgain
    <3> QED BY <3>5, <3>8, <3>9
  <2> QED BY <2>1, <2>2
<1>9. ASSUME ~MustRebuild' PROVE Current'
  <2>1. Current /\ Missed \subseteq Missed' /\ \A x \in D : IsAgain(x)'
    BY <1>8, <1>9 DEF IndexInv
  <2>2. \A x : (IsActive(x)' <=> IsActive(x)) /\ (IsGone(x) => IsGone(x)')
              /\ (IsAgain(x) => IsAgain(x)')
    BY <1>5, <2>1 DEF IsActive, IsGone, IsAgain
  <2>3. ASSUME NEW s \in 0 .. Capacity - 1, slots[s].active
        PROVE  /\ SlotOf(slots[s].id) = s /\ slots[s].id < nextIndex'
               /\ slots[s].id \in DOMAIN stored' \/ IsGone(slots[s].id)'
    <3>1. /\ SlotOf(slots[s].id) = s /\ slots[s].id < nextIndex
          /\ Contains(slots[s].id) \/ IsGone(slots[s].id)
      BY <2>1, <2>3 DEF Current
    <3>2. PICK x : x = slots[s].id OBVIOUS
    <3>3. IsGone(slots[s].id)' <=> IsGone(x)' BY <1>5, <3>2 DEF IsGone
    <3> QED BY <1>3, <1>4, <2>2, <3>1, <3>2, <3>3 DEF Contains
  <2>4. ASSUME NEW x \in DOMAIN stored', ~IsTouched(x)' PROVE IsActive(x)' <=> Eligible(x)'
    <3>1. x \in DOMAIN stored /\ SameReach(x) /\ (Eligible(x)' <=> Eligible(x)) BY <1>4, <1>7
    <3>2. ASSUME IsTouched(x) PROVE FALSE
      <4>1. ~IsAgain(x)' /\ \A d \in Missed' : ~TouchedBy(x, d)' BY <2>4 DEF IsTouched
      <4>2. PICK d \in Missed : TouchedBy(x, d) BY <2>2, <3>2, <4>1 DEF IsTouched
      <4>3. d \in Missed' BY <2>1
      <4>4. TouchedBy(x, d)' BY <3>1, <4>2, TouchedAsBefore
      <4> QED BY <4>1, <4>3, <4>4
    <3> QED BY <2>1, <2>2, <3>1, <3>2 DEF Current
  <2>5. ASSUME NEW x \in DOMAIN stored', ~IsAgain(x)', IsActive(x) PROVE IsRight(x)'
    <3>1. x \in DOMAIN stored /\ x \notin D BY <1>4, <2>1, <2>5
    <3>2. IsRight(x) BY <2>1, <2>2, <2>5, <3>1 DEF Current
    <3> QED BY <1>4, <1>5, <3>1, <3>2 DEF IsRight, IsElite, IsExpert, IsDemo
  <2> QED BY <1>5, <2>2, <2>3, <2>4, <2>5 DEF Current, Contains
<1> QED BY <1>6, <1>8, <1>9 DEF IndexInv

\* A restart: the index has to be built again.
LEMMA RestoreFollowed ==
    ASSUME IndexInv, StoreInv', Restore
    PROVE  IndexInv'
<1>1. StoreInv /\ StoreShape /\ LogInv /\ IndexShape BY DEF IndexInv, StoreInv
<1>2. /\ changes' = <<>> /\ storeRevision' = storeRevision + 1 /\ storeRevision \in Nat
      /\ indexRevision' = NoId /\ lowered' = lowered
      /\ slots' = [s \in DOMAIN slots |-> [slots[s] EXCEPT !.active = FALSE]]
  BY <1>1 DEF Restore, Reload, StoreShape
<1>3. LogInv'
  <2>1. Len(changes') = 0 BY <1>2
  <2> QED BY <1>2, <2>1, StoreConstants DEF LogInv
<1>4. MustRebuild' BY <1>2 DEF MustRebuild
<1>5. IndexShape'
  <2>1. slots \in [0 .. Capacity - 1 -> IndexSlot] BY <1>1 DEF IndexShape
  <2>2. ASSUME NEW s \in 0 .. Capacity - 1
        PROVE  /\ slots'[s] \in IndexSlot /\ slots'[s].low = slots[s].low
               /\ slots'[s].id = slots[s].id
    <3>1. slots[s] \in IndexSlot BY <2>1
    <3>2. slots'[s] = [slots[s] EXCEPT !.active = FALSE] BY <1>2, <2>1
    <3> QED BY <3>1, <3>2 DEF IndexSlot
  <2>3. slots' \in [0 .. Capacity - 1 -> IndexSlot] BY <1>2, <2>1, <2>2
  <2>4. PrioritiesStayWithTheirId'
    <3>1. \A s \in 0 .. Capacity - 1 : slots[s].low => slots[s].id \in lowered
      BY <1>1, <2>1 DEF IndexShape, PrioritiesStayWithTheirId
    <3>2. ASSUME NEW s \in 0 .. Capacity - 1, slots'[s].low PROVE slots'[s].id \in lowered'
      <4>1. slots'[s].low = slots[s].low /\ slots'[s].id = slots[s].id /\ lowered' = lowered
        BY <1>2, <2>2
      <4>2. slots[s].low BY <3>2, <4>1
      <4> QED BY <3>1, <4>1, <4>2
    <3>3. DOMAIN slots' = 0 .. Capacity - 1 BY <2>3
    <3> QED BY <3>2, <3>3 DEF PrioritiesStayWithTheirId
  <2> QED BY <2>3, <2>4 DEF IndexShape
<1> QED BY <1>3, <1>4, <1>5 DEF IndexInv

\* Steps that leave the store as it is.
LEMMA StoreStays ==
    ASSUME StoreInv, UNCHANGED storeVars
    PROVE  StoreInv'
<1>1. OnceInv' /\ OwnInv' /\ LinksJoinNeighbours' /\ NeighboursAreLinked'
  BY SameLinks DEF storeVars
<1>2. StoreShape' /\ StepsInv' /\ ClosedInv'
  BY DEF storeVars, StoreInv, StoreShape, StepsInv, ClosedInv, Contains
<1> QED BY <1>1, <1>2 DEF StoreInv

\* Steps that leave the store and what is active as they are.
LEMMA SameIndex ==
    ASSUME IndexInv, StoreInv', IndexShape', UNCHANGED <<storeVars, indexRevision>>,
           \A s \in 0 .. Capacity - 1 :
              /\ slots'[s].id = slots[s].id /\ slots'[s].active = slots[s].active
              /\ slots'[s].elite = slots[s].elite /\ slots'[s].expert = slots[s].expert
    PROVE  IndexInv'
<1>1. StoreInv /\ StoreShape /\ LogInv BY DEF IndexInv, StoreInv
<1>2. /\ stored' = stored /\ nextIndex' = nextIndex /\ storeRevision' = storeRevision
      /\ changes' = changes /\ indexRevision' = indexRevision
  BY DEF storeVars
<1>3. LogInv' BY <1>1, <1>2 DEF LogInv, Contains
<1>4. MustRebuild' = MustRebuild /\ Missed' = Missed
  BY <1>2 DEF MustRebuild, Missed, MissedChanges
<1>5. ASSUME Current PROVE Current'
  <2>1. ASSUME NEW x \in DOMAIN stored
        PROVE  (IsTouched(x)' <=> IsTouched(x)) /\ (Eligible(x)' <=> Eligible(x))
    <3>1. SameChains(x) BY <1>1, <1>2, QuietMoves
    <3>2. SameReach(x) BY <1>1, <3>1, ReachIs
    <3>3. Eligible(x)' <=> Eligible(x) BY <1>1, <1>2, <3>2, EligibleAsBefore
    <3>4. \A c : TouchedBy(x, c)' <=> TouchedBy(x, c) BY <3>2, TouchedAsBefore
    <3> QED BY <1>4, <3>3, <3>4 DEF IsTouched, IsAgain
  <2>2. ASSUME NEW x \in DOMAIN stored
        PROVE  /\ IsActive(x)' <=> IsActive(x)
               /\ IsRight(x)' <=> IsRight(x)
    <3>1. x \in Int BY <1>1, InRing
    <3>2. PICK s \in 0 .. Capacity - 1 : s = SlotOf(x) BY <1>1, <3>1, SlotsApart
    <3> QED BY <1>2, <3>2 DEF IsActive, IsRight, IsElite, IsExpert, IsDemo
  <2>3. \A x : IsGone(x)' <=> IsGone(x) BY <1>4 DEF IsGone
  <2>4. \A x : IsAgain(x)' <=> IsAgain(x) BY <1>4 DEF IsAgain
  <2>5. ASSUME NEW s \in 0 .. Capacity - 1, slots[s].active
        PROVE  /\ SlotOf(slots'[s].id) = s /\ slots'[s].id < nextIndex
               /\ slots'[s].id \in DOMAIN stored \/ IsGone(slots[s].id)'
    <3>1. PICK x : x = slots[s].id OBVIOUS
    <3>2. IsGone(slots[s].id)' <=> IsGone(x)' BY <3>1 DEF IsGone
    <3> QED BY <1>5, <2>3, <2>5, <3>1, <3>2 DEF Current, Contains
  <2> QED BY <1>2, <1>5, <2>1, <2>2, <2>4, <2>5 DEF Current, Contains
<1> QED BY <1>3, <1>4, <1>5 DEF IndexInv

\* A reported priority changes nothing but itself, and only that of the id it was reported for.
LEMMA PriorityFollowed ==
    ASSUME IndexInv, NEW id, UpdatePriority(id)
    PROVE  IndexInv'
<1>1. StoreInv /\ StoreShape /\ LogInv /\ IndexShape BY DEF IndexInv, StoreInv
<1>2. StoreInv'
  <2>1. UNCHANGED storeVars BY DEF UpdatePriority
  <2> QED BY <1>1, <2>1, StoreStays
<1>3. slots \in [0 .. Capacity - 1 -> IndexSlot] BY <1>1 DEF IndexShape
<1>4. PICK b :
        b = (slots[SlotOf(id)].low \/ (slots[SlotOf(id)].id = id /\ slots[SlotOf(id)].active))
  OBVIOUS
<1>5. /\ slots' = [slots EXCEPT ![SlotOf(id)].low = b] /\ lowered' = lowered \cup {id}
      /\ UNCHANGED <<storeVars, indexRevision>> /\ id \in Int
  BY <1>4 DEF UpdatePriority
<1>6. SlotOf(id) \in 0 .. Capacity - 1 BY <1>1, <1>5, SlotsApart
<1>7. b \in BOOLEAN
  <2>1. slots[SlotOf(id)] \in IndexSlot BY <1>3, <1>6
  <2>2. slots[SlotOf(id)].low \in BOOLEAN /\ slots[SlotOf(id)].active \in BOOLEAN
    BY <2>1 DEF IndexSlot
  <2> QED BY <1>4, <2>2
<1>8. ASSUME NEW s \in 0 .. Capacity - 1
      PROVE  /\ slots'[s] \in IndexSlot
             /\ slots'[s].id = slots[s].id /\ slots'[s].active = slots[s].active
             /\ slots'[s].elite = slots[s].elite /\ slots'[s].expert = slots[s].expert
             /\ slots'[s].low = IF s = SlotOf(id) THEN b ELSE slots[s].low
  <2>1. slots[s] \in IndexSlot BY <1>3
  <2>2. slots'[s] = IF s = SlotOf(id) THEN [slots[s] EXCEPT !.low = b] ELSE slots[s]
    BY <1>3, <1>5
  <2> QED BY <1>7, <2>1, <2>2 DEF IndexSlot
<1>9. slots' \in [0 .. Capacity - 1 -> IndexSlot] BY <1>3, <1>5, <1>8
<1>10. PrioritiesStayWithTheirId'
  <2>1. \A s \in 0 .. Capacity - 1 : slots[s].low => slots[s].id \in lowered
    BY <1>1, <1>3 DEF IndexShape, PrioritiesStayWithTheirId
  <2>2. ASSUME NEW s \in 0 .. Capacity - 1, slots'[s].low PROVE slots'[s].id \in lowered'
    <3>1. CASE s # SlotOf(id) BY <1>5, <1>8, <2>1, <2>2, <3>1
    <3>2. CASE s = SlotOf(id)
      <4>1. b BY <1>8, <2>2, <3>2
      <4>2. slots[s].low \/ slots[s].id = id BY <1>4, <3>2, <4>1
      <4> QED BY <1>5, <1>8, <2>1, <4>2
    <3> QED BY <3>1, <3>2
  <2> QED BY <1>9, <2>2 DEF PrioritiesStayWithTheirId
<1>11. IndexShape' BY <1>9, <1>10 DEF IndexShape
<1> QED BY <1>2, <1>5, <1>8, <1>11, SameIndex

\* What a synchronization leaves in a slot.
SlotIsExact(slot, s) ==
    /\ slot \in IndexSlot /\ (slot.low => slot.id \in lowered)
    /\ slot.active => /\ SlotOf(slot.id) = s /\ Contains(slot.id)
                      /\ slot.elite = IsElite(slot.id) /\ slot.expert = IsExpert(slot.id)
    /\ \A x \in DOMAIN stored : SlotOf(x) = s => (slot.active /\ slot.id = x <=> Eligible(x))

\* Activating the entry of a transition that may be drawn.
LEMMA ActivatedIs ==
    ASSUME StoreInv, NEW slot \in IndexSlot, slot.low => slot.id \in lowered,
           NEW x \in DOMAIN stored, Eligible(x)
    PROVE  SlotIsExact(Activated(slot, x), SlotOf(x))
<1>1. StoreShape BY DEF StoreInv
<1>2. x \in Int /\ stored[x].pace \in Pace BY <1>1, InRing
<1>3. IsElite(x) \in BOOLEAN /\ IsExpert(x) \in BOOLEAN BY <1>2 DEF IsElite, IsExpert, IsDemo
<1>4. PICK a : a = Activated(slot, x) OBVIOUS
<1>5. (slot.id = x /\ slot.low) \in BOOLEAN OBVIOUS
<1>6. /\ a \in IndexSlot /\ a.id = x /\ a.active /\ a.elite = IsElite(x)
      /\ a.expert = IsExpert(x) /\ (a.low => slot.id = x /\ slot.low)
  BY <1>2, <1>3, <1>4, <1>5 DEF Activated, IndexSlot
<1>7. \A y \in DOMAIN stored : SlotOf(y) = SlotOf(x) => y = x BY <1>1, SlotsApart
<1>8. SlotIsExact(a, SlotOf(x)) BY <1>6, <1>7 DEF SlotIsExact, Contains
<1> QED BY <1>4, <1>8

\* An index built again from the ring is exact.
LEMMA RebuiltIsExact ==
    ASSUME IndexInv, NEW s \in 0 .. Capacity - 1
    PROVE  SlotIsExact(Rebuilt[s], s)
<1>1. StoreInv /\ slots \in [0 .. Capacity - 1 -> IndexSlot] /\ PrioritiesStayWithTheirId
  BY DEF IndexInv, IndexShape
<1>2. PICK slot \in IndexSlot : slot = slots[s] BY <1>1
<1>3. slot.low => slot.id \in lowered BY <1>1, <1>2 DEF PrioritiesStayWithTheirId
<1>4. CASE \E id \in DOMAIN stored : SlotOf(id) = s /\ Eligible(id)
  <2>1. PICK x : x = CHOOSE id \in DOMAIN stored : SlotOf(id) = s /\ Eligible(id) OBVIOUS
  <2>2. x \in DOMAIN stored /\ SlotOf(x) = s /\ Eligible(x) BY <1>4, <2>1
  <2>3. Rebuilt[s] = Activated(slot, x) BY <1>1, <1>2, <1>4, <2>1 DEF Rebuilt
  <2>4. SlotIsExact(Activated(slot, x), SlotOf(x)) BY <1>1, <1>3, <2>2, ActivatedIs
  <2> QED BY <2>2, <2>3, <2>4
<1>5. CASE ~\E id \in DOMAIN stored : SlotOf(id) = s /\ Eligible(id)
  <2>1. PICK r : r = [slot EXCEPT !.active = FALSE] OBVIOUS
  <2>2. Rebuilt[s] = r BY <1>1, <1>2, <1>5, <2>1 DEF Rebuilt
  <2>3. r \in IndexSlot /\ ~r.active /\ r.low = slot.low /\ r.id = slot.id BY <2>1 DEF IndexSlot
  <2>4. SlotIsExact(r, s) BY <1>3, <1>5, <2>3 DEF SlotIsExact
  <2> QED BY <2>2, <2>4
<1> QED BY <1>4, <1>5

\* Nothing missed is an id of the ring's that is gone.
LEMMA GoneIsGone ==
    ASSUME LogInv, NEW x \in DOMAIN stored
    PROVE  ~IsGone(x)
<1>1. \A k \in 1 .. Len(changes) : changes[k].evicted \notin DOMAIN stored BY DEF LogInv, Contains
<1> QED BY <1>1 DEF IsGone, Missed, MissedChanges

\* A slot's entry while the changes the index has missed are applied.
Cleared(s) == [slots[s] EXCEPT !.active = @ /\ ~IsGone(slots[s].id)]
Candidates(s) == InSlot({x \in DOMAIN stored : IsTouched(x)}, s)

\* The incremental update in these terms.
LEMMA UpdatedIs ==
    ASSUME IndexInv, NEW s \in 0 .. Capacity - 1
    PROVE  \/ Candidates(s) = {} /\ Updated[s] = Cleared(s)
           \/ \E x \in Candidates(s) : Updated[s] = Refreshed(Cleared(s), x, IsAgain(x))
<1> DEFINE gone == {changes[k].evicted : k \in MissedChanges}
           again == UNION {changes[k].reclassified : k \in MissedChanges}
           touched == again \cup UNION {AffectedCandidates(changes[k]) : k \in MissedChanges}
           found(r) == InSlot(touched \cap DOMAIN stored, r)
           clear(r) == [slots[r] EXCEPT !.active = @ /\ slots[r].id \notin gone]
<1>1. StoreInv /\ StoreShape /\ DOMAIN slots = 0 .. Capacity - 1
  BY DEF IndexInv, IndexShape, StoreInv
<1>2. \A x : x \in gone <=> IsGone(x) BY DEF IsGone, Missed
<1>3. \A x : x \in again <=> IsAgain(x) BY DEF IsAgain, Missed
<1>4. Missed \subseteq LoggedChange
  <2>1. changes \in Seq(LoggedChange) BY <1>1 DEF StoreShape
  <2> QED BY <2>1 DEF Missed, MissedChanges
<1>5. ASSUME NEW x \in DOMAIN stored
      PROVE  (\E k \in MissedChanges : x \in AffectedCandidates(changes[k]))
               <=> \E c \in Missed : TouchedBy(x, c)
  <2>1. \A c \in Missed : x \in AffectedCandidates(c) <=> TouchedBy(x, c)
    BY <1>1, <1>4, AffectedIs
  <2>2. \A k \in MissedChanges : changes[k] \in Missed BY DEF Missed
  <2>3. \A c \in Missed : \E k \in MissedChanges : c = changes[k] BY DEF Missed
  <2> QED BY <2>1, <2>2, <2>3
<1>6. \A x \in DOMAIN stored : x \in touched <=> IsTouched(x) BY <1>3, <1>5 DEF IsTouched
<1>7. found(s) = Candidates(s) BY <1>6 DEF InSlot, Candidates
<1>8. clear(s) = Cleared(s) BY <1>2 DEF Cleared
<1>9. Updated = [r \in DOMAIN slots |->
          IF found(r) = {} THEN clear(r)
          ELSE LET id == CHOOSE id \in found(r) : TRUE
               IN Refreshed(clear(r), id, id \in again)]
  BY DEF Updated
<1> HIDE DEF found, clear, again, gone, touched
<1>10. CASE found(s) = {} BY <1>1, <1>7, <1>8, <1>9, <1>10
<1>11. CASE found(s) # {}
  <2>1. PICK x : x = CHOOSE id \in found(s) : TRUE OBVIOUS
  <2>2. x \in found(s) BY <1>11, <2>1
  <2>3. Updated[s] = Refreshed(clear(s), x, x \in again) BY <1>1, <1>9, <1>11, <2>1
  <2>4. Refreshed(clear(s), x, x \in again) = Refreshed(clear(s), x, IsAgain(x))
    BY <1>3 DEF Refreshed
  <2> QED BY <1>7, <1>8, <2>2, <2>3, <2>4
<1> QED BY <1>10, <1>11

\* An index brought up to date is exact.
LEMMA UpdatedIsExact ==
    ASSUME IndexInv, ~MustRebuild, NEW s \in 0 .. Capacity - 1
    PROVE  SlotIsExact(Updated[s], s)
<1>1. /\ StoreInv /\ StoreShape /\ LogInv /\ Current
      /\ slots \in [0 .. Capacity - 1 -> IndexSlot] /\ PrioritiesStayWithTheirId
  BY DEF IndexInv, IndexShape, StoreInv
<1>2. PICK old \in IndexSlot : old = slots[s] BY <1>1
<1>3. PICK slot : slot = Cleared(s) OBVIOUS
<1>4. /\ slot \in IndexSlot /\ slot.id = old.id /\ slot.low = old.low
      /\ slot.elite = old.elite /\ slot.expert = old.expert
      /\ slot.active <=> old.active /\ ~IsGone(old.id)
  <2>1. slot = [old EXCEPT !.active = old.active /\ ~IsGone(old.id)] BY <1>2, <1>3 DEF Cleared
  <2>2. (old.active /\ ~IsGone(old.id)) \in BOOLEAN OBVIOUS
  <2> QED BY <2>1, <2>2 DEF IndexSlot
<1>5. slot.low => slot.id \in lowered BY <1>1, <1>2, <1>4 DEF PrioritiesStayWithTheirId
<1>6. slot.active => SlotOf(slot.id) = s /\ slot.id \in DOMAIN stored
  BY <1>1, <1>2, <1>4 DEF Current, Contains
<1>7. \A x, y \in DOMAIN stored : SlotOf(x) = s /\ SlotOf(y) = s => x = y BY <1>1, SlotsApart
<1>8. ASSUME NEW x \in DOMAIN stored, SlotOf(x) = s
      PROVE  /\ (slot.active /\ slot.id = x) <=> IsActive(x)
             /\ ~IsTouched(x) => (IsActive(x) <=> Eligible(x))
             /\ ~IsAgain(x) /\ IsActive(x) => slot.elite = IsElite(x) /\ slot.expert = IsExpert(x)
  <2>1. ~IsGone(x) BY <1>1, GoneIsGone
  <2>2. (slot.active /\ slot.id = x) <=> IsActive(x) BY <1>2, <1>4, <1>8, <2>1 DEF IsActive
  <2>3. /\ ~IsTouched(x) => (IsActive(x) <=> Eligible(x))
        /\ ~IsAgain(x) /\ IsActive(x) => IsRight(x)
    BY <1>1 DEF Current
  <2>4. IsRight(x) => slot.elite = IsElite(x) /\ slot.expert = IsExpert(x)
    BY <1>2, <1>4, <1>8 DEF IsRight
  <2> QED BY <2>2, <2>3, <2>4
<1>9. CASE Candidates(s) = {} /\ Updated[s] = slot
  <2>1. \A x \in DOMAIN stored : SlotOf(x) = s => ~IsTouched(x) /\ ~IsAgain(x)
    BY <1>9 DEF Candidates, InSlot, IsTouched
  <2>2. \A x \in DOMAIN stored : SlotOf(x) = s => (slot.active /\ slot.id = x <=> Eligible(x))
    BY <1>8, <2>1
  <2>3. slot.active => slot.elite = IsElite(slot.id) /\ slot.expert = IsExpert(slot.id)
    <3>1. SUFFICES ASSUME slot.active
                   PROVE  slot.elite = IsElite(slot.id) /\ slot.expert = IsExpert(slot.id)
      OBVIOUS
    <3>2. PICK x \in DOMAIN stored : x = slot.id /\ SlotOf(x) = s BY <1>6, <3>1
    <3> QED BY <1>8, <2>1, <3>1, <3>2
  <2> QED BY <1>4, <1>5, <1>6, <1>9, <2>2, <2>3 DEF SlotIsExact, Contains
<1>10. ASSUME NEW x \in Candidates(s), Updated[s] = Refreshed(slot, x, IsAgain(x))
       PROVE  SlotIsExact(Updated[s], s)
  <2>1. x \in DOMAIN stored /\ SlotOf(x) = s BY DEF Candidates, InSlot
  <2>2. CASE ~Eligible(x)
    <3>1. PICK r : r = [slot EXCEPT !.active = slot.active /\ slot.id # x] OBVIOUS
    <3>2. Updated[s] = r BY <1>10, <2>2, <3>1 DEF Refreshed
    <3>3. /\ r \in IndexSlot /\ r.id = slot.id /\ r.low = slot.low
          /\ r.active <=> slot.active /\ slot.id # x
      <4>1. (slot.active /\ slot.id # x) \in BOOLEAN OBVIOUS
      <4> QED BY <1>4, <3>1, <4>1 DEF IndexSlot
    <3>4. ~r.active BY <1>6, <1>7, <2>1, <3>3
    <3>5. \A y \in DOMAIN stored : SlotOf(y) = s => ~Eligible(y) BY <1>7, <2>1, <2>2
    <3>6. SlotIsExact(r, s) BY <1>5, <3>3, <3>4, <3>5 DEF SlotIsExact
    <3> QED BY <3>2, <3>6
  <2>3. CASE Eligible(x) /\ slot.active /\ slot.id = x /\ ~IsAgain(x)
    <3>1. Updated[s] = slot BY <1>10, <2>3 DEF Refreshed
    <3>2. slot.elite = IsElite(x) /\ slot.expert = IsExpert(x) BY <1>8, <2>1, <2>3
    <3>3. \A y \in DOMAIN stored : SlotOf(y) = s => y = x BY <1>7, <2>1
    <3>4. SlotIsExact(slot, s) BY <1>4, <1>5, <2>1, <2>3, <3>2, <3>3 DEF SlotIsExact, Contains
    <3> QED BY <3>1, <3>4
  <2>4. CASE Eligible(x) /\ ~(slot.active /\ slot.id = x /\ ~IsAgain(x))
    <3>1. Updated[s] = Activated(slot, x) BY <1>10, <2>4 DEF Refreshed
    <3>2. SlotIsExact(Activated(slot, x), SlotOf(x)) BY <1>1, <1>4, <1>5, <2>1, <2>4, ActivatedIs
    <3> QED BY <2>1, <3>1, <3>2
  <2> QED BY <2>2, <2>3, <2>4
<1> QED BY <1>3, <1>9, <1>10, UpdatedIs

\* Synchronizing makes every slot exact.
LEMMA SynchronizeFollowed ==
    ASSUME IndexInv, Synchronize
    PROVE  IndexInv'
<1>1. StoreInv /\ StoreShape /\ LogInv /\ slots \in [0 .. Capacity - 1 -> IndexSlot]
  BY DEF IndexInv, IndexShape, StoreInv
<1>2. /\ slots' = IF MustRebuild THEN Rebuilt ELSE Updated
      /\ indexRevision' = storeRevision /\ UNCHANGED storeVars /\ lowered' = lowered
  BY DEF Synchronize
<1>3. /\ stored' = stored /\ nextIndex' = nextIndex /\ storeRevision' = storeRevision
      /\ changes' = changes /\ storeRevision \in Nat
  BY <1>1, <1>2 DEF storeVars, StoreShape
<1>4. StoreInv' BY <1>1, <1>2, StoreStays
<1>5. DOMAIN slots' = 0 .. Capacity - 1 BY <1>1, <1>2 DEF Rebuilt, Updated
<1>6. \A s \in 0 .. Capacity - 1 : SlotIsExact(slots'[s], s)
  BY <1>2, RebuiltIsExact, UpdatedIsExact
<1>7. IndexShape'
  <2>1. slots' = [s \in DOMAIN slots' |-> slots'[s]]
    <3>1. Rebuilt = [s \in DOMAIN Rebuilt |-> Rebuilt[s]] BY DEF Rebuilt
    <3>2. Updated = [s \in DOMAIN Updated |-> Updated[s]] BY DEF Updated
    <3> QED BY <1>2, <3>1, <3>2
  <2>2. slots' \in [0 .. Capacity - 1 -> IndexSlot] BY <1>5, <1>6, <2>1 DEF SlotIsExact
  <2>3. PrioritiesStayWithTheirId'
    <3>1. ASSUME NEW s \in 0 .. Capacity - 1, slots'[s].low PROVE slots'[s].id \in lowered'
      BY <1>2, <1>6, <3>1 DEF SlotIsExact
    <3> QED BY <1>5, <3>1 DEF PrioritiesStayWithTheirId
  <2> QED BY <2>2, <2>3 DEF IndexShape
<1>8. LogInv' BY <1>1, <1>2, <1>3 DEF LogInv, Contains
<1>9. Current'
  <2>1. ASSUME NEW x \in DOMAIN stored PROVE Eligible(x)' <=> Eligible(x)
    <3>1. SameChains(x) BY <1>1, <1>3, <1>4, QuietMoves
    <3>2. SameReach(x) BY <1>1, <1>4, <3>1, ReachIs
    <3> QED BY <1>1, <1>3, <1>4, <3>2, EligibleAsBefore
  <2>2. ASSUME NEW s \in 0 .. Capacity - 1, slots'[s].active
        PROVE  /\ SlotOf(slots'[s].id) = s /\ slots'[s].id < nextIndex'
               /\ slots'[s].id \in DOMAIN stored'
    <3>1. SlotOf(slots'[s].id) = s /\ slots'[s].id \in DOMAIN stored
      BY <1>6, <2>2 DEF SlotIsExact, Contains
    <3>2. \A i \in Ring(nextIndex) : i < nextIndex BY <1>1 DEF Ring, StoreShape
    <3> QED BY <1>1, <1>3, <3>1, <3>2, InRing
  <2>3. ASSUME NEW x \in DOMAIN stored'
        PROVE  /\ IsActive(x)' <=> Eligible(x)'
               /\ IsActive(x)' => IsRight(x)'
    <3>1. x \in DOMAIN stored /\ x \in Int BY <1>1, <1>3, InRing
    <3>2. PICK s \in 0 .. Capacity - 1 : s = SlotOf(x) BY <1>1, <3>1, SlotsApart
    <3>3. SlotIsExact(slots'[s], s) BY <1>6
    <3>4. IsActive(x)' <=> Eligible(x)
      BY <3>1, <3>2, <3>3 DEF SlotIsExact, IsActive
    <3>5. IsActive(x)' => slots'[s].elite = IsElite(x) /\ slots'[s].expert = IsExpert(x)
      BY <3>2, <3>3 DEF SlotIsExact, IsActive
    <3>6. IsActive(x)' => IsRight(x)' BY <1>3, <3>2, <3>5 DEF IsRight, IsElite, IsExpert, IsDemo
    <3> QED BY <2>1, <3>1, <3>4, <3>6
  <2> QED BY <2>2, <2>3 DEF Current, Contains
<1> QED BY <1>4, <1>7, <1>8, <1>9 DEF IndexInv

-----------------------------------------------------------------------------
(* The index and the store it indexes.                                       *)

\* Steps of the replay keep what is said of it.
LEMMA IndexSteps ==
    ASSUME IndexInv, [ReplayNext]_replayVars
    PROVE  IndexInv'
<1>1. StoreInv /\ StoreShape BY DEF IndexInv, StoreInv
<1>2. ASSUME NEW t \in Recorded, AppendTransition(t), UNCHANGED indexVars PROVE IndexInv'
  <2>1. StoreInv' BY <1>1, <1>2, AppendKeeps
  <2>2. Fresh(t) BY <1>1, <1>2 DEF StoreInv, OnceInv, Fresh, AppendTransition
  <2>3. Projected(t) \in Pace BY DEF Projected, Pace, Label
  <2>4. AnyWrite(t, Projected(t)) BY <1>2, <2>2, <2>3 DEF AnyWrite, AppendTransition, Projected
  <2> QED BY <1>2, <2>1, <2>4, WriteFollowed
<1>3. ASSUME Reappend, UNCHANGED indexVars PROVE IndexInv'
  <2>1. StoreInv' BY <1>1, <1>3, ReappendKeeps
  <2>2. displaced \in [transition : Demo, pace : Pace] BY <1>1, <1>3 DEF StoreShape, Reappend
  <2>3. PICK t, pace : t = displaced.transition /\ pace = displaced.pace OBVIOUS
  <2>4. t \in Demo /\ pace \in Pace /\ t \in Recorded BY <2>2, <2>3, StoreConstants
  <2>5. t \in offered /\ Fresh(t) BY <1>1, <1>3, <2>3 DEF StoreInv, OnceInv, Reappend, Fresh
  <2>6. AnyWrite(t, pace) BY <1>3, <2>3, <2>4, <2>5 DEF AnyWrite, Reappend
  <2> QED BY <1>3, <2>1, <2>6, WriteFollowed
<1>4. ASSUME NEW e \in Episode, NEW p \in Label, LabelEpisode(e, p), UNCHANGED indexVars
      PROVE  IndexInv'
  BY <1>1, <1>4, LabelKeeps, LabelFollowed
<1>5. CASE Synchronize BY <1>5, SynchronizeFollowed
<1>6. ASSUME NEW id \in Nat, UpdatePriority(id) PROVE IndexInv' BY <1>6, PriorityFollowed
<1>7. CASE Restore BY <1>1, <1>7, ReloadKeeps, RestoreFollowed DEF Restore
<1>8. CASE UNCHANGED replayVars
  <2>1. UNCHANGED storeVars /\ UNCHANGED indexVars BY <1>8 DEF replayVars
  <2>2. slots' = slots /\ indexRevision' = indexRevision /\ lowered' = lowered BY <2>1 DEF indexVars
  <2>3. IndexShape' BY <2>2 DEF IndexInv, IndexShape, PrioritiesStayWithTheirId
  <2> QED BY <1>1, <2>1, <2>2, <2>3, StoreStays, SameIndex
<1> QED BY <1>2, <1>3, <1>4, <1>5, <1>6, <1>7, <1>8 DEF ReplayNext, StoreStep

\* An index that reflects the store's revision has missed nothing.
LEMMA IndexExact == IndexInv => IndexFollowsTheStore
<1> SUFFICES ASSUME IndexInv PROVE IndexFollowsTheStore OBVIOUS
<1>1. /\ StoreInv /\ StoreShape /\ LogInv /\ PrioritiesStayWithTheirId
      /\ slots \in [0 .. Capacity - 1 -> IndexSlot]
  BY DEF IndexInv, IndexShape, StoreInv
<1>2. ASSUME indexRevision = storeRevision
      PROVE  /\ {slots[s].id : s \in {x \in DOMAIN slots : slots[x].active}}
                  = {id \in DOMAIN stored : Eligible(id)}
             /\ \A s \in DOMAIN slots : slots[s].active =>
                  /\ SlotOf(slots[s].id) = s
                  /\ slots[s].elite = IsElite(slots[s].id)
                  /\ slots[s].expert = IsExpert(slots[s].id)
  <2>1. ~MustRebuild
    <3>1. storeRevision \in Nat /\ NoId = -1 BY <1>1, StoreConstants DEF StoreShape
    <3> QED BY <1>2, <3>1 DEF MustRebuild
  <2>2. Missed = {}
    <3>1. /\ \A k \in 1 .. Len(changes) : changes[k].revision = storeRevision - Len(changes) + k
          /\ Len(changes) \in Nat /\ storeRevision \in Nat
      BY <1>1 DEF LogInv, StoreShape
    <3>2. MissedChanges = {} BY <1>2, <3>1 DEF MissedChanges
    <3> QED BY <3>2 DEF Missed
  <2>3. /\ \A x : ~IsGone(x) /\ ~IsAgain(x) /\ ~IsTouched(x)
    BY <2>2 DEF IsGone, IsAgain, IsTouched
  <2>4. Current BY <2>1 DEF IndexInv
  <2>5. ASSUME NEW s \in 0 .. Capacity - 1, slots[s].active
        PROVE  /\ slots[s].id \in DOMAIN stored /\ Eligible(slots[s].id) /\ SlotOf(slots[s].id) = s
               /\ slots[s].elite = IsElite(slots[s].id) /\ slots[s].expert = IsExpert(slots[s].id)
    <3>1. SlotOf(slots[s].id) = s /\ slots[s].id \in DOMAIN stored
      BY <2>3, <2>4, <2>5 DEF Current, Contains
    <3>2. PICK x \in DOMAIN stored : x = slots[s].id BY <3>1
    <3>3. IsActive(x) /\ SlotOf(x) = s BY <2>5, <3>1, <3>2 DEF IsActive
    <3>4. Eligible(x) /\ IsRight(x) BY <2>3, <2>4, <3>3 DEF Current
    <3> QED BY <3>1, <3>2, <3>3, <3>4 DEF IsRight
  <2>6. ASSUME NEW x \in DOMAIN stored, Eligible(x)
        PROVE  \E s \in 0 .. Capacity - 1 : slots[s].active /\ slots[s].id = x
    <3>1. IsActive(x) BY <2>3, <2>4, <2>6 DEF Current
    <3>2. SlotOf(x) \in 0 .. Capacity - 1 BY <1>1, InRing, SlotsApart
    <3> QED BY <3>1, <3>2 DEF IsActive
  <2>7. DOMAIN slots = 0 .. Capacity - 1 BY <1>1
  <2> QED BY <2>5, <2>6, <2>7
<1> QED BY <1>1, <1>2 DEF IndexFollowsTheStore, IndexIsExact

\* The index follows the store, and priorities stay with their ids, in the replay on its own.
THEOREM IndexFollows == ReplaySpec => []IndexFollowsTheStore
<1>1. ReplaySpec => []IndexInv BY IndexStarts, IndexSteps, PTL DEF ReplaySpec
<1> QED BY <1>1, IndexExact, PTL

-----------------------------------------------------------------------------
(* Sequences and bounds.                                                     *)

\* The smaller and the larger of two integers.
LEMMA OfTwo ==
    ASSUME NEW a \in Int, NEW b \in Int
    PROVE  /\ Min({a, b}) = IF a <= b THEN a ELSE b
           /\ Max({a, b}) = IF a <= b THEN b ELSE a
<1>1. PICK m : m = Min({a, b}) OBVIOUS
<1>2. PICK n : n = Max({a, b}) OBVIOUS
<1>3. \E x \in {a, b} : \A y \in {a, b} : x <= y OBVIOUS
<1>4. \E x \in {a, b} : \A y \in {a, b} : x >= y OBVIOUS
<1>5. m \in {a, b} /\ \A y \in {a, b} : m <= y BY <1>1, <1>3 DEF Min
<1>6. n \in {a, b} /\ \A y \in {a, b} : n >= y BY <1>2, <1>4 DEF Max
<1>7. m = IF a <= b THEN a ELSE b BY <1>5
<1>8. n = IF a <= b THEN b ELSE a BY <1>6
<1> QED BY <1>1, <1>2, <1>7, <1>8

\* One sequence after the other.
LEMMA Joined ==
    ASSUME NEW n \in Nat, NEW m \in Nat, NEW f, NEW g,
           f = [k \in 1 .. n |-> f[k]], g = [k \in 1 .. m |-> g[k]]
    PROVE  f \o g = [k \in 1 .. n + m |-> IF k <= n THEN f[k] ELSE g[k - n]]
<1> DEFINE S == {f[k] : k \in 1 .. n} \cup {g[k] : k \in 1 .. m}
<1>1. f \in [1 .. n -> S] /\ g \in [1 .. m -> S] OBVIOUS
<1> HIDE DEF S
<1>2. f \in Seq(S) /\ g \in Seq(S) /\ Len(f) = n /\ Len(g) = m BY <1>1
<1>3. f \o g \in Seq(S) /\ Len(f \o g) = n + m BY <1>2
<1>4. DOMAIN (f \o g) = 1 .. n + m BY <1>3
<1>5. \A k \in 1 .. n + m : (f \o g)[k] = IF k <= n THEN f[k] ELSE g[k - n] BY <1>2
<1>6. f \o g = [k \in 1 .. n + m |-> (f \o g)[k]] BY <1>3, <1>4
<1> QED BY <1>5, <1>6

\* The end of a sequence.
LEMMA Sliced ==
    ASSUME NEW n \in Nat, NEW m \in 1 .. n + 1, NEW f, f = [k \in 1 .. n |-> f[k]]
    PROVE  SubSeq(f, m, n) = [k \in 1 .. n - m + 1 |-> f[m + k - 1]]
<1> DEFINE S == {f[k] : k \in 1 .. n}
<1>1. f \in [1 .. n -> S] OBVIOUS
<1> HIDE DEF S
<1>2. f \in Seq(S) /\ Len(f) = n BY <1>1
<1>3. CASE m <= n BY <1>1, <1>2, <1>3
<1>4. CASE m = n + 1
  <2>1. SubSeq(f, m, n) = <<>> BY <1>2, <1>4
  <2>2. [k \in 1 .. n - m + 1 |-> f[m + k - 1]] = <<>> BY <1>4
  <2> QED BY <2>1, <2>2
<1> QED BY <1>3, <1>4

\* And its beginning.
LEMMA Begun ==
    ASSUME NEW n \in Nat, NEW m \in 0 .. n, NEW f, f = [k \in 1 .. n |-> f[k]]
    PROVE  SubSeq(f, 1, m) = [k \in 1 .. m |-> f[k]]
<1> DEFINE S == {f[k] : k \in 1 .. n}
<1>1. f \in [1 .. n -> S] OBVIOUS
<1> HIDE DEF S
<1>2. f \in Seq(S) /\ Len(f) = n BY <1>1
<1>3. CASE m >= 1 BY <1>1, <1>2, <1>3
<1>4. CASE m = 0
  <2>1. SubSeq(f, 1, m) = <<>> BY <1>2, <1>4
  <2>2. [k \in 1 .. m |-> f[k]] = <<>> BY <1>4
  <2> QED BY <2>1, <2>2
<1> QED BY <1>3, <1>4

\* The first n numbers are n.
LEMMA FirstNumbers ==
    ASSUME NEW n \in Nat
    PROVE  Cardinality(1 .. n) = n /\ IsFiniteSet(1 .. n)
<1>1. IsFiniteSet(1 .. n) /\ Cardinality(1 .. n) = IF 1 > n THEN 0 ELSE n - 1 + 1
  BY FS_Interval
<1> QED BY <1>1

\* One reward is itself.
LEMMA OneReward ==
    ASSUME NEW r \in Int
    PROVE  Discounted([k \in 1 .. 1 |-> r]) = r
<1> DEFINE f == [k \in 1 .. 1 |-> r]  g == [k \in DOMAIN f |-> Decay(k - 1) * f[k]]
<1>1. DOMAIN f = {1} /\ f[1] = r OBVIOUS
<1>2. g = [k \in {1} |-> Decay(k - 1) * f[k]] BY <1>1
<1>3. g[1] = 1 * r BY <1>1, <1>2 DEF Decay
<1>4. g[1] = r BY <1>3
<1>5. Discounted(f) = SumFunctionOnSet(g, {} \cup {1}) BY <1>1 DEF Discounted
<1> HIDE DEF g, f
<1>6. IsFiniteSet({}) BY FS_EmptySet
<1>7. SumFunctionOnSet(g, {} \cup {1}) = g[1] + SumFunctionOnSet(g, {})
  <2>1. \A y \in {} \cup {1} : g[y] \in Int BY <1>4
  <2>2. 1 \notin {} OBVIOUS
  <2> QED BY <1>6, <2>1, <2>2, SumAdd
<1>8. SumFunctionOnSet(g, {}) = 0 BY SumEmpty
<1> QED BY <1>4, <1>5, <1>7, <1>8 DEF f

-----------------------------------------------------------------------------
(* What a draw reads.                                                        *)

\* A transition, in its parts.
LEMMA TransitionIs ==
    ASSUME StoreShape, NEW id \in DOMAIN stored, NEW t, t = stored[id].transition
    PROVE  /\ t \in Recorded /\ t = <<t[1], t[2]>> /\ t[1] \in Episode
           /\ t[2] \in Nat /\ LastStep[t[1]] \in Nat /\ t[2] <= LastStep[t[1]]
           /\ id \in Int /\ Contains(id)
<1>1. t \in Recorded /\ id \in Int /\ Contains(id) BY InRing DEF Contains
<1>2. t = <<t[1], t[2]>> /\ t[1] \in Episode /\ t[2] \in 0 .. LastStep[t[1]]
      /\ LastStep[t[1]] \in 0 .. 8
  BY <1>1, RecordedIs, StoreConstants
<1> QED BY <1>1, <1>2

\* The unbroken part of a chain that is unbroken up to some length.
LEMMA UnbrokenIs ==
    ASSUME NEW n \in Nat, NEW c \in 0 .. n, NEW chain, DOMAIN chain = 1 .. n,
           \A k \in 1 .. n : Contains(chain[k]) <=> k <= c
    PROVE  Unbroken(chain) = [k \in 1 .. c |-> chain[k]]
<1>1. {k \in DOMAIN chain : \A j \in 1 .. k : Contains(chain[j])} = 1 .. c OBVIOUS
<1>2. Cardinality(1 .. c) = c BY FirstNumbers
<1> QED BY <1>1, <1>2 DEF Unbroken

\* The horizon of a transition: the steps of its lap, to its last or as many as asked for.
HorizonFacts(id, ids, t, n) ==
    /\ n \in 1 .. NStep /\ t[2] + n - 1 <= LastStep[t[1]]
    /\ ids = [k \in 1 .. n |-> ids[k]] /\ Len(ids) = n /\ ids[1] = id
    /\ \A k \in 1 .. n : ids[k] \in DOMAIN stored /\ stored[ids[k]].transition = StepAfter(t, k - 1)

LEMMA HorizonIs ==
    ASSUME StoreInv, NEW id \in DOMAIN stored, HorizonComplete(id), NEW t, t = stored[id].transition
    PROVE  HorizonFacts(id, NStepIds(id, NStep), t, Steps(t))
<1>1. /\ StoreShape /\ t = <<t[1], t[2]>> /\ t[1] \in Episode /\ t[2] \in Nat
      /\ LastStep[t[1]] \in Nat /\ t[2] <= LastStep[t[1]] /\ id \in Int /\ Contains(id)
      /\ NStep \in Nat \ {0}
  BY TransitionIs, IndexConstants DEF StoreInv
<1>2. PICK c : c = Cardinality(HorizonIds(id, NStep)) OBVIOUS
<1>3. /\ c \in 1 .. NStep /\ \A k \in 1 .. NStep : Contains(Fwd(id, k)) <=> k <= c
      /\ HorizonIds(id, NStep) = {Fwd(id, k) : k \in 1 .. c}
  BY <1>1, <1>2, HorizonShape
<1>4. ASSUME NEW k \in 1 .. c
      PROVE  /\ Fwd(id, k) \in DOMAIN stored
             /\ stored[Fwd(id, k)].transition = <<t[1], t[2] + (k - 1)>>
  <2>1. k \in Nat \ {0} /\ k \in 1 .. NStep /\ k <= c BY <1>1, <1>3
  <2>2. Leads(id, k) /\ Contains(Fwd(id, k)) BY <1>1, <1>3, <2>1, ChainAhead
  <2> QED BY <2>2 DEF Leads, Contains
<1>5. \A k \in 1 .. c : t[2] + (k - 1) <= LastStep[t[1]]
  <2>1. ASSUME NEW k \in 1 .. c PROVE t[2] + (k - 1) <= LastStep[t[1]]
    <3>1. PICK u : u = stored[Fwd(id, k)].transition OBVIOUS
    <3>2. u[1] = t[1] /\ u[2] = t[2] + (k - 1) BY <1>4, <3>1
    <3>3. u[2] <= LastStep[u[1]] BY <1>1, <1>4, <3>1, TransitionIs
    <3> QED BY <3>2, <3>3
  <2> QED BY <2>1
<1>6. c < NStep => t[2] + (c - 1) = LastStep[t[1]]
  <2>1. SUFFICES ASSUME c < NStep PROVE t[2] + (c - 1) = LastStep[t[1]] OBVIOUS
  <2>2. PICK i \in HorizonIds(id, NStep) : Ends(stored[i].transition)
    BY <1>2, <1>3, <2>1 DEF HorizonComplete
  <2>3. PICK k \in 1 .. c : i = Fwd(id, k) BY <1>3, <2>2
  <2>4. stored[i].transition = <<t[1], t[2] + (k - 1)>> BY <1>4, <2>3
  <2>5. t[2] + (k - 1) = LastStep[t[1]] BY <2>2, <2>4 DEF Ends
  <2>6. t[2] + (c - 1) <= LastStep[t[1]] /\ k <= c BY <1>3, <1>5
  <2> QED BY <1>1, <1>3, <2>5, <2>6
<1>7. c = Steps(t)
  <2>1. NStep \in Int /\ LastStep[t[1]] - t[2] + 1 \in Int BY <1>1
  <2>2. Min({NStep, LastStep[t[1]] - t[2] + 1})
          = IF NStep <= LastStep[t[1]] - t[2] + 1 THEN NStep ELSE LastStep[t[1]] - t[2] + 1
    BY <2>1, OfTwo
  <2>3. c \in 1 .. c /\ t[2] + (c - 1) <= LastStep[t[1]] BY <1>3, <1>5
  <2> QED BY <1>1, <1>3, <1>6, <2>2, <2>3 DEF Steps
<1>8. NStepIds(id, NStep) = [k \in 1 .. c |-> Fwd(id, k)]
  <2>1. /\ DOMAIN Ahead(id, NStep) = 1 .. NStep
        /\ \A k \in 1 .. NStep : Ahead(id, NStep)[k] = Fwd(id, k)
    BY <1>1, AheadIs
  <2>2. \A k \in 1 .. NStep : Contains(Ahead(id, NStep)[k]) <=> k <= c BY <1>3, <2>1
  <2>3. NStep \in Nat /\ c \in 0 .. NStep BY <1>1, <1>3
  <2>4. NStepIds(id, NStep) = [k \in 1 .. c |-> Ahead(id, NStep)[k]]
    BY <2>1, <2>2, <2>3, UnbrokenIs DEF NStepIds
  <2> QED BY <1>1, <1>3, <2>1, <2>4
<1>9. Fwd(id, 1) = id BY <1>1, AheadIs
<1>10. PICK ids : ids = NStepIds(id, NStep) OBVIOUS
<1>11. HorizonFacts(id, ids, t, c)
  <2>1. ids = [k \in 1 .. c |-> Fwd(id, k)] /\ c \in Nat /\ 1 \in 1 .. c BY <1>3, <1>8, <1>10
  <2>2. Len(ids) = c /\ ids = [k \in 1 .. c |-> ids[k]] /\ ids[1] = id BY <1>9, <2>1
  <2>3. \A k \in 1 .. c : ids[k] \in DOMAIN stored
                          /\ stored[ids[k]].transition = StepAfter(t, k - 1)
    BY <1>4, <2>1 DEF StepAfter
  <2>4. t[2] + c - 1 <= LastStep[t[1]] BY <1>1, <1>3, <1>5
  <2> QED BY <1>3, <2>2, <2>3, <2>4 DEF HorizonFacts
<1> QED BY <1>7, <1>10, <1>11

\* Consecutive steps add up to what the lap says of them.
LEMMA AccumulatedIs ==
    ASSUME StoreInv, NEW t, NEW n \in Nat \ {0}, NEW ids, ids = [k \in 1 .. n |-> ids[k]],
           t[2] \in Nat, t = <<t[1], t[2]>>,
           \A k \in 1 .. n : /\ ids[k] \in DOMAIN stored
                             /\ stored[ids[k]].transition = StepAfter(t, k - 1)
    PROVE  Accumulated(ids) =
             [observation |-> t,
              reward |-> Discounted([k \in 1 .. n |-> Reward[StepAfter(t, k - 1)]]),
              next |-> NextObservation(StepAfter(t, n - 1)),
              discount |-> IF Ends(StepAfter(t, n - 1)) /\ t[1] \in Terminating
                             THEN 0 ELSE Gamma ^ n]
<1>1. Len(ids) = n /\ 1 \in 1 .. n /\ n \in 1 .. n OBVIOUS
<1>2. stored[ids[1]].transition = t
  <2>1. stored[ids[1]].transition = <<t[1], t[2] + 0>> BY <1>1 DEF StepAfter
  <2> QED BY <2>1
<1>3. Continued(ids) = ids
  <2> DEFINE follows(k) == stored[ids[k]].transition = <<t[1], t[2] + k - 1>>
  <2>1. \A k \in 1 .. n : follows(k) BY DEF StepAfter
  <2>2. Continued(ids)
          = SubSeq(ids, 1, Cardinality({k \in 1 .. Len(ids) : \A j \in 1 .. k : follows(j)}))
    BY <1>2 DEF Continued
  <2> HIDE DEF follows
  <2>3. {k \in 1 .. n : \A j \in 1 .. k : follows(j)} = 1 .. n BY <2>1
  <2>4. Cardinality(1 .. n) = n BY FirstNumbers
  <2>5. Continued(ids) = SubSeq(ids, 1, n) BY <1>1, <2>2, <2>3, <2>4
  <2>6. SubSeq(ids, 1, n) = [k \in 1 .. n |-> ids[k]] BY Begun
  <2> QED BY <2>5, <2>6
<1>4. stored[ids[n]].transition = StepAfter(t, n - 1) BY <1>1
<1>5. ReadNext(ids[n]) = NextObservation(StepAfter(t, n - 1))
  BY <1>1, <1>4, ObservationsKept DEF NextObservationIsKept
<1>6. [k \in 1 .. n |-> Reward[stored[ids[k]].transition]]
        = [k \in 1 .. n |-> Reward[StepAfter(t, k - 1)]]
  OBVIOUS
<1>7. StepAfter(t, n - 1)[1] = t[1] BY DEF StepAfter
<1> QED BY <1>1, <1>2, <1>3, <1>4, <1>5, <1>6, <1>7 DEF Accumulated

\* A transition that may be drawn gives what the lap says.
LEMMA MaterializedIs ==
    ASSUME StoreInv, NEW id \in DOMAIN stored, HorizonComplete(id)
    PROVE  Materialized(id) = Reference(stored[id].transition)
<1>1. PICK t : t = stored[id].transition OBVIOUS
<1>2. PICK ids, n : ids = NStepIds(id, NStep) /\ n = Steps(t) OBVIOUS
<1>3. HorizonFacts(id, ids, t, n) BY <1>1, <1>2, HorizonIs
<1>4. t[2] \in Nat /\ t = <<t[1], t[2]>> BY <1>1, TransitionIs DEF StoreInv
<1>5. n \in Nat \ {0} /\ ids = [k \in 1 .. n |-> ids[k]]
      /\ \A k \in 1 .. n : /\ ids[k] \in DOMAIN stored
                           /\ stored[ids[k]].transition = StepAfter(t, k - 1)
  BY <1>3, IndexConstants DEF HorizonFacts
<1>6. Accumulated(ids) =
             [observation |-> t,
              reward |-> Discounted([k \in 1 .. n |-> Reward[StepAfter(t, k - 1)]]),
              next |-> NextObservation(StepAfter(t, n - 1)),
              discount |-> IF Ends(StepAfter(t, n - 1)) /\ t[1] \in Terminating
                             THEN 0 ELSE Gamma ^ n]
  BY <1>4, <1>5, AccumulatedIs
<1> QED BY <1>1, <1>2, <1>6 DEF Materialized, Reference

\* A step on its own.
LEMMA StepIs ==
    ASSUME StoreInv, NEW id \in DOMAIN stored
    PROVE  /\ Accumulated(<<id>>).observation = stored[id].transition
           /\ Accumulated(<<id>>).reward = Reward[stored[id].transition]
           /\ Accumulated(<<id>>).next = NextObservation(stored[id].transition)
<1>0. PICK t : t = stored[id].transition OBVIOUS
<1>1. t[2] \in Nat /\ t = <<t[1], t[2]>> /\ t \in Recorded BY <1>0, TransitionIs DEF StoreInv
<1>2. StepAfter(t, 0) = t BY <1>1 DEF StepAfter
<1>3. PICK ids, n : ids = <<id>> /\ n = 1 OBVIOUS
<1>4. /\ n \in Nat \ {0} /\ ids = [k \in 1 .. n |-> ids[k]]
      /\ \A k \in 1 .. n : ids[k] = id /\ k - 1 = 0
  BY <1>3
<1>5. n \in Nat \ {0} /\ ids = [k \in 1 .. n |-> ids[k]]
      /\ \A k \in 1 .. n : /\ ids[k] \in DOMAIN stored
                           /\ stored[ids[k]].transition = StepAfter(t, k - 1)
  BY <1>0, <1>2, <1>4
<1>6. t[2] \in Nat /\ t = <<t[1], t[2]>> BY <1>1
<1>7. Accumulated(ids) =
            [observation |-> t,
             reward |-> Discounted([k \in 1 .. n |-> Reward[StepAfter(t, k - 1)]]),
             next |-> NextObservation(StepAfter(t, n - 1)),
             discount |-> IF Ends(StepAfter(t, n - 1)) /\ t[1] \in Terminating
                            THEN 0 ELSE Gamma ^ n]
  BY <1>5, <1>6, AccumulatedIs
<1>8. [k \in 1 .. n |-> Reward[StepAfter(t, k - 1)]] = [k \in 1 .. 1 |-> Reward[t]]
  BY <1>2, <1>3, <1>4
<1>9. Reward[t] \in Int BY <1>1, BatchesAssumption
<1>10. Discounted([k \in 1 .. 1 |-> Reward[t]]) = Reward[t] BY <1>9, OneReward
<1>11. n - 1 = 0 BY <1>3
<1> QED BY <1>0, <1>2, <1>3, <1>7, <1>8, <1>10, <1>11

\* The window behind a transition: the steps an actor remembers when it has reached it.
PlaceAt(reached, k) == IF RememberedAt(reached, k) >= 0 THEN RememberedAt(reached, k) ELSE 0
WindowFacts(id, window, t, h) ==
    /\ h \in 1 .. SequenceLength /\ h <= t[2] + 1 /\ (h = SequenceLength \/ h = t[2] + 1)
    /\ window = [k \in 1 .. SequenceLength |-> window[k]] /\ window[SequenceLength] = id
    /\ \A k \in 1 .. SequenceLength :
         /\ window[k] \in DOMAIN stored
         /\ stored[window[k]].transition = <<t[1], PlaceAt(t[2], k)>>
    /\ Cardinality({window[k] : k \in 1 .. SequenceLength}) = h

LEMMA WindowIs ==
    ASSUME StoreInv, NEW id \in DOMAIN stored, HistoryComplete(id), NEW t, t = stored[id].transition
    PROVE  WindowFacts(id, Window(id), t, Cardinality(HistoryIds(id, SequenceLength)))
<1> DEFINE L == SequenceLength
<1>1. /\ StoreShape /\ t = <<t[1], t[2]>> /\ t[1] \in Episode /\ t[2] \in Nat
      /\ id \in Int /\ Contains(id) /\ L \in Nat \ {0}
  BY TransitionIs, IndexConstants DEF StoreInv
<1>2. PICK h : h = Cardinality(HistoryIds(id, L)) OBVIOUS
<1>3. /\ h \in 1 .. L /\ \A k \in 1 .. L : Contains(Bwd(id, k)) <=> k <= h
      /\ HistoryIds(id, L) = {Bwd(id, k) : k \in 1 .. h}
  BY <1>1, <1>2, HistoryShape
<1>4. ASSUME NEW k \in 1 .. h
      PROVE  /\ Bwd(id, k) \in DOMAIN stored
             /\ stored[Bwd(id, k)].transition = <<t[1], t[2] - (k - 1)>>
             /\ t[2] - (k - 1) >= 0
  <2>1. k \in Nat \ {0} /\ k \in 1 .. L /\ k <= h BY <1>1, <1>3
  <2>2. Recalls(id, k) /\ Contains(Bwd(id, k)) BY <1>1, <1>3, <2>1, ChainBehind
  <2>3. stored[Bwd(id, k)].transition = <<t[1], t[2] - (k - 1)>> BY <2>2 DEF Recalls
  <2>4. PICK u : u = stored[Bwd(id, k)].transition OBVIOUS
  <2>5. u[2] \in Nat BY <1>1, <2>2, <2>4, TransitionIs DEF Contains
  <2>6. u[2] = t[2] - (k - 1) BY <2>3, <2>4
  <2> QED BY <2>2, <2>3, <2>5, <2>6 DEF Contains
<1>5. h <= t[2] + 1
  <2>1. h \in 1 .. h BY <1>3
  <2>2. t[2] - (h - 1) >= 0 BY <1>4, <2>1
  <2> QED BY <1>1, <1>3, <2>2
<1>6. h = L \/ h = t[2] + 1
  <2>1. SUFFICES ASSUME h # L PROVE h = t[2] + 1 OBVIOUS
  <2>2. StartsAtReset(id) BY <1>2, <2>1 DEF HistoryComplete
  <2>3. PICK i \in HistoryIds(id, L) : stored[i].transition[2] = 0 BY <2>2, ResetIs
  <2>4. PICK k \in 1 .. h : i = Bwd(id, k) BY <1>3, <2>3
  <2>5. t[2] - (k - 1) = 0
    <3>1. stored[i].transition = <<t[1], t[2] - (k - 1)>> BY <1>4, <2>4
    <3> QED BY <2>3, <3>1
  <2> QED BY <1>1, <1>3, <1>5, <2>5
<1>7. PICK met : met = Unbroken(Behind(id, L)) OBVIOUS
<1>8. met = [k \in 1 .. h |-> Bwd(id, k)]
  <2>1. DOMAIN Behind(id, L) = 1 .. L /\ \A k \in 1 .. L : Behind(id, L)[k] = Bwd(id, k)
    BY <1>1, BehindIs
  <2>2. \A k \in 1 .. L : Contains(Behind(id, L)[k]) <=> k <= h BY <1>3, <2>1
  <2>3. L \in Nat /\ h \in 0 .. L BY <1>1, <1>3
  <2>4. met = [k \in 1 .. h |-> Behind(id, L)[k]] BY <1>7, <2>1, <2>2, <2>3, UnbrokenIs
  <2> QED BY <1>1, <1>3, <2>1, <2>4
<1>9. Len(met) = h /\ \A k \in 1 .. h : met[k] = Bwd(id, k) BY <1>3, <1>8
<1>10. PICK w : w = Window(id) OBVIOUS
<1>11. w = [k \in 1 .. L |-> IF L - k < h THEN met[L - k + 1] ELSE met[h]]
  <2>1. w = [k \in 1 .. L |-> IF L - k < Len(met) THEN met[L - k + 1] ELSE met[Len(met)]]
    BY <1>7, <1>10 DEF Window, PaddedHistory
  <2> QED BY <1>9, <2>1
<1>12. w = [k \in 1 .. L |-> w[k]] BY <1>11
<1>13. \A k \in 1 .. L : w[k] = IF L - k < h THEN Bwd(id, L - k + 1) ELSE Bwd(id, h)
  <2>1. ASSUME NEW k \in 1 .. L
        PROVE  w[k] = IF L - k < h THEN Bwd(id, L - k + 1) ELSE Bwd(id, h)
    <3>1. w[k] = IF L - k < h THEN met[L - k + 1] ELSE met[h] BY <1>11
    <3>2. L - k < h => L - k + 1 \in 1 .. h BY <1>1, <1>3
    <3>3. h \in 1 .. h BY <1>3
    <3> QED BY <1>9, <3>1, <3>2, <3>3
  <2> QED BY <2>1
<1>14. w[L] = id
  <2>1. L \in 1 .. L /\ L - L < h /\ L - L + 1 = 1 BY <1>1, <1>3
  <2>2. Bwd(id, 1) = id BY <1>1, BehindIs
  <2> QED BY <1>13, <2>1, <2>2
<1>15. ASSUME NEW k \in 1 .. L
       PROVE  w[k] \in DOMAIN stored /\ stored[w[k]].transition = <<t[1], PlaceAt(t[2], k)>>
  <2>1. CASE L - k < h
    <3>1. w[k] = Bwd(id, L - k + 1) /\ L - k + 1 \in 1 .. h BY <1>1, <1>3, <1>13, <2>1
    <3>0. PICK j : j = L - k + 1 OBVIOUS
    <3>2. w[k] \in DOMAIN stored /\ stored[w[k]].transition = <<t[1], t[2] - (j - 1)>>
      BY <1>4, <3>0, <3>1
    <3>3. t[2] - (j - 1) = PlaceAt(t[2], k)
      BY <1>1, <1>3, <1>5, <2>1, <3>0 DEF PlaceAt, RememberedAt
    <3> QED BY <3>2, <3>3
  <2>2. CASE ~(L - k < h)
    <3>1. w[k] = Bwd(id, h) /\ h \in 1 .. h BY <1>3, <1>13, <2>2
    <3>2. w[k] \in DOMAIN stored /\ stored[w[k]].transition = <<t[1], t[2] - (h - 1)>>
      BY <1>4, <3>1
    <3>3. t[2] - (h - 1) = PlaceAt(t[2], k)
      BY <1>1, <1>3, <1>6, <2>2 DEF PlaceAt, RememberedAt
    <3> QED BY <3>2, <3>3
  <2> QED BY <2>1, <2>2
<1>16. {w[k] : k \in 1 .. L} = HistoryIds(id, L)
  <2>1. ASSUME NEW k \in 1 .. L PROVE \E j \in 1 .. h : w[k] = Bwd(id, j)
    <3>1. w[k] = IF L - k < h THEN Bwd(id, L - k + 1) ELSE Bwd(id, h) BY <1>13
    <3>2. L - k < h => L - k + 1 \in 1 .. h BY <1>1, <1>3
    <3>3. h \in 1 .. h BY <1>3
    <3> QED BY <3>1, <3>2, <3>3
  <2>2. ASSUME NEW j \in 1 .. h PROVE \E k \in 1 .. L : w[k] = Bwd(id, j)
    <3>1. PICK k : k = L - j + 1 OBVIOUS
    <3>2. k \in 1 .. L /\ L - k < h /\ L - k + 1 = j BY <1>1, <1>3, <3>1
    <3> QED BY <1>13, <3>2
  <2> QED BY <1>3, <2>1, <2>2
<1>17. Cardinality({w[k] : k \in 1 .. L}) = h BY <1>2, <1>16
<1> HIDE DEF L
<1>18. WindowFacts(id, w, t, h)
  BY <1>3, <1>5, <1>6, <1>12, <1>14, <1>15, <1>17 DEF WindowFacts, L
<1> QED BY <1>2, <1>10, <1>18 DEF L

-----------------------------------------------------------------------------
(* The windows that are drawn.                                               *)

\* The place of a step in a window, as the actor counts it.
LEMMA PlaceIs ==
    ASSUME NEW reached \in Int, NEW k \in Int
    PROVE  PlaceAt(reached, k) = Max({0, RememberedAt(reached, k)}) /\ PlaceAt(reached, k) \in Nat
<1>1. SequenceLength \in Nat BY IndexConstants
<1>2. PICK r : r = RememberedAt(reached, k) OBVIOUS
<1>3. r \in Int BY <1>1, <1>2 DEF RememberedAt
<1>4. Max({0, r}) = IF 0 <= r THEN r ELSE 0 BY <1>3, OfTwo
<1> QED BY <1>2, <1>3, <1>4 DEF PlaceAt

\* The last of two sequences together.
IsSequence(f, n) == f = [k \in 1 .. n |-> f[k]]
Spliced(f, g, n) ==
    [k \in 1 .. SequenceLength |-> IF n + k <= SequenceLength THEN f[n + k]
                                   ELSE g[n + k - SequenceLength]]

LEMMA LastOnesIs ==
    ASSUME NEW n \in Nat, NEW f, NEW g, IsSequence(f, SequenceLength), IsSequence(g, n)
    PROVE  LastOnes(f \o g) = Spliced(f, g, n)
<1> DEFINE L == SequenceLength
<1>0. f = [k \in 1 .. L |-> f[k]] /\ g = [k \in 1 .. n |-> g[k]] BY DEF IsSequence
<1>1. L \in Nat BY IndexConstants
<1>2. PICK all : all = f \o g OBVIOUS
<1>3. all = [k \in 1 .. L + n |-> IF k <= L THEN f[k] ELSE g[k - L]] BY <1>0, <1>1, <1>2, Joined
<1>4. all = [k \in 1 .. L + n |-> all[k]] /\ Len(all) = L + n BY <1>1, <1>3
<1>5. L + n \in Nat /\ n + 1 \in 1 .. L + n + 1 /\ L + n - L + 1 = n + 1 BY <1>1
<1>6. SubSeq(all, n + 1, L + n) = [k \in 1 .. (L + n) - (n + 1) + 1 |-> all[n + 1 + k - 1]]
  BY <1>4, <1>5, Sliced
<1>7. (L + n) - (n + 1) + 1 = L BY <1>1
<1>8. ASSUME NEW k \in 1 .. L
      PROVE  all[n + 1 + k - 1] = IF n + k <= L THEN f[n + k] ELSE g[n + k - L]
  <2>1. PICK j : j = n + k OBVIOUS
  <2>2. n + 1 + k - 1 = j /\ j \in 1 .. L + n BY <1>1, <2>1
  <2>3. all[j] = IF j <= L THEN f[j] ELSE g[j - L] BY <1>3, <2>2
  <2>4. all[n + 1 + k - 1] = all[j] BY <2>2
  <2>5. (IF j <= L THEN f[j] ELSE g[j - L]) = IF n + k <= L THEN f[n + k] ELSE g[n + k - L]
    BY <1>1, <2>1, <2>2
  <2> QED BY <2>3, <2>4, <2>5
<1>9. LastOnes(all) = SubSeq(all, n + 1, L + n)
  <2>1. Len(all) - SequenceLength + 1 = n + 1 /\ Len(all) = L + n BY <1>1, <1>4, <1>5
  <2>2. LastOnes(all) = SubSeq(all, Len(all) - SequenceLength + 1, Len(all)) BY DEF LastOnes
  <2> QED BY <2>1, <2>2
<1>10. LastOnes(all) = [k \in 1 .. L |-> all[n + 1 + k - 1]] BY <1>6, <1>7, <1>9
<1> QED BY <1>2, <1>8, <1>10 DEF Spliced

\* A window is padded where the memory of an actor is.
LEMMA PaddingIs ==
    ASSUME NEW id, NEW window, NEW t, NEW h, t[2] \in Nat, WindowFacts(id, window, t, h)
    PROVE  /\ PaddingMask(window) = ActorMask(t[2])
           /\ \A k \in 1 .. SequenceLength : ActorMask(t[2])[k] <=> RememberedAt(t[2], k) >= 0
<1>1. SequenceLength \in Nat \ {0} BY IndexConstants
<1>2. h \in 1 .. SequenceLength /\ h <= t[2] + 1 /\ (h = SequenceLength \/ h = t[2] + 1)
      /\ Cardinality({window[k] : k \in 1 .. SequenceLength}) = h
  BY DEF WindowFacts
<1>3. PaddingMask(window) = [k \in 1 .. SequenceLength |-> k > SequenceLength - h]
  BY <1>2 DEF PaddingMask
<1>4. ASSUME NEW k \in 1 .. SequenceLength
      PROVE  (k > SequenceLength - h) = (RememberedAt(t[2], k) >= 0)
  BY <1>1, <1>2 DEF RememberedAt
<1> QED BY <1>3, <1>4 DEF ActorMask

\* The positions of a window are the steps of the lap, the last one with its whole horizon.
PositionFacts(window, t) ==
    /\ \A k \in 1 .. SequenceLength :
         WindowPosition(window, k).observation = <<t[1], PlaceAt(t[2], k)>>
    /\ \A k \in 1 .. SequenceLength - 1 :
         /\ WindowPosition(window, k).reward = Reward[<<t[1], PlaceAt(t[2], k)>>]
         /\ WindowPosition(window, k).next = NextObservation(<<t[1], PlaceAt(t[2], k)>>)
    /\ WindowPosition(window, SequenceLength) = Reference(t)

LEMMA PositionIs ==
    ASSUME StoreInv, NEW id \in DOMAIN stored, HorizonComplete(id), NEW t,
           t = stored[id].transition, NEW window, NEW h, WindowFacts(id, window, t, h)
    PROVE  PositionFacts(window, t)
<1>1. SequenceLength \in Nat \ {0} /\ t[2] \in Nat /\ t = <<t[1], t[2]>>
  BY IndexConstants, TransitionIs DEF StoreInv
<1>2. window[SequenceLength] = id
      /\ \A k \in 1 .. SequenceLength :
           window[k] \in DOMAIN stored /\ stored[window[k]].transition = <<t[1], PlaceAt(t[2], k)>>
  BY DEF WindowFacts
<1>3. ASSUME NEW k \in 1 .. SequenceLength - 1
      PROVE  /\ WindowPosition(window, k).observation = <<t[1], PlaceAt(t[2], k)>>
             /\ WindowPosition(window, k).reward = Reward[<<t[1], PlaceAt(t[2], k)>>]
             /\ WindowPosition(window, k).next = NextObservation(<<t[1], PlaceAt(t[2], k)>>)
  <2>1. k # SequenceLength /\ k \in 1 .. SequenceLength BY <1>1
  <2>2. PICK i \in DOMAIN stored : i = window[k] BY <1>2, <2>1
  <2>3. stored[i].transition = <<t[1], PlaceAt(t[2], k)>> BY <1>2, <2>1, <2>2
  <2>4. WindowPosition(window, k) = Accumulated(<<i>>) BY <2>1, <2>2 DEF WindowPosition
  <2>5. /\ Accumulated(<<i>>).observation = stored[i].transition
        /\ Accumulated(<<i>>).reward = Reward[stored[i].transition]
        /\ Accumulated(<<i>>).next = NextObservation(stored[i].transition)
    BY StepIs
  <2> QED BY <2>3, <2>4, <2>5
<1>4. WindowPosition(window, SequenceLength) = Reference(t)
  BY <1>2, MaterializedIs DEF WindowPosition
<1>5. Reference(t).observation = <<t[1], PlaceAt(t[2], SequenceLength)>>
  <2>1. Reference(t).observation = t BY DEF Reference
  <2>2. PlaceAt(t[2], SequenceLength) = t[2] BY <1>1 DEF PlaceAt, RememberedAt
  <2> QED BY <1>1, <2>1, <2>2
<1>6. \A k \in 1 .. SequenceLength : k = SequenceLength \/ k \in 1 .. SequenceLength - 1 BY <1>1
<1> QED BY <1>3, <1>4, <1>5, <1>6 DEF PositionFacts

\* The state an n-step return bootstraps from has the history that leads there.
TargetFacts(window, t, n) ==
    /\ n \in 1 .. NStep /\ t[2] + n - 1 <= LastStep[t[1]]
    /\ TargetHistory(window) =
         [k \in 1 .. SequenceLength |->
            IF n + k <= SequenceLength THEN <<t[1], PlaceAt(t[2], n + k)>>
            ELSE NextObservation(StepAfter(t, n + k - SequenceLength - 1))]
    /\ TargetMask(window) = ActorMask(t[2] + n)

LEMMA TargetIs ==
    ASSUME StoreInv, NEW id \in DOMAIN stored, HorizonComplete(id), NEW t,
           t = stored[id].transition, NEW window, NEW h, WindowFacts(id, window, t, h)
    PROVE  TargetFacts(window, t, Steps(t))
<1> DEFINE L == SequenceLength
<1>1. L \in Nat \ {0} /\ NStep \in Nat \ {0} /\ t[2] \in Nat /\ t = <<t[1], t[2]>>
  BY IndexConstants, TransitionIs DEF StoreInv
<1>2. window[L] = id
      /\ \A k \in 1 .. L :
           window[k] \in DOMAIN stored /\ stored[window[k]].transition = <<t[1], PlaceAt(t[2], k)>>
  BY DEF WindowFacts
<1>3. PICK ids, n : ids = NStepIds(id, NStep) /\ n = Steps(t) OBVIOUS
<1>4. HorizonFacts(id, ids, t, n) BY <1>3, HorizonIs
<1>5. /\ n \in Nat \ {0} /\ n \in 1 .. NStep /\ t[2] + n - 1 <= LastStep[t[1]] /\ Len(ids) = n
      /\ \A k \in 1 .. n : /\ ids[k] \in DOMAIN stored
                           /\ stored[ids[k]].transition = StepAfter(t, k - 1)
  BY <1>1, <1>4 DEF HorizonFacts
<1>6. PICK f : f = [k \in 1 .. L |-> stored[window[k]].transition] OBVIOUS
<1>7. PICK g : g = [k \in 1 .. n |-> ReadNext(ids[k])] OBVIOUS
<1>8. f = [k \in 1 .. L |-> f[k]] /\ \A k \in 1 .. L : f[k] = <<t[1], PlaceAt(t[2], k)>>
  BY <1>2, <1>6
<1>9. g = [k \in 1 .. n |-> g[k]] /\ \A k \in 1 .. n : g[k] = NextObservation(StepAfter(t, k - 1))
  BY <1>5, <1>7, ObservationsKept DEF NextObservationIsKept
<1>10. TargetHistory(window) = LastOnes(f \o g)
  BY <1>2, <1>3, <1>5, <1>6, <1>7 DEF TargetHistory
<1>11. LastOnes(f \o g) = [k \in 1 .. L |-> IF n + k <= L THEN f[n + k] ELSE g[n + k - L]]
  <2>1. n \in Nat /\ IsSequence(f, L) /\ IsSequence(g, n) BY <1>5, <1>8, <1>9 DEF IsSequence
  <2>2. LastOnes(f \o g) = Spliced(f, g, n) BY <2>1, LastOnesIs
  <2> QED BY <2>2 DEF Spliced
<1>12. ASSUME NEW k \in 1 .. L
       PROVE  (IF n + k <= L THEN f[n + k] ELSE g[n + k - L])
                = IF n + k <= L THEN <<t[1], PlaceAt(t[2], n + k)>>
                  ELSE NextObservation(StepAfter(t, n + k - L - 1))
  <2>1. CASE n + k <= L
    <3>1. PICK j : j = n + k OBVIOUS
    <3>2. j \in 1 .. L BY <1>1, <1>5, <2>1, <3>1
    <3>3. f[j] = <<t[1], PlaceAt(t[2], j)>> BY <1>8, <3>2
    <3> QED BY <2>1, <3>1, <3>3
  <2>2. CASE ~(n + k <= L)
    <3>1. PICK j : j = n + k - L OBVIOUS
    <3>2. j \in 1 .. n /\ j - 1 = n + k - L - 1 BY <1>1, <1>5, <2>2, <3>1
    <3>3. g[j] = NextObservation(StepAfter(t, j - 1)) BY <1>9, <3>2
    <3> QED BY <2>2, <3>1, <3>2, <3>3
  <2> QED BY <2>1, <2>2
<1>13. TargetHistory(window) =
         [k \in 1 .. L |-> IF n + k <= L THEN <<t[1], PlaceAt(t[2], n + k)>>
                           ELSE NextObservation(StepAfter(t, n + k - L - 1))]
  BY <1>10, <1>11, <1>12
<1>14. PICK b : b = [k \in 1 .. n |-> TRUE] OBVIOUS
<1>15. PICK a : a = ActorMask(t[2]) OBVIOUS
<1>16. PaddingMask(window) = a /\ a = [k \in 1 .. L |-> RememberedAt(t[2], k) >= 0]
  BY <1>1, <1>15, PaddingIs DEF ActorMask
<1>17. TargetMask(window) = LastOnes(a \o b)
  BY <1>2, <1>3, <1>5, <1>14, <1>16 DEF TargetMask
<1>18. a = [k \in 1 .. L |-> a[k]] /\ b = [k \in 1 .. n |-> b[k]] BY <1>14, <1>16
<1>19. LastOnes(a \o b) = [k \in 1 .. L |-> IF n + k <= L THEN a[n + k] ELSE b[n + k - L]]
  <2>1. n \in Nat /\ IsSequence(a, L) /\ IsSequence(b, n) BY <1>5, <1>18 DEF IsSequence
  <2>2. LastOnes(a \o b) = Spliced(a, b, n) BY <2>1, LastOnesIs
  <2> QED BY <2>2 DEF Spliced
<1>20. ASSUME NEW k \in 1 .. L
       PROVE  (IF n + k <= L THEN a[n + k] ELSE b[n + k - L]) = (RememberedAt(t[2] + n, k) >= 0)
  <2>1. CASE n + k <= L
    <3>1. PICK j : j = n + k OBVIOUS
    <3>2. j \in 1 .. L BY <1>1, <1>5, <2>1, <3>1
    <3>3. a[j] = (RememberedAt(t[2], j) >= 0) BY <1>16, <3>2
    <3>4. RememberedAt(t[2], j) = RememberedAt(t[2] + n, k) BY <1>1, <1>5, <3>1 DEF RememberedAt
    <3> QED BY <2>1, <3>1, <3>3, <3>4
  <2>2. CASE ~(n + k <= L)
    <3>1. PICK j : j = n + k - L OBVIOUS
    <3>2. j \in 1 .. n BY <1>1, <1>5, <2>2, <3>1
    <3>3. b[j] = TRUE BY <1>14, <3>2
    <3>4. RememberedAt(t[2] + n, k) >= 0 BY <1>1, <1>5, <2>2 DEF RememberedAt
    <3> QED BY <2>2, <3>1, <3>3, <3>4
  <2> QED BY <2>1, <2>2
<1>21. TargetMask(window) = ActorMask(t[2] + n) BY <1>17, <1>19, <1>20 DEF ActorMask
<1> HIDE DEF L
<1>22. TargetFacts(window, t, n) BY <1>5, <1>13, <1>21 DEF TargetFacts, L
<1> QED BY <1>3, <1>22

\* When every observation is followed by the one it announces, that history is the actor's.
LEMMA TargetAnnounced ==
    ASSUME NEW window, NEW t, NEW n, TargetFacts(window, t, n), t[2] \in Nat
    PROVE  /\ TargetHistory(window)[SequenceLength] = NextObservation(StepAfter(t, n - 1))
           /\ (\A k \in 0 .. n - 1 : NextObservation(StepAfter(t, k)) = StepAfter(t, k + 1))
                => TargetHistory(window) = ActorHistory(t, t[2] + n)
<1> DEFINE L == SequenceLength
<1>1. L \in Nat \ {0} /\ NStep \in Nat \ {0} /\ n \in 1 .. NStep /\ n \in Nat \ {0}
  BY IndexConstants DEF TargetFacts
<1>2. PICK all : all = TargetHistory(window) OBVIOUS
<1>3. all = [k \in 1 .. L |-> IF n + k <= L THEN <<t[1], PlaceAt(t[2], n + k)>>
                              ELSE NextObservation(StepAfter(t, n + k - L - 1))]
  BY <1>2 DEF TargetFacts
<1>4. all[L] = NextObservation(StepAfter(t, n - 1))
  <2>1. L \in 1 .. L /\ ~(n + L <= L) /\ n + L - L - 1 = n - 1 BY <1>1
  <2> QED BY <1>3, <2>1
<1>5. ASSUME \A k \in 0 .. n - 1 : NextObservation(StepAfter(t, k)) = StepAfter(t, k + 1)
      PROVE  all = ActorHistory(t, t[2] + n)
  <2>1. ASSUME NEW k \in 1 .. L
        PROVE  (IF n + k <= L THEN <<t[1], PlaceAt(t[2], n + k)>>
                ELSE NextObservation(StepAfter(t, n + k - L - 1)))
                 = <<t[1], PlaceAt(t[2] + n, k)>>
    <3>1. CASE n + k <= L
      <4>1. PlaceAt(t[2], n + k) = PlaceAt(t[2] + n, k) BY <1>1 DEF PlaceAt, RememberedAt
      <4> QED BY <3>1, <4>1
    <3>2. CASE ~(n + k <= L)
      <4>1. PICK j : j = n + k - L - 1 OBVIOUS
      <4>2. j \in 0 .. n - 1 BY <1>1, <3>2, <4>1
      <4>3. NextObservation(StepAfter(t, j)) = StepAfter(t, j + 1) BY <1>5, <4>2
      <4>4. PlaceAt(t[2] + n, k) = t[2] + (j + 1) BY <1>1, <3>2, <4>1 DEF PlaceAt, RememberedAt
      <4> QED BY <3>2, <4>1, <4>3, <4>4 DEF StepAfter
    <3> QED BY <3>1, <3>2
  <2>2. \A k \in 1 .. L : PlaceAt(t[2] + n, k) = Max({0, RememberedAt(t[2] + n, k)})
    <3>1. t[2] + n \in Int BY <1>1
    <3> QED BY <3>1, PlaceIs
  <2>3. ActorHistory(t, t[2] + n) = [k \in 1 .. L |-> <<t[1], PlaceAt(t[2] + n, k)>>]
    BY <2>2 DEF ActorHistory
  <2> QED BY <1>3, <2>1, <2>3
<1> QED BY <1>2, <1>4, <1>5

\* What is drawn for a transition that may be drawn is what was driven.
BatchIs(id) ==
    LET t == stored[id].transition
        window == Window(id)
        reached == t[2] + Steps(t)
    IN /\ Materialized(id) = Reference(t)
       /\ [k \in 1 .. SequenceLength |-> WindowPosition(window, k).observation]
            = ActorHistory(t, t[2])
       /\ PaddingMask(window) = ActorMask(t[2])
       /\ \A k \in 1 .. SequenceLength - 1 :
            WindowPosition(window, k).next = NextObservation(stored[window[k]].transition)
       /\ TargetHistory(window)[SequenceLength] = NextObservation(StepAfter(t, Steps(t) - 1))
       /\ (\A k \in 0 .. Steps(t) - 1 : NextObservation(StepAfter(t, k)) = StepAfter(t, k + 1))
            => TargetHistory(window) = ActorHistory(t, reached)
       /\ TargetMask(window) = ActorMask(reached)

LEMMA BatchHolds ==
    ASSUME StoreInv, NEW id \in DOMAIN stored, Eligible(id)
    PROVE  BatchIs(id)
<1>1. PICK t : t = stored[id].transition OBVIOUS
<1>2. PICK w, h, n :
        /\ w = Window(id) /\ h = Cardinality(HistoryIds(id, SequenceLength))
        /\ n = Steps(t)
  OBVIOUS
<1>3. HorizonComplete(id) /\ HistoryComplete(id) BY DEF Eligible
<1>4. WindowFacts(id, w, t, h) BY <1>1, <1>2, <1>3, WindowIs
<1>5. SequenceLength \in Nat \ {0} /\ t[2] \in Nat
  BY <1>1, IndexConstants, TransitionIs DEF StoreInv
<1>6. Materialized(id) = Reference(t) BY <1>1, <1>3, MaterializedIs
<1>7. PaddingMask(w) = ActorMask(t[2]) BY <1>4, <1>5, PaddingIs
<1>8. /\ \A k \in 1 .. SequenceLength :
           WindowPosition(w, k).observation = <<t[1], PlaceAt(t[2], k)>>
      /\ \A k \in 1 .. SequenceLength - 1 :
           WindowPosition(w, k).next = NextObservation(<<t[1], PlaceAt(t[2], k)>>)
  <2>1. PositionFacts(w, t) BY <1>1, <1>3, <1>4, PositionIs
  <2> QED BY <2>1 DEF PositionFacts
<1>9. [k \in 1 .. SequenceLength |-> WindowPosition(w, k).observation] = ActorHistory(t, t[2])
  <2>1. \A k \in 1 .. SequenceLength : PlaceAt(t[2], k) = Max({0, RememberedAt(t[2], k)})
    BY <1>5, PlaceIs
  <2> QED BY <1>8, <2>1 DEF ActorHistory
<1>10. \A k \in 1 .. SequenceLength - 1 :
         WindowPosition(w, k).next = NextObservation(stored[w[k]].transition)
  <2>1. \A k \in 1 .. SequenceLength : stored[w[k]].transition = <<t[1], PlaceAt(t[2], k)>>
    BY <1>4 DEF WindowFacts
  <2>2. \A k \in 1 .. SequenceLength - 1 : k \in 1 .. SequenceLength BY <1>5
  <2> QED BY <1>8, <2>1, <2>2
<1>11. TargetFacts(w, t, n) BY <1>1, <1>2, <1>3, <1>4, TargetIs
<1>12. TargetMask(w) = ActorMask(t[2] + n) BY <1>11 DEF TargetFacts
<1>13. /\ TargetHistory(w)[SequenceLength] = NextObservation(StepAfter(t, n - 1))
       /\ (\A k \in 0 .. n - 1 : NextObservation(StepAfter(t, k)) = StepAfter(t, k + 1))
            => TargetHistory(w) = ActorHistory(t, t[2] + n)
  BY <1>5, <1>11, TargetAnnounced
<1> QED BY <1>1, <1>2, <1>6, <1>7, <1>9, <1>10, <1>12, <1>13 DEF BatchIs

\* A window that is not padded ends with a transition that may be drawn.
LEMMA WholeWindow ==
    ASSUME StoreInv, NEW id \in WindowEnds
    PROVE  Eligible(id) /\ stored[id].transition[2] >= SequenceLength - 1
<1>1. id \in DOMAIN stored /\ HorizonComplete(id)
      /\ Cardinality(HistoryIds(id, SequenceLength)) = SequenceLength
  BY DEF WindowEnds
<1>2. HistoryComplete(id) BY <1>1 DEF HistoryComplete
<1>3. PICK t, h : t = stored[id].transition /\ h = Cardinality(HistoryIds(id, SequenceLength))
  OBVIOUS
<1>4. WindowFacts(id, Window(id), t, h) BY <1>1, <1>2, <1>3, WindowIs
<1>5. h = SequenceLength /\ h <= t[2] + 1 BY <1>1, <1>3, <1>4 DEF WindowFacts
<1>6. SequenceLength \in Nat \ {0} /\ t[2] \in Nat
  BY <1>1, <1>3, IndexConstants, TransitionIs DEF StoreInv
<1> QED BY <1>1, <1>2, <1>3, <1>5, <1>6 DEF Eligible, Contains

\* The ends a sampler has kept are those of the revision it kept them at.
WindowInv ==
    /\ windowCache.revision \in Int /\ windowCache.revision <= storeRevision
    /\ windowCache.revision = storeRevision => windowCache.ends = WindowEnds
SamplerInv == StoreInv /\ WindowInv

LEMMA BatchesHold == SamplerInv => BatchesAreTrue
<1> SUFFICES ASSUME SamplerInv PROVE BatchesAreTrue OBVIOUS
<1>1. StoreInv /\ WindowInv BY DEF SamplerInv
<1>2. \A id \in DOMAIN stored : Eligible(id) => BatchIs(id) BY <1>1, BatchHolds
<1>3. \A id \in WindowEnds : Eligible(id) /\ stored[id].transition[2] >= SequenceLength - 1
  BY <1>1, WholeWindow
<1>4. windowCache.revision = storeRevision => windowCache.ends = WindowEnds BY <1>1 DEF WindowInv
<1> QED BY <1>2, <1>3, <1>4 DEF BatchesAreTrue, BatchIs

-----------------------------------------------------------------------------
(* The steps of a store under a sampler of sequences.                        *)

\* Windows end where they did while transitions and links stay.
LEMMA SameEnds ==
    ASSUME StoreInv, StoreInv', DOMAIN stored' = DOMAIN stored,
           \A i \in DOMAIN stored : /\ stored'[i].transition = stored[i].transition
                                    /\ stored'[i].next = stored[i].next
    PROVE  WindowEnds' = WindowEnds
<1>1. ASSUME NEW x \in DOMAIN stored
      PROVE  /\ HorizonComplete(x)' <=> HorizonComplete(x)
             /\ HistoryIds(x, SequenceLength)' = HistoryIds(x, SequenceLength)
  <2>1. SameReach(x) BY QuietMoves, ReachIs
  <2> QED BY <2>1, EligibleAsBefore
<1>2. \A x : x \in WindowEnds' <=> x \in WindowEnds
  <2>1. ASSUME NEW x PROVE x \in WindowEnds' <=> x \in WindowEnds
    <3>1. x \in WindowEnds <=>
            /\ x \in DOMAIN stored /\ HorizonComplete(x)
            /\ Cardinality(HistoryIds(x, SequenceLength)) = SequenceLength
      BY DEF WindowEnds
    <3>2. x \in WindowEnds' <=>
            /\ x \in DOMAIN stored' /\ HorizonComplete(x)'
            /\ Cardinality(HistoryIds(x, SequenceLength)') = SequenceLength
      BY DEF WindowEnds
    <3> QED BY <1>1, <3>1, <3>2
  <2> QED BY <2>1
<1> QED BY <1>2

\* A store of another revision is scanned again.
LEMMA Raised ==
    ASSUME SamplerInv, StoreInv', storeRevision' = storeRevision + 1, UNCHANGED windowCache
    PROVE  SamplerInv'
<1>1. /\ windowCache.revision \in Int /\ windowCache.revision <= storeRevision
      /\ storeRevision \in Nat /\ windowCache' = windowCache
  BY DEF SamplerInv, WindowInv, StoreInv, StoreShape
<1>2. windowCache'.revision # storeRevision' BY <1>1
<1> QED BY <1>1, <1>2 DEF SamplerInv, WindowInv

\* One of the same revision has the windows it had.
LEMMA Unraised ==
    ASSUME SamplerInv, StoreInv', storeRevision' = storeRevision, UNCHANGED windowCache,
           DOMAIN stored' = DOMAIN stored,
           \A i \in DOMAIN stored : /\ stored'[i].transition = stored[i].transition
                                    /\ stored'[i].next = stored[i].next
    PROVE  SamplerInv'
<1>1. WindowEnds' = WindowEnds BY SameEnds DEF SamplerInv
<1> QED BY <1>1 DEF SamplerInv, WindowInv

\* A store with nothing in it, under a sampler that has kept nothing.
LEMMA SamplerStarts == BatchInit => SamplerInv
<1> SUFFICES ASSUME BatchInit PROVE SamplerInv OBVIOUS
<1>1. StoreInit /\ windowCache = NoWindows BY DEF BatchInit, ReplayInit
<1>2. StoreInv BY <1>1, StoreStarts
<1>3. storeRevision = 0 BY <1>1 DEF StoreInit
<1>4. WindowInv BY <1>1, <1>3, StoreConstants DEF WindowInv, NoWindows
<1> QED BY <1>2, <1>4 DEF SamplerInv

\* Steps of a store under a sampler of sequences keep what is said of both.
LEMMA SamplerSteps ==
    ASSUME SamplerInv, [SequenceNext]_batchVars
    PROVE  SamplerInv'
<1>1. StoreInv /\ StoreShape /\ WindowInv BY DEF SamplerInv, StoreInv
<1>2. ASSUME NEW t \in Recorded, AppendTransition(t), UNCHANGED windowCache PROVE SamplerInv'
  <2>1. StoreInv' BY <1>1, <1>2, AppendKeeps
  <2>2. storeRevision' = storeRevision + 1 BY <1>2 DEF AppendTransition, Write
  <2> QED BY <1>2, <2>1, <2>2, Raised
<1>3. ASSUME Reappend, UNCHANGED windowCache PROVE SamplerInv'
  <2>1. StoreInv' BY <1>1, <1>3, ReappendKeeps
  <2>2. storeRevision' = storeRevision + 1 BY <1>3 DEF Reappend, Write
  <2> QED BY <1>3, <2>1, <2>2, Raised
<1>4. ASSUME NEW e \in Episode, NEW p \in Label, LabelEpisode(e, p), UNCHANGED windowCache
      PROVE  SamplerInv'
  <2>1. StoreInv' BY <1>1, <1>4, LabelKeeps
  <2>2. PICK D : D = {id \in DOMAIN stored : stored[id].transition[1] = e /\ stored[id].pace # p}
    OBVIOUS
  <2>3. /\ stored' = [id \in DOMAIN stored |->
              IF id \in D THEN [stored[id] EXCEPT !.pace = p] ELSE stored[id]]
        /\ storeRevision' = storeRevision \/ storeRevision' = storeRevision + 1
    BY <1>4, <2>2 DEF LabelEpisode
  <2>4. DOMAIN stored' = DOMAIN stored
        /\ \A i \in DOMAIN stored :
              stored'[i].transition = stored[i].transition /\ stored'[i].next = stored[i].next
    <3>1. \A i \in DOMAIN stored : stored[i] \in StoredEntry BY <1>1, InRing
    <3> QED BY <2>3, <3>1 DEF StoredEntry
  <2>5. CASE storeRevision' = storeRevision + 1 BY <1>4, <2>1, <2>5, Raised
  <2>6. CASE storeRevision' = storeRevision BY <1>4, <2>1, <2>4, <2>6, Unraised
  <2> QED BY <2>3, <2>5, <2>6
<1>5. CASE DrawSequences
  <2>1. UNCHANGED storeVars BY <1>5 DEF DrawSequences, replayVars
  <2>2. StoreInv' BY <1>1, <2>1, StoreStays
  <2>3. stored' = stored /\ storeRevision' = storeRevision BY <2>1 DEF storeVars
  <2>4. WindowEnds' = WindowEnds BY <1>1, <2>2, <2>3, SameEnds
  <2>5. windowCache' = [revision |-> storeRevision, ends |-> CachedEnds] BY <1>5 DEF DrawSequences
  <2>6. CachedEnds = WindowEnds BY <1>1 DEF CachedEnds, WindowInv
  <2>7. storeRevision \in Nat BY <1>1 DEF StoreShape
  <2> QED BY <2>2, <2>3, <2>4, <2>5, <2>6, <2>7 DEF SamplerInv, WindowInv
<1>6. CASE RestoreSampler
  <2>1. Reload /\ windowCache' = NoWindows BY <1>6 DEF RestoreSampler, Restore
  <2>2. StoreInv' BY <1>1, <2>1, ReloadKeeps
  <2>3. storeRevision \in Nat /\ storeRevision' = storeRevision + 1
    BY <1>1, <2>1 DEF Reload, StoreShape
  <2> QED BY <2>1, <2>2, <2>3, StoreConstants DEF SamplerInv, WindowInv, NoWindows
<1>7. CASE UNCHANGED batchVars
  <2>1. UNCHANGED storeVars /\ UNCHANGED windowCache BY <1>7 DEF batchVars, replayVars
  <2>2. StoreInv' BY <1>1, <2>1, StoreStays
  <2>3. stored' = stored /\ storeRevision' = storeRevision BY <2>1 DEF storeVars
  <2> QED BY <2>1, <2>2, <2>3, Unraised
<1> QED BY <1>2, <1>3, <1>4, <1>5, <1>6, <1>7 DEF SequenceNext, StoreStep

\* Whatever is drawn under a sampler of sequences is what was driven.
THEOREM BatchesFollow == SequenceSpec => []BatchesAreTrue
<1>1. SequenceSpec => []SamplerInv BY SamplerStarts, SamplerSteps, PTL DEF SequenceSpec
<1> QED BY <1>1, BatchesHold, PTL

-----------------------------------------------------------------------------
(* What a recurrent value learner makes of a window.                         *)

\* How much of a window that reaches back from a step is padding.
PadOf(reached) == IF reached + 1 >= SequenceLength THEN 0 ELSE SequenceLength - reached - 1
StartOf(reached) == Max({0, reached - SequenceLength + 1})
DrivenFrom(e, from, to) == [k \in 1 .. to - from + 1 |-> <<e, from + k - 1>>]

LEMMA PadIs ==
    ASSUME NEW reached \in Nat, NEW d, d = PadOf(reached)
    PROVE  /\ d \in 0 .. SequenceLength - 1
           /\ StartOf(reached) = reached - SequenceLength + 1 + d
           /\ \A k \in 1 .. SequenceLength : RememberedAt(reached, k) >= 0 <=> k > d
           /\ \A k \in 1 .. SequenceLength :
                k > d => PlaceAt(reached, k) = reached - SequenceLength + k
<1>1. SequenceLength \in Nat \ {0} BY IndexConstants
<1>2. PICK x : x = reached - SequenceLength + 1 OBVIOUS
<1>3. x \in Int BY <1>1, <1>2
<1>4. StartOf(reached) = IF 0 <= x THEN x ELSE 0
  <2>1. Max({0, x}) = IF 0 <= x THEN x ELSE 0 BY <1>3, OfTwo
  <2> QED BY <1>2, <2>1 DEF StartOf
<1> QED BY <1>1, <1>2, <1>4 DEF PadOf, RememberedAt, PlaceAt

\* The frames a recurrent state has seen, when the first d are padding.
EncodedFacts(encoded, frames, d, burnIn) ==
    /\ Len(encoded) = SequenceLength - burnIn
    /\ \A p \in burnIn + 1 .. SequenceLength :
         p > d => encoded[p - burnIn] = [i \in 1 .. p - d |-> frames[d + i]]

LEMMA EncodedIs ==
    ASSUME NEW d \in 0 .. SequenceLength - 1, NEW burnIn \in 0 .. SequenceLength - 1,
           NEW frames, IsSequence(frames, SequenceLength),
           NEW mask, mask = [k \in 1 .. SequenceLength |-> k > d]
    PROVE  EncodedFacts(Encoded(frames, mask, burnIn), frames, d, burnIn)
<1> DEFINE L == SequenceLength
<1>1. L \in Nat \ {0} /\ d \in Nat /\ burnIn \in Nat /\ d < L /\ burnIn < L BY IndexConstants
<1>2. frames = [k \in 1 .. L |-> frames[k]] /\ Len(frames) = L BY <1>1 DEF IsSequence
<1>3. Cardinality({k \in DOMAIN mask : ~mask[k]}) = d
  <2>0. DOMAIN mask = 1 .. L /\ \A k \in 1 .. L : mask[k] <=> k > d OBVIOUS
  <2>1. {k \in DOMAIN mask : ~mask[k]} = 1 .. d BY <1>1, <2>0
  <2> QED BY <1>1, <2>1, FirstNumbers
<1>4. PICK rest : rest = SubSeq(frames, d + 1, L) OBVIOUS
<1>5. rest = [k \in 1 .. L - d |-> rest[k]] /\ Len(rest) = L - d
      /\ \A k \in 1 .. L - d : rest[k] = frames[d + k]
  <2>1. d + 1 \in 1 .. L + 1 BY <1>1
  <2>2. rest = [k \in 1 .. L - (d + 1) + 1 |-> frames[d + 1 + k - 1]]
    BY <1>1, <1>2, <1>4, <2>1, Sliced
  <2>3. L - (d + 1) + 1 = L - d /\ L - d \in Nat /\ \A k \in Nat : d + 1 + k - 1 = d + k BY <1>1
  <2> QED BY <2>2, <2>3
<1>6. PICK c, m : c = Max({0, burnIn - d}) /\ m = Max({0, d - burnIn}) OBVIOUS
<1>7. /\ c = (IF 0 <= burnIn - d THEN burnIn - d ELSE 0)
      /\ m = (IF 0 <= d - burnIn THEN d - burnIn ELSE 0)
  <2>1. PICK x, y : x = burnIn - d /\ y = d - burnIn OBVIOUS
  <2>2. x \in Int /\ y \in Int BY <1>1, <2>1
  <2>3. Max({0, x}) = IF 0 <= x THEN x ELSE 0 BY <2>2, OfTwo
  <2>4. Max({0, y}) = IF 0 <= y THEN y ELSE 0 BY <2>2, OfTwo
  <2> QED BY <1>6, <2>1, <2>3, <2>4
<1>8. c \in Nat /\ m \in Nat /\ c <= L - d /\ m + (L - d - c) = L - burnIn /\ L - d - c \in Nat
  BY <1>1, <1>7
<1>9. PICK values : values = Unrolled(rest, c) OBVIOUS
<1>10. values = [k \in 1 .. L - d - c |-> SubSeq(rest, 1, c + k)] BY <1>5, <1>9 DEF Unrolled
<1>11. PICK pad : pad = [k \in 1 .. m |-> <<>>] OBVIOUS
<1>12. PICK encoded : encoded = Encoded(frames, mask, burnIn) OBVIOUS
<1>13. encoded = pad \o values
  BY <1>2, <1>3, <1>4, <1>6, <1>9, <1>11, <1>12 DEF Encoded
<1>14. encoded = [k \in 1 .. m + (L - d - c) |-> IF k <= m THEN pad[k] ELSE values[k - m]]
  <2>1. pad = [k \in 1 .. m |-> pad[k]] /\ values = [k \in 1 .. L - d - c |-> values[k]]
    BY <1>10, <1>11
  <2> QED BY <1>8, <1>13, <2>1, Joined
<1>15. Len(encoded) = L - burnIn
       /\ \A k \in 1 .. L - burnIn : encoded[k] = IF k <= m THEN pad[k] ELSE values[k - m]
  BY <1>1, <1>8, <1>14
<1>16. ASSUME NEW p \in burnIn + 1 .. L, p > d
       PROVE  encoded[p - burnIn] = [i \in 1 .. p - d |-> frames[d + i]]
  <2>1. PICK k : k = p - burnIn OBVIOUS
  <2>2. k \in 1 .. L - burnIn /\ ~(k <= m) BY <1>1, <1>7, <1>16, <2>1
  <2>3. PICK j : j = k - m OBVIOUS
  <2>4. j \in 1 .. L - d - c /\ c + j = p - d BY <1>1, <1>7, <1>8, <1>16, <2>1, <2>2, <2>3
  <2>5. encoded[k] = SubSeq(rest, 1, c + j) BY <1>10, <1>15, <2>2, <2>3, <2>4
  <2>6. p - d \in 0 .. L - d /\ L - d \in Nat BY <1>1, <1>16
  <2>7. SubSeq(rest, 1, p - d) = [i \in 1 .. p - d |-> rest[i]] BY <1>5, <2>6, Begun
  <2>8. \A i \in 1 .. p - d : rest[i] = frames[d + i] BY <1>5, <2>6
  <2> QED BY <2>1, <2>4, <2>5, <2>7, <2>8
<1> HIDE DEF L
<1> QED BY <1>12, <1>15, <1>16 DEF EncodedFacts, L

\* The frames of an actor's memory: the steps it has driven, and no padding.
MemoryOf(e, reached) == [k \in 1 .. SequenceLength |-> <<e, PlaceAt(reached, k)>>]
FeatureFacts(encoded, e, reached, burnIn) ==
    /\ Len(encoded) = SequenceLength - burnIn
    /\ \A p \in burnIn + 1 .. SequenceLength : RememberedAt(reached, p) >= 0 =>
         encoded[p - burnIn] = DrivenFrom(e, StartOf(reached), reached - SequenceLength + p)

LEMMA FramesAre ==
    ASSUME NEW e, NEW reached \in Nat, NEW burnIn \in 0 .. SequenceLength - 1, NEW frames, NEW mask,
           frames = MemoryOf(e, reached), mask = ActorMask(reached)
    PROVE  FeatureFacts(Encoded(frames, mask, burnIn), e, reached, burnIn)
<1> DEFINE L == SequenceLength
<1>1. L \in Nat \ {0} /\ burnIn \in Nat BY IndexConstants
<1>2. PICK d : d = PadOf(reached) OBVIOUS
<1>3. /\ d \in 0 .. L - 1 /\ StartOf(reached) = reached - L + 1 + d
      /\ \A k \in 1 .. L : RememberedAt(reached, k) >= 0 <=> k > d
      /\ \A k \in 1 .. L : k > d => PlaceAt(reached, k) = reached - L + k
  BY <1>2, PadIs
<1>4. mask = [k \in 1 .. L |-> k > d]
  <2>1. \A k \in 1 .. L : (RememberedAt(reached, k) >= 0) = (k > d) BY <1>3
  <2> QED BY <2>1 DEF ActorMask
<1>5. IsSequence(frames, L) BY DEF IsSequence, MemoryOf
<1>6. PICK encoded : encoded = Encoded(frames, mask, burnIn) OBVIOUS
<1>7. EncodedFacts(encoded, frames, d, burnIn) BY <1>3, <1>4, <1>5, <1>6, EncodedIs
<1>8. ASSUME NEW p \in burnIn + 1 .. L, RememberedAt(reached, p) >= 0
      PROVE  encoded[p - burnIn] = DrivenFrom(e, StartOf(reached), reached - L + p)
  <2>1. p \in 1 .. L BY <1>1
  <2>2. p > d BY <1>3, <1>8, <2>1
  <2>3. encoded[p - burnIn] = [i \in 1 .. p - d |-> frames[d + i]]
    BY <1>7, <2>2 DEF EncodedFacts
  <2>4. ASSUME NEW i \in 1 .. p - d
        PROVE  frames[d + i] = <<e, StartOf(reached) + i - 1>>
    <3>1. PICK k : k = d + i OBVIOUS
    <3>2. k \in 1 .. L /\ k > d BY <1>1, <1>3, <2>1, <2>2, <3>1
    <3>3. frames[k] = <<e, reached - L + k>> BY <1>3, <3>2 DEF MemoryOf
    <3>4. reached - L + k = StartOf(reached) + i - 1 BY <1>1, <1>3, <3>1
    <3> QED BY <3>1, <3>3, <3>4
  <2>5. (reached - L + p) - StartOf(reached) + 1 = p - d BY <1>1, <1>3, <2>1
  <2> QED BY <2>3, <2>4, <2>5 DEF DrivenFrom
<1>9. Len(encoded) = L - burnIn BY <1>7 DEF EncodedFacts
<1> QED BY <1>6, <1>8, <1>9 DEF FeatureFacts

\* What is said of one trained position.
TargetIsTrue(id, burnIn, p) ==
    LET window == Window(id)
        drawn == stored[id].transition
        ran(from, to) == [k \in 1 .. to - from + 1 |-> <<drawn[1], from + k - 1>>]
        first(to) == Max({0, to - SequenceLength + 1})
        reached == drawn[2] - SequenceLength + p
        trained == <<drawn[1], reached>>
        n == Steps(trained)
        announced == \A k \in 0 .. n - 1 :
           NextObservation(StepAfter(trained, k)) = StepAfter(trained, k + 1)
    IN /\ TrainedReturn(window, p) = Reference(trained).reward
       /\ TrainedDiscount(window, p) = Reference(trained).discount
       /\ CurrentFeatures(window, p, burnIn) = ran(first(drawn[2]), reached)
       /\ p < SequenceLength =>
            NextFeatures(window, p, burnIn) = ran(first(drawn[2]), reached + NStep)
       /\ p = SequenceLength /\ announced =>
            NextFeatures(window, p, burnIn) = ran(first(reached + n), reached + n)

\* The features a window gives, at the positions it has a step for.
LEMMA FeaturesAre ==
    ASSUME StoreInv, NEW id \in DOMAIN stored, Eligible(id), NEW t, t = stored[id].transition,
           NEW window, window = Window(id), NEW burnIn \in BurnIns,
           NEW p \in burnIn + 1 .. SequenceLength,
           RememberedAt(t[2], p) >= 0
    PROVE  EncodedWindow(window, burnIn)[p - burnIn]
             = DrivenFrom(t[1], StartOf(t[2]), t[2] - SequenceLength + p)
<1>1. PICK h : h = Cardinality(HistoryIds(id, SequenceLength)) OBVIOUS
<1>2. HorizonComplete(id) /\ HistoryComplete(id) BY DEF Eligible
<1>3. WindowFacts(id, window, t, h) BY <1>1, <1>2, WindowIs
<1>4. t[2] \in Nat BY TransitionIs DEF StoreInv
<1>5. PaddingMask(window) = ActorMask(t[2]) BY <1>3, <1>4, PaddingIs
<1>6. \A k \in 1 .. SequenceLength :
        WindowPosition(window, k).observation = <<t[1], PlaceAt(t[2], k)>>
  <2>1. PositionFacts(window, t) BY <1>2, <1>3, PositionIs
  <2> QED BY <2>1 DEF PositionFacts
<1>7. Observations(window) = [k \in 1 .. SequenceLength |-> <<t[1], PlaceAt(t[2], k)>>]
  BY <1>6 DEF Observations
<1>8. PICK frames, mask, e, reached :
        frames = Observations(window) /\ mask = PaddingMask(window) /\ e = t[1] /\ reached = t[2]
  OBVIOUS
<1>9. /\ reached \in Nat /\ burnIn \in 0 .. SequenceLength - 1 /\ mask = ActorMask(reached)
      /\ frames = MemoryOf(e, reached)
  BY <1>4, <1>5, <1>7, <1>8 DEF BurnIns, MemoryOf
<1>10. PICK encoded : encoded = Encoded(frames, mask, burnIn) OBVIOUS
<1>11. \A q \in burnIn + 1 .. SequenceLength : RememberedAt(reached, q) >= 0 =>
         encoded[q - burnIn] = DrivenFrom(e, StartOf(reached), reached - SequenceLength + q)
  BY <1>9, <1>10, FramesAre DEF FeatureFacts
<1>12. EncodedWindow(window, burnIn) = encoded BY <1>8, <1>10 DEF EncodedWindow
<1> QED BY <1>8, <1>11, <1>12

\* The last position: its reward is a return already, and it bootstraps from the target history.
LEMMA LastTarget ==
    ASSUME StoreInv, NEW id \in DOMAIN stored, Eligible(id), NEW burnIn \in BurnIns
    PROVE  TargetIsTrue(id, burnIn, SequenceLength)
<1>1. PICK t : t = stored[id].transition OBVIOUS
<1>2. PICK w, h, n :
        /\ w = Window(id) /\ h = Cardinality(HistoryIds(id, SequenceLength))
        /\ n = Steps(t)
  OBVIOUS
<1>3. HorizonComplete(id) /\ HistoryComplete(id) BY DEF Eligible
<1>4. WindowFacts(id, w, t, h) BY <1>1, <1>2, <1>3, WindowIs
<1>5. /\ SequenceLength \in Nat \ {0} /\ NStep \in Nat \ {0}
      /\ t[2] \in Nat /\ t = <<t[1], t[2]>> /\ burnIn \in 0 .. SequenceLength - 1
  BY <1>1, IndexConstants, TransitionIs DEF StoreInv, BurnIns
<1>6. t[2] - SequenceLength + SequenceLength = t[2]
      /\ <<t[1], t[2] - SequenceLength + SequenceLength>> = t
      /\ SequenceLength \in burnIn + 1 .. SequenceLength /\ ~(SequenceLength < SequenceLength)
  BY <1>5
<1>7. WindowPosition(w, SequenceLength) = Reference(t)
  BY <1>1, <1>3, <1>4, PositionIs DEF PositionFacts
<1>8. TrainedReturn(w, SequenceLength) = Reference(t).reward
      /\ TrainedDiscount(w, SequenceLength) = Reference(t).discount
  BY <1>7 DEF TrainedReturn, TrainedDiscount
<1>9. CurrentFeatures(w, SequenceLength, burnIn) = DrivenFrom(t[1], StartOf(t[2]), t[2])
  <2>1. RememberedAt(t[2], SequenceLength) >= 0 BY <1>5 DEF RememberedAt
  <2>2. EncodedWindow(w, burnIn)[SequenceLength - burnIn]
          = DrivenFrom(t[1], StartOf(t[2]), t[2] - SequenceLength + SequenceLength)
    BY <1>1, <1>2, <1>6, <2>1, FeaturesAre
  <2> QED BY <1>6, <2>2 DEF CurrentFeatures
<1>10. TargetFacts(w, t, n) BY <1>1, <1>2, <1>3, <1>4, TargetIs
<1>11. n \in Nat \ {0} BY <1>5, <1>10 DEF TargetFacts
<1>12. ASSUME \A k \in 0 .. n - 1 : NextObservation(StepAfter(t, k)) = StepAfter(t, k + 1)
       PROVE  NextFeatures(w, SequenceLength, burnIn)
                = DrivenFrom(t[1], StartOf(t[2] + n), t[2] + n)
  <2>1. TargetHistory(w) = ActorHistory(t, t[2] + n) BY <1>5, <1>10, <1>12, TargetAnnounced
  <2>2. PICK frames, mask, e, reached :
          frames = TargetHistory(w) /\ mask = TargetMask(w) /\ e = t[1] /\ reached = t[2] + n
    OBVIOUS
  <2>3. reached \in Nat /\ mask = ActorMask(reached) BY <1>5, <1>10, <1>11, <2>2 DEF TargetFacts
  <2>4. frames = MemoryOf(e, reached)
    <3>1. \A k \in 1 .. SequenceLength : PlaceAt(reached, k) = Max({0, RememberedAt(reached, k)})
      BY <2>3, PlaceIs
    <3> QED BY <2>1, <2>2, <3>1 DEF ActorHistory, MemoryOf
  <2>5. PICK encoded : encoded = Encoded(frames, mask, burnIn) OBVIOUS
  <2>6. /\ Len(encoded) = SequenceLength - burnIn
        /\ \A q \in burnIn + 1 .. SequenceLength : RememberedAt(reached, q) >= 0 =>
             encoded[q - burnIn] = DrivenFrom(e, StartOf(reached), reached - SequenceLength + q)
    BY <1>5, <2>3, <2>4, <2>5, FramesAre DEF FeatureFacts
  <2>7. /\ RememberedAt(reached, SequenceLength) >= 0
        /\ reached - SequenceLength + SequenceLength = reached
    BY <1>5, <2>3 DEF RememberedAt
  <2>8. encoded[Len(encoded)] = DrivenFrom(e, StartOf(reached), reached) BY <1>6, <2>6, <2>7
  <2>9. NextFeatures(w, SequenceLength, burnIn) = encoded[Len(encoded)]
    BY <2>2, <2>5 DEF NextFeatures
  <2> QED BY <2>2, <2>8, <2>9
<1> QED BY <1>1, <1>2, <1>6, <1>8, <1>9, <1>12 DEF TargetIsTrue, DrivenFrom, StartOf

\* The others: their rewards are the next ones in the window, which also holds where they end.
LEMMA InnerTarget ==
    ASSUME StoreInv, NEW id \in DOMAIN stored, Eligible(id), NEW burnIn \in BurnIns,
           NEW p \in InnerPositions(burnIn), PaddingMask(Window(id))[p]
    PROVE  TargetIsTrue(id, burnIn, p)
<1>1. PICK t : t = stored[id].transition OBVIOUS
<1>2. PICK w, h : w = Window(id) /\ h = Cardinality(HistoryIds(id, SequenceLength)) OBVIOUS
<1>3. HorizonComplete(id) /\ HistoryComplete(id) BY DEF Eligible
<1>4. WindowFacts(id, w, t, h) BY <1>1, <1>2, <1>3, WindowIs
<1>5. /\ SequenceLength \in Nat \ {0} /\ NStep \in Nat \ {0} /\ NStep < SequenceLength
      /\ t[2] \in Nat /\ t = <<t[1], t[2]>> /\ t[2] <= LastStep[t[1]] /\ LastStep[t[1]] \in Nat
      /\ burnIn \in 0 .. SequenceLength - 1 /\ p \in burnIn + 1 .. SequenceLength - NStep
  BY <1>1, IndexConstants, TransitionIs, TargetsAssumption DEF StoreInv, BurnIns, InnerPositions
<1>6. PICK q : q = p + NStep OBVIOUS
<1>7. /\ p \in burnIn + 1 .. SequenceLength /\ q \in burnIn + 1 .. SequenceLength
      /\ p \in 1 .. SequenceLength /\ p # SequenceLength
  BY <1>5, <1>6
<1>8. RememberedAt(t[2], p) >= 0
  <2>1. PaddingMask(w)[p] /\ PaddingMask(w) = ActorMask(t[2]) BY <1>2, <1>4, <1>5, PaddingIs
  <2> QED BY <1>7, <2>1 DEF ActorMask
<1>9. PICK reached, e : reached = t[2] - SequenceLength + p /\ e = t[1] OBVIOUS
<1>10. reached \in Nat /\ reached + NStep <= t[2] /\ RememberedAt(t[2], q) >= 0
       /\ t[2] - SequenceLength + q = reached + NStep
  BY <1>5, <1>6, <1>7, <1>8, <1>9 DEF RememberedAt
<1>11. PICK trained : trained = <<e, reached>> OBVIOUS
<1>12. Steps(trained) = NStep
  <2>1. PICK y : y = LastStep[e] - reached + 1 OBVIOUS
  <2>2. y \in Int /\ NStep <= y BY <1>5, <1>9, <1>10, <2>1
  <2>3. Min({NStep, y}) = IF NStep <= y THEN NStep ELSE y BY <1>5, <2>2, OfTwo
  <2> QED BY <1>11, <2>1, <2>2, <2>3 DEF Steps
<1>13. TrainedReturn(w, p) = Reference(trained).reward
  <2>1. TrainedReturn(w, p) = Discounted([k \in 1 .. NStep |-> WindowPosition(w, p + k - 1).reward])
    BY <1>7 DEF TrainedReturn
  <2>2. \A k \in 1 .. SequenceLength - 1 :
          WindowPosition(w, k).reward = Reward[<<t[1], PlaceAt(t[2], k)>>]
    <3>1. PositionFacts(w, t) BY <1>1, <1>3, <1>4, PositionIs
    <3> QED BY <3>1 DEF PositionFacts
  <2>3. ASSUME NEW k \in 1 .. NStep
        PROVE  WindowPosition(w, p + k - 1).reward = Reward[StepAfter(trained, k - 1)]
    <3>1. PICK j : j = p + k - 1 OBVIOUS
    <3>2. j \in 1 .. SequenceLength - 1 BY <1>5, <3>1
    <3>3. PlaceAt(t[2], j) = reached + (k - 1)
      BY <1>5, <1>8, <1>9, <3>1 DEF PlaceAt, RememberedAt
    <3>4. StepAfter(trained, k - 1) = <<t[1], reached + (k - 1)>> BY <1>9, <1>11 DEF StepAfter
    <3> QED BY <2>2, <3>1, <3>2, <3>3, <3>4
  <2>4. Reference(trained).reward
          = Discounted([k \in 1 .. NStep |-> Reward[StepAfter(trained, k - 1)]])
    BY <1>12 DEF Reference
  <2> QED BY <2>1, <2>3, <2>4
<1>14. TrainedDiscount(w, p) = Reference(trained).discount
  <2>1. ~Ends(StepAfter(trained, NStep - 1))
    <3>1. PICK u : u = StepAfter(trained, NStep - 1) OBVIOUS
    <3>2. u[1] = t[1] /\ u[2] = reached + (NStep - 1) BY <1>9, <1>11, <3>1 DEF StepAfter
    <3>3. reached + (NStep - 1) < LastStep[t[1]] BY <1>5, <1>10
    <3>4. reached + (NStep - 1) \in Int BY <1>5, <1>10
    <3> QED BY <1>5, <3>1, <3>2, <3>3, <3>4 DEF Ends
  <2>2. Reference(trained).discount = Gamma ^ NStep BY <1>12, <2>1 DEF Reference
  <2> QED BY <1>7, <2>2 DEF TrainedDiscount
<1>15. CurrentFeatures(w, p, burnIn) = DrivenFrom(e, StartOf(t[2]), reached)
  <2>1. EncodedWindow(w, burnIn)[p - burnIn]
          = DrivenFrom(t[1], StartOf(t[2]), t[2] - SequenceLength + p)
    BY <1>1, <1>2, <1>7, <1>8, FeaturesAre
  <2> QED BY <1>9, <2>1 DEF CurrentFeatures
<1>16. NextFeatures(w, p, burnIn) = DrivenFrom(e, StartOf(t[2]), reached + NStep)
  <2>1. EncodedWindow(w, burnIn)[q - burnIn]
          = DrivenFrom(t[1], StartOf(t[2]), t[2] - SequenceLength + q)
    BY <1>1, <1>2, <1>7, <1>10, FeaturesAre
  <2>2. NextFeatures(w, p, burnIn) = EncodedWindow(w, burnIn)[p + NStep - burnIn]
    BY <1>7 DEF NextFeatures
  <2>3. p + NStep - burnIn = q - burnIn BY <1>5, <1>6, <1>7
  <2> QED BY <1>9, <1>10, <2>1, <2>2, <2>3
<1> QED BY <1>1, <1>2, <1>7, <1>9, <1>11, <1>13, <1>14, <1>15, <1>16
        DEF TargetIsTrue, DrivenFrom, StartOf

\* Every trained value is trained toward the return of its own step.
LEMMA TargetsHold == StoreInv => TargetsAreTrue
<1> SUFFICES ASSUME StoreInv PROVE TargetsAreTrue OBVIOUS
<1>1. ASSUME NEW id \in DOMAIN stored, Eligible(id), NEW burnIn \in BurnIns,
             NEW p \in TrainingPositions(Window(id), burnIn)
      PROVE  TargetIsTrue(id, burnIn, p)
  <2>1. p \in InnerPositions(burnIn) \cup {SequenceLength} /\ PaddingMask(Window(id))[p]
    BY <1>1 DEF TrainingPositions
  <2>2. CASE p = SequenceLength BY <1>1, <2>2, LastTarget
  <2>3. CASE p \in InnerPositions(burnIn) BY <1>1, <2>1, <2>3, InnerTarget
  <2> QED BY <2>1, <2>2, <2>3
<1> QED BY <1>1 DEF TargetsAreTrue, TargetIsTrue

\* And so is what a value learner trains on.
THEOREM TargetsFollow == SequenceSpec => []TargetsAreTrue
<1>1. SequenceSpec => []SamplerInv BY SamplerStarts, SamplerSteps, PTL DEF SequenceSpec
<1>2. SamplerInv => TargetsAreTrue BY TargetsHold DEF SamplerInv
<1> QED BY <1>1, <1>2, PTL

-----------------------------------------------------------------------------
(* The tree of priorities.                                                *)

\* What is assumed of the tree.
LEMMA TreeConstants ==
    Leaves \in Nat \ {0} /\ Bits \in Nat \ {0} /\ MaxWeight \in Nat /\ Leaves < Power[Bits]
  BY FenwickAssumption

\* Powers of two double.
LEMMA PowerIs ==
    /\ Power \in [0 .. Bits -> Nat \ {0}] /\ Power[0] = 1
    /\ \A k \in 1 .. Bits : Power[k] = 2 * Power[k - 1]
<1> DEFINE Body(h, m) == [k \in 0 .. m |-> IF k = 0 THEN 1 ELSE 2 * h[k - 1]]
           U == {m \in Nat : \E h : h = Body(h, m)}
<1>0. Bits \in Nat BY TreeConstants
<1>1. 0 \in U
  <2> DEFINE h == [k \in 0 .. 0 |-> 1]
  <2>1. h = Body(h, 0) OBVIOUS
  <2> HIDE DEF h
  <2> QED BY <2>1
<1>2. ASSUME NEW m \in Nat, m \in U PROVE m + 1 \in U
  <2>1. PICK h : h = Body(h, m) BY <1>2
  <2> DEFINE g == [k \in 0 .. m + 1 |-> IF k <= m THEN h[k] ELSE 2 * h[m]]
  <2>2. g = Body(g, m + 1)
    <3>1. ASSUME NEW k \in 0 .. m + 1
          PROVE g[k] = IF k = 0 THEN 1 ELSE 2 * g[k - 1]
      <4>1. CASE k <= m
        <5>1. h[k] = IF k = 0 THEN 1 ELSE 2 * h[k - 1] BY <2>1, <4>1
        <5> QED BY <4>1, <5>1
      <4>2. CASE k = m + 1 BY <4>2
      <4> QED BY <4>1, <4>2
    <3> QED BY <3>1
  <2> HIDE DEF g
  <2>3. \E h1 : h1 = Body(h1, m + 1) BY <2>2
  <2> HIDE DEF Body
  <2> QED BY <2>3
<1>3. Bits \in U
  <2> HIDE DEF U
  <2> QED BY <1>0, <1>1, <1>2, SetInduction
<1>4. Power = Body(Power, Bits) BY <1>3 DEF Power
<1>5. DOMAIN Power = 0 .. Bits BY <1>4
<1>6. Power[0] = 1 BY <1>0, <1>4
<1>7. \A k \in 1 .. Bits : Power[k] = 2 * Power[k - 1] BY <1>0, <1>4
<1> DEFINE V == {m \in Nat : m <= Bits => Power[m] \in Nat \ {0}}
<1>8. ASSUME NEW m \in Nat, m \in V PROVE m + 1 \in V
  <2>1. CASE m + 1 <= Bits
    <3>1. Power[m + 1] = 2 * Power[m] BY <1>0, <1>7, <2>1
    <3> QED BY <1>0, <1>8, <2>1, <3>1
  <2> QED BY <2>1
<1>9. Nat \subseteq V
  <2>1. 0 \in V BY <1>6
  <2> HIDE DEF V
  <2> QED BY <1>8, <2>1, SetInduction
<1>10. Power \in [0 .. Bits -> Nat \ {0}] BY <1>4, <1>5, <1>9
<1> QED BY <1>6, <1>7, <1>10

Powers == {Power[k] : k \in 0 .. Bits}

\* Of two powers of two the smaller divides the larger, and its double does if they differ.
LEMMA PowersDivide ==
    ASSUME NEW k \in 0 .. Bits, NEW l \in k .. Bits
    PROVE  /\ \E q \in Nat : Power[l] = Power[k] * q
           /\ k < l => \E q \in Nat : Power[l] = 2 * Power[k] * q
           /\ Power[k] <= Power[l] /\ (k < l => Power[k] < Power[l])
<1>0. Bits \in Nat BY TreeConstants
<1> DEFINE U == {d \in Nat : k + d <= Bits => \E q \in Nat \ {0} : Power[k + d] = Power[k] * q}
<1>1. 0 \in U
  <2>1. Power[k + 0] = Power[k] * 1 BY PowerIs, <1>0
  <2> QED BY <2>1
<1>2. ASSUME NEW d \in Nat, d \in U PROVE d + 1 \in U
  <2>1. CASE k + d + 1 <= Bits
    <3>1. PICK q \in Nat \ {0} : Power[k + d] = Power[k] * q BY <1>0, <1>2, <2>1
    <3>2. Power[k + (d + 1)] = 2 * Power[k + d]
      <4>1. k + d + 1 \in 1 .. Bits /\ k + d + 1 - 1 = k + d /\ k + (d + 1) = k + d + 1
        BY <1>0, <2>1
      <4> QED BY <4>1, PowerIs
    <3>3. Power[k + (d + 1)] = Power[k] * (2 * q) BY <3>1, <3>2, PowerIs
    <3>4. 2 * q \in Nat \ {0} OBVIOUS
    <3> QED BY <3>3, <3>4
  <2>2. CASE k + d + 1 > Bits
    <3>1. ~(k + (d + 1) <= Bits) BY <1>0, <2>2
    <3> QED BY <3>1
  <2> QED BY <1>0, <2>1, <2>2
<1>3. Nat \subseteq U
  <2> HIDE DEF U
  <2> QED BY <1>1, <1>2, SetInduction
<1>4. l - k \in U /\ k + (l - k) = l BY <1>0, <1>3
<1>5. PICK q \in Nat \ {0} : Power[l] = Power[k] * q BY <1>0, <1>4
<1>6. Power[k] \in Nat \ {0} /\ Power[l] \in Nat \ {0} BY <1>0, PowerIs
<1>7. Power[k] <= Power[l]
  <2>1. \A a, b \in Nat \ {0} : a <= a * b OBVIOUS
  <2> QED BY <1>5, <1>6, <2>1
<1>8. ASSUME k < l PROVE (\E p \in Nat : Power[l] = 2 * Power[k] * p) /\ Power[k] < Power[l]
  <2>1. l - 1 - k \in U /\ k + (l - 1 - k) = l - 1 /\ l - 1 \in 0 .. Bits BY <1>0, <1>3, <1>8
  <2>2. PICK p \in Nat \ {0} : Power[l - 1] = Power[k] * p BY <1>0, <2>1
  <2>3. Power[l] = 2 * Power[l - 1]
    <3>1. l \in 1 .. Bits BY <1>0, <1>8
    <3> QED BY <3>1, PowerIs
  <2>4. Power[l] = 2 * (Power[k] * p) BY <2>2, <2>3
  <2>5. \A a, b \in Nat : 2 * (a * b) = 2 * a * b OBVIOUS
  <2>6. \A a, b \in Nat \ {0} : a <= a * b OBVIOUS
  <2>7. Power[k] * p >= Power[k] BY <1>6, <2>6
  <2>8. Power[k] * p \in Nat BY <1>6
  <2>9. Power[k] < Power[l] BY <1>6, <2>4, <2>7, <2>8
  <2> QED BY <1>6, <2>4, <2>5, <2>9
<1> QED BY <1>5, <1>7, <1>8

\* The lowest bit of a number divides it an odd number of times.
LowOf(i, b) == b \in Powers /\ \E a \in Nat : i = 2 * b * a + b

\* Powers are positive.
LEMMA PowersAre == \A b \in Powers : b \in Nat \ {0}
  BY PowerIs DEF Powers

\* Doubling is all it takes to have a lowest bit.
LEMMA LowExists ==
    ASSUME NEW i \in Nat \ {0}, i < Power[Bits]
    PROVE  \E b \in Powers : LowOf(i, b)
<1>0. Bits \in Nat BY TreeConstants
<1> DEFINE U == {n \in Nat : n <= Bits =>
                   \A j \in Nat \ {0} : j < Power[n] =>
                     \E k \in 0 .. n - 1, a \in Nat : j = 2 * Power[k] * a + Power[k]}
<1>1. 0 \in U BY PowerIs
<1>2. ASSUME NEW n \in Nat, n \in U PROVE n + 1 \in U
  <2> SUFFICES ASSUME n + 1 <= Bits, NEW j \in Nat \ {0}, j < Power[n + 1]
               PROVE  \E k \in 0 .. n, a \in Nat : j = 2 * Power[k] * a + Power[k]
    OBVIOUS
  <2>1. Power[n + 1] = 2 * Power[n] /\ Power[n] \in Nat
    <3>1. n + 1 \in 1 .. Bits /\ n \in 0 .. Bits /\ n + 1 - 1 = n BY <1>0
    <3> QED BY <3>1, PowerIs
  <2>2. PICK h \in Nat : j = 2 * h \/ j = 2 * h + 1
    <3>1. j \div 2 \in Nat /\ (j = 2 * (j \div 2) \/ j = 2 * (j \div 2) + 1) OBVIOUS
    <3> QED BY <3>1
  <2>3. CASE j = 2 * h + 1
    <3>1. j = 2 * Power[0] * h + Power[0] BY <2>3, PowerIs
    <3> QED BY <3>1
  <2>4. CASE j = 2 * h
    <3>1. h \in Nat \ {0} /\ h < Power[n] BY <2>1, <2>4
    <3>2. PICK k \in 0 .. n - 1, a \in Nat : h = 2 * Power[k] * a + Power[k] BY <1>0, <1>2, <3>1
    <3>3. Power[k + 1] = 2 * Power[k] /\ Power[k] \in Nat
      <4>1. k + 1 \in 1 .. Bits /\ k \in 0 .. Bits /\ k + 1 - 1 = k BY <1>0
      <4> QED BY <4>1, PowerIs
    <3>4. \A p, b \in Nat : 2 * (2 * p * b + p) = 2 * (2 * p) * b + 2 * p OBVIOUS
    <3>5. j = 2 * Power[k + 1] * a + Power[k + 1] BY <2>4, <3>2, <3>3, <3>4
    <3>6. k + 1 \in 0 .. n OBVIOUS
    <3> QED BY <3>5, <3>6
  <2> QED BY <2>2, <2>3, <2>4
<1>3. Bits \in U
  <2> HIDE DEF U
  <2> QED BY <1>0, <1>1, <1>2, SetInduction
<1>4. PICK k \in 0 .. Bits - 1, a \in Nat : i = 2 * Power[k] * a + Power[k] BY <1>0, <1>3
<1>5. Power[k] \in Powers BY <1>0 DEF Powers
<1> QED BY <1>4, <1>5 DEF LowOf

\* Division with remainder.
LEMMA Division ==
    ASSUME NEW i \in Nat, NEW m \in Nat \ {0}
    PROVE  i \div m \in Nat /\ i % m \in 0 .. m - 1 /\ i = m * (i \div m) + (i % m)
<1> DEFINE p == i \div m
           r == i % m
<1>1. p \in Int /\ r \in 0 .. m - 1 /\ i = p * m + r OBVIOUS
<1> HIDE DEF p, r
<1>2. ASSUME p < 0 PROVE FALSE
  <2>1. p * m <= -m BY <1>1, <1>2
  <2> QED BY <1>1, <2>1
<1>3. p \in Nat /\ r \in 0 .. m - 1 /\ i = m * p + r
  <2>1. p \in Nat BY <1>1, <1>2
  <2>2. p * m = m * p BY <1>1
  <2> QED BY <1>1, <2>1, <2>2
<1> QED BY <1>3 DEF p, r

\* A remainder of one half says the same.
LEMMA LowIs ==
    ASSUME NEW i \in Nat, NEW b \in Powers
    PROVE  i % (2 * b) = b <=> LowOf(i, b)
<1> DEFINE m == 2 * b
<1>1. b \in Nat \ {0} BY PowersAre
<1>2. m \in Nat \ {0} /\ b < m BY <1>1
<1>3. LowOf(i, b) <=> \E a \in Nat : i = m * a + b BY DEF LowOf
<1> HIDE DEF m
<1>4. i \div m \in Nat /\ i % m \in 0 .. m - 1 /\ i = m * (i \div m) + (i % m)
  BY <1>2, Division
<1>5. ASSUME i % m = b PROVE LowOf(i, b)
  <2>1. i = m * (i \div m) + b /\ i \div m \in Nat BY <1>4, <1>5
  <2>2. \E a \in Nat : i = m * a + b BY <2>1
  <2> QED BY <1>3, <2>2
<1>6. ASSUME LowOf(i, b) PROVE i % m = b
  <2>1. PICK a \in Nat : i = m * a + b BY <1>3, <1>6
  <2>2. m * (a - i \div m) = (i % m) - b BY <1>1, <1>2, <1>4, <2>1
  <2>3. -m < (i % m) - b /\ (i % m) - b < m BY <1>1, <1>2, <1>4
  <2>4. \A d \in Int : -m < m * d /\ m * d < m => d = 0 BY <1>2
  <2>5. a - i \div m = 0 BY <1>4, <2>2, <2>3, <2>4
  <2> QED BY <1>1, <1>2, <1>4, <2>2, <2>5
<1>7. i % m = b <=> LowOf(i, b) BY <1>5, <1>6
<1> QED BY <1>7 DEF m

\* Two lowest bits of one number would differ in how often they divide it.
LEMMA LowUnique ==
    ASSUME NEW i \in Nat, NEW b, NEW c, LowOf(i, b), LowOf(i, c)
    PROVE  b = c
<1>1. ASSUME NEW k \in 0 .. Bits, NEW l \in k .. Bits, k < l, LowOf(i, Power[k]), LowOf(i, Power[l])
      PROVE  FALSE
  <2>0. Bits \in Nat /\ Power[k] \in Nat \ {0} /\ Power[l] \in Nat BY TreeConstants, PowerIs
  <2>1. PICK q \in Nat : Power[l] = 2 * Power[k] * q BY <1>1, PowersDivide
  <2>2. PICK a \in Nat : i = 2 * Power[k] * a + Power[k] BY <1>1 DEF LowOf
  <2>3. PICK d \in Nat : i = 2 * Power[l] * d + Power[l] BY <1>1 DEF LowOf
  <2> DEFINE p == Power[k]
  <2>4. p \in Nat \ {0} BY <2>0
  <2>5. i = 2 * (2 * p * q) * d + 2 * p * q BY <2>1, <2>3
  <2>6. i = 2 * p * a + p BY <2>2
  <2> HIDE DEF p
  <2>8. p * (2 * (2 * q * d + q) - 2 * a) = p
    <3>1. 2 * (2 * p * q) * d + 2 * p * q = p * (2 * (2 * q * d + q)) BY <2>4
    <3>2. 2 * p * a = p * (2 * a) BY <2>4
    <3>3. 2 * q * d + q \in Int /\ 2 * q * d \in Int OBVIOUS
    <3> DEFINE u == 2 * (2 * q * d + q)
    <3>4. u \in Int BY <3>3
    <3>5. p * u = p * (2 * a) + p BY <2>5, <2>6, <3>1, <3>2
    <3> HIDE DEF u
    <3>6. \A x, y \in Int : p * (x - y) = p * x - p * y BY <2>4
    <3>7. 2 * a \in Int /\ p * (2 * a) \in Int BY <2>4
    <3>8. p * (u - 2 * a) = p BY <2>4, <3>4, <3>5, <3>6, <3>7
    <3> QED BY <3>8 DEF u
  <2>9. 2 * (2 * q * d + q) - 2 * a = 1
    <3>1. \A x \in Int : p * x = p => x = 1 BY <2>4
    <3>2. q * d \in Nat OBVIOUS
    <3> QED BY <2>8, <3>1, <3>2
  <2>10. 2 * q * d + q \in Int OBVIOUS
  <2> QED BY <2>9, <2>10
<1>2. PICK k \in 0 .. Bits : b = Power[k] BY DEF LowOf, Powers
<1>3. PICK l \in 0 .. Bits : c = Power[l] BY DEF LowOf, Powers
<1>4. k < l \/ l < k \/ k = l BY TreeConstants
<1>5. k < l => l \in k .. Bits BY TreeConstants
<1>6. l < k => k \in l .. Bits BY TreeConstants
<1> QED BY <1>1, <1>2, <1>3, <1>4, <1>5, <1>6

\* What LowBit returns, and that nothing else is one.
LEMMA LowBitIs ==
    ASSUME NEW i \in 1 .. Leaves
    PROVE  /\ LowOf(i, LowBit(i)) /\ LowBit(i) \in Nat \ {0} /\ LowBit(i) <= i
           /\ \A b : LowOf(i, b) => b = LowBit(i)
<1>1. i \in Nat \ {0} /\ i < Power[Bits]
  <2>1. Power[Bits] \in Nat BY TreeConstants, PowerIs
  <2> QED BY <2>1, TreeConstants
<1>2. PICK b \in Powers : LowOf(i, b) BY <1>1, LowExists
<1>3. i % (2 * b) = b BY <1>1, <1>2, LowIs
<1>4. LowBit(i) \in Powers /\ i % (2 * LowBit(i)) = LowBit(i) BY <1>3 DEF LowBit, Powers
<1>5. LowOf(i, LowBit(i)) BY <1>1, <1>4, LowIs
<1>6. LowBit(i) \in Nat \ {0} BY <1>4, PowersAre
<1>7. LowBit(i) <= i
  <2>1. PICK a \in Nat : i = 2 * LowBit(i) * a + LowBit(i) BY <1>5 DEF LowOf
  <2> DEFINE l == LowBit(i)
  <2>2. l \in Nat BY <1>6
  <2> HIDE DEF l
  <2>3. 2 * l * a \in Nat BY <2>2
  <2> QED BY <2>1, <2>2, <2>3 DEF l
<1>8. \A c : LowOf(i, c) => c = LowBit(i) BY <1>1, <1>5, LowUnique
<1> QED BY <1>5, <1>6, <1>7, <1>8

\* Products are ordered as their factors are.
LEMMA Ordered ==
    ASSUME NEW m \in Nat \ {0}, NEW x \in Int, NEW y \in Int
    PROVE  m * x < m * y <=> x < y
<1>1. ASSUME x < y PROVE m * x < m * y
  <2>1. m * (y - x) >= m BY <1>1
  <2>2. m * (y - x) = m * y - m * x OBVIOUS
  <2> QED BY <2>1, <2>2
<1>2. ASSUME y <= x PROVE m * y <= m * x
  <2>1. m * (x - y) >= 0 BY <1>2
  <2>2. m * (x - y) = m * x - m * y OBVIOUS
  <2> QED BY <2>1, <2>2
<1>3. m * x \in Int /\ m * y \in Int OBVIOUS
<1> QED BY <1>1, <1>2, <1>3

\* Of two lowest bits the larger is a multiple of the smaller, and of its double.
LEMMA PowersCompare ==
    ASSUME NEW b \in Powers, NEW c \in Powers
    PROVE  (b < c /\ \E q \in Nat : c = 2 * b * q) \/ (c <= b /\ \E q \in Nat : b = c * q)
<1>1. PICK k \in 0 .. Bits : b = Power[k] BY DEF Powers
<1>2. PICK l \in 0 .. Bits : c = Power[l] BY DEF Powers
<1>3. CASE k < l
  <2>1. l \in k .. Bits BY <1>3, TreeConstants
  <2> QED BY <1>1, <1>2, <1>3, <2>1, PowersDivide
<1>4. CASE l <= k
  <2>1. k \in l .. Bits BY <1>4, TreeConstants
  <2> QED BY <1>1, <1>2, <2>1, PowersDivide
<1> QED BY <1>3, <1>4, TreeConstants

\* The leaves of two nodes are disjoint or nested: a later node reaches back below node j just if
\* it reaches back below the next node on the way up from j.
LEMMA Nests ==
    ASSUME NEW j \in 1 .. Leaves, NEW i \in 1 .. Leaves, j < i
    PROVE  i - LowBit(i) < j <=> (i - LowBit(i) < j + LowBit(j) /\ j + LowBit(j) <= i)
<1> DEFINE b == LowBit(j)
           c == LowBit(i)
<1>1. LowOf(j, b) /\ LowOf(i, c) /\ b \in Nat \ {0} /\ c \in Nat \ {0} BY LowBitIs
<1>2. j \in Nat /\ i \in Nat /\ j < i BY TreeConstants
<1> HIDE DEF b, c
<1>3. PICK a \in Nat : j = 2 * b * a + b BY <1>1 DEF LowOf
<1>4. PICK d \in Nat : i = 2 * c * d + c BY <1>1 DEF LowOf
<1>5. b \in Powers /\ c \in Powers BY <1>1 DEF LowOf
<1>6. CASE b < c /\ \E q \in Nat : c = 2 * b * q
  <2>1. PICK q \in Nat : c = 2 * b * q BY <1>6
  <2> DEFINE m == 2 * b
             X == 2 * (q * d) + q
             Y == 2 * (q * d)
  <2>2. m \in Nat \ {0} /\ b < m /\ m = b + b BY <1>1
  <2>3. q * d \in Nat /\ X \in Nat /\ Y \in Nat OBVIOUS
  <2>4. c = m * q BY <2>1
  <2>5. j = m * a + b BY <1>3
  <2>6. i = 2 * (c * d) + c BY <1>1, <1>4
  <2> HIDE DEF m
  <2>7. c * d = m * (q * d) BY <2>2, <2>4
  <2>8. i = m * X /\ i - c = m * Y BY <2>2, <2>3, <2>4, <2>6, <2>7
  <2>9. j + b = m * (a + 1) BY <1>1, <2>2, <2>5
  <2> HIDE DEF X, Y
  <2>10. m * a \in Int /\ m * X \in Int /\ m * Y \in Int /\ m * (a + 1) \in Int
    BY <2>2, <2>3
  <2>11. ASSUME i - c < j PROVE i - c < j + b /\ j + b <= i
    <3>1. m * a < m * X BY <1>1, <1>2, <2>5, <2>8, <2>10
    <3>2. a < X BY <2>2, <2>3, <3>1, Ordered
    <3>3. ~(X < a + 1) BY <2>3, <3>2
    <3>4. ~(m * X < m * (a + 1)) BY <2>2, <2>3, <3>3, Ordered
    <3> QED BY <1>1, <1>2, <2>8, <2>9, <2>10, <2>11, <3>4
  <2>12. ASSUME i - c < j + b PROVE i - c < j
    <3>1. m * Y < m * (a + 1) BY <2>8, <2>9, <2>12
    <3>2. Y < a + 1 BY <2>2, <2>3, <3>1, Ordered
    <3>3. ~(a < Y) BY <2>3, <3>2
    <3>4. ~(m * a < m * Y) BY <2>2, <2>3, <3>3, Ordered
    <3> QED BY <1>1, <1>2, <2>5, <2>8, <2>10, <3>4
  <2> QED BY <2>11, <2>12 DEF b, c
<1>7. CASE c <= b /\ \E q \in Nat : b = c * q
  <2>1. PICK q \in Nat : b = c * q BY <1>7
  <2> DEFINE Z == 2 * (q * a) + q
             W == 2 * (q * a) + 2 * q
  <2>2. q * a \in Nat /\ Z \in Nat /\ W \in Nat OBVIOUS
  <2>3. b * a = c * (q * a) BY <1>1, <2>1
  <2>4. j = 2 * (b * a) + b BY <1>1, <1>3
  <2>5. j = c * Z /\ j + b = c * W BY <1>1, <2>1, <2>2, <2>3, <2>4
  <2>6. i = c * (2 * d + 1) /\ i - c = c * (2 * d) BY <1>1, <1>4
  <2>7. W # 2 * d + 1
    <3>1. W = 2 * (q * a + q) OBVIOUS
    <3> QED BY <2>2, <3>1
  <2>8. ASSUME i - c < j PROVE FALSE
    <3>1. c * (2 * d) < c * Z /\ c * Z < c * (2 * d + 1) BY <1>2, <2>5, <2>6, <2>8
    <3> HIDE DEF Z
    <3>2. 2 * d < Z BY <1>1, <2>2, <3>1, Ordered
    <3>3. Z < 2 * d + 1 BY <1>1, <2>2, <3>1, Ordered
    <3> QED BY <2>2, <3>2, <3>3
  <2>9. ASSUME i - c < j + b, j + b <= i PROVE FALSE
    <3>1. c * (2 * d) < c * W BY <2>5, <2>6, <2>9
    <3>2. ~(c * (2 * d + 1) < c * W)
      <4>1. c * W <= c * (2 * d + 1) BY <2>5, <2>6, <2>9
      <4>2. c * W \in Int /\ c * (2 * d + 1) \in Int BY <1>1, <2>2
      <4> QED BY <4>1, <4>2
    <3> HIDE DEF W
    <3>3. 2 * d < W BY <1>1, <2>2, <3>1, Ordered
    <3>4. ~(2 * d + 1 < W) BY <1>1, <2>2, <3>2, Ordered
    <3> QED BY <2>2, <2>7, <3>3, <3>4
  <2> QED BY <2>8, <2>9 DEF b, c
<1> QED BY <1>5, <1>6, <1>7, PowersCompare

\* The walk up is defined by its next node.
LEMMA ClimbIs ==
    \A i \in 1 .. 2 * Leaves :
        Climb[i] = IF i > Leaves THEN {} ELSE {i} \cup Climb[i + LowBit(i)]
<1> DEFINE N == 2 * Leaves
           Body(h, m) == [i \in N - m + 1 .. N |->
                            IF i > Leaves THEN {} ELSE {i} \cup h[i + LowBit(i)]]
           U == {m \in Nat : m <= N => \E h : h = Body(h, m)}
<1>0. Leaves \in Nat \ {0} /\ N \in Nat BY TreeConstants
<1>1. 0 \in U
  <2> DEFINE h == [i \in N - 0 + 1 .. N |-> {}]
  <2>1. h = Body(h, 0) BY <1>0
  <2> HIDE DEF h
  <2>2. \E h1 : h1 = Body(h1, 0) BY <2>1
  <2> HIDE DEF Body
  <2> QED BY <2>2
<1>2. ASSUME NEW m \in Nat, m \in U PROVE m + 1 \in U
  <2> SUFFICES ASSUME m + 1 <= N PROVE \E h : h = Body(h, m + 1)
    <3> HIDE DEF Body
    <3> QED OBVIOUS
  <2>1. PICK h : h = Body(h, m) BY <1>0, <1>2
  <2>4. \A i \in N - m + 1 .. N : h[i] = IF i > Leaves THEN {} ELSE {i} \cup h[i + LowBit(i)]
    BY <2>1
  <2> DEFINE l == N - m
             g == [i \in N - (m + 1) + 1 .. N |->
                     IF i = l THEN (IF l > Leaves THEN {} ELSE {l} \cup h[l + LowBit(l)])
                     ELSE h[i]]
  <2>2. ASSUME NEW i \in N - (m + 1) + 1 .. N
        PROVE  g[i] = IF i > Leaves THEN {} ELSE {i} \cup g[i + LowBit(i)]
    <3>1. CASE i > Leaves
      <4>1. i # l => h[i] = {} BY <1>0, <2>1, <3>1
      <4> QED BY <3>1, <4>1
    <3>2. CASE i <= Leaves
      <4>1. i \in 1 .. Leaves BY <1>0, <3>2
      <4>2. LowBit(i) \in Nat \ {0} /\ LowBit(i) <= i BY <4>1, LowBitIs
      <4>3. i + LowBit(i) \in i + 1 .. N BY <1>0, <3>2, <4>1, <4>2
      <4>4. i + LowBit(i) # l /\ i + LowBit(i) \in N - m + 1 .. N BY <1>0, <4>3
      <4>5. g[i + LowBit(i)] = h[i + LowBit(i)] BY <1>0, <4>4
      <4>6. CASE i # l
        <5>1. i \in N - m + 1 .. N /\ ~(i > Leaves) BY <1>0, <3>2, <4>6
        <5>2. h[i] = {i} \cup h[i + LowBit(i)] BY <2>4, <5>1
        <5>3. g[i] = h[i] BY <4>6
        <5> QED BY <3>2, <4>5, <5>1, <5>2, <5>3
      <4>7. CASE i = l
        <5>1. g[i] = {l} \cup h[l + LowBit(l)] BY <1>0, <3>2, <4>7
        <5>2. g[i + LowBit(i)] = h[l + LowBit(l)] BY <4>5, <4>7
        <5>3. ~(i > Leaves) BY <1>0, <3>2
        <5> HIDE DEF g, l
        <5> QED BY <4>7, <5>1, <5>2, <5>3
      <4> QED BY <4>6, <4>7
    <3> QED BY <1>0, <3>1, <3>2
  <2>3. g = Body(g, m + 1) BY <2>2
  <2> HIDE DEF g
  <2> QED BY <2>3
<1>3. N \in U
  <2> HIDE DEF U, N
  <2> QED BY <1>0, <1>1, <1>2, SetInduction
<1>4. \E h : h = Body(h, N)
  <2> HIDE DEF Body, N
  <2> QED BY <1>3, <1>0
<1>5. N - N + 1 = 1 BY <1>0
<1> DEFINE Full(h) == [i \in 1 .. N |-> IF i > Leaves THEN {} ELSE {i} \cup h[i + LowBit(i)]]
<1>6. \E h : h = Full(h) BY <1>4, <1>5
<1>7. Climb = Full(Climb) BY <1>6 DEF Climb
<1> QED BY <1>7

\* The walk up from a node meets the nodes that sum it up.
LEMMA ClimbMeets ==
    ASSUME NEW j \in 1 .. Leaves
    PROVE  Climb[j] = {i \in 1 .. Leaves : i - LowBit(i) < j /\ j <= i}
<1> DEFINE N == 2 * Leaves
           Above(l) == {i \in 1 .. Leaves : i - LowBit(i) < l /\ l <= i}
           U == {m \in Nat : \A l \in 1 .. N : N - m <= l => Climb[l] = Above(l)}
<1>0. Leaves \in Nat \ {0} /\ N \in Nat BY TreeConstants
<1>1. 0 \in U
  <2> SUFFICES ASSUME NEW l \in 1 .. N, N <= l PROVE Climb[l] = Above(l) BY <1>0
  <2>1. l > Leaves BY <1>0
  <2>2. Climb[l] = {} BY <2>1, ClimbIs
  <2> QED BY <1>0, <2>1, <2>2
<1>2. ASSUME NEW m \in Nat, m \in U PROVE m + 1 \in U
  <2> SUFFICES ASSUME NEW l \in 1 .. N, N - (m + 1) <= l PROVE Climb[l] = Above(l) OBVIOUS
  <2>1. CASE l > Leaves
    <3>1. Climb[l] = {} BY <2>1, ClimbIs
    <3> QED BY <1>0, <2>1, <3>1
  <2>2. CASE l <= Leaves
    <3>1. l \in 1 .. Leaves BY <1>0, <2>2
    <3>2. LowBit(l) \in Nat \ {0} /\ LowBit(l) <= l BY <3>1, LowBitIs
    <3>3. l + LowBit(l) \in 1 .. N /\ N - m <= l + LowBit(l) BY <1>0, <3>1, <3>2
    <3>4. Climb[l + LowBit(l)] = Above(l + LowBit(l)) BY <1>2, <3>3
    <3>5. Climb[l] = {l} \cup Above(l + LowBit(l))
      <4>1. ~(l > Leaves) BY <1>0, <2>2
      <4>2. Climb[l] = {l} \cup Climb[l + LowBit(l)] BY <4>1, ClimbIs
      <4> HIDE DEF Above
      <4> QED BY <3>4, <4>2
    <3>6. l \in Above(l) BY <1>0, <3>1, <3>2
    <3>7. ASSUME NEW i \in 1 .. Leaves, i # l
          PROVE  i \in Above(l) <=> i \in Above(l + LowBit(l))
      <4>1. LowBit(i) \in Nat \ {0} BY LowBitIs
      <4>2. l < i \/ i < l BY <1>0, <3>1, <3>7
      <4>3. CASE l < i
        <5>1. i - LowBit(i) < l <=> (i - LowBit(i) < l + LowBit(l) /\ l + LowBit(l) <= i)
          BY <3>1, <4>3, Nests
        <5> QED BY <1>0, <3>1, <4>3, <5>1
      <4>4. CASE i < l BY <1>0, <3>1, <3>2, <4>4
      <4> QED BY <4>2, <4>3, <4>4
    <3>8. Above(l) \subseteq 1 .. Leaves /\ Above(l + LowBit(l)) \subseteq 1 .. Leaves OBVIOUS
    <3> HIDE DEF Above
    <3> QED BY <3>1, <3>5, <3>6, <3>7, <3>8
  <2> QED BY <1>0, <2>1, <2>2
<1>3. N \in U
  <2> HIDE DEF U, N
  <2> QED BY <1>0, <1>1, <1>2, SetInduction
<1>4. j \in 1 .. N /\ N - N <= j BY <1>0
<1> QED BY <1>3, <1>4

\* The walk down is defined by its next node.
LEMMA DescendIs ==
    \A i \in 0 .. Leaves :
        Descend[i] = IF i = 0 THEN {} ELSE {i} \cup Descend[i - LowBit(i)]
<1> DEFINE Body(h, m) == [i \in 0 .. m |-> IF i = 0 THEN {} ELSE {i} \cup h[i - LowBit(i)]]
           U == {m \in Nat : m <= Leaves => \E h : h = Body(h, m)}
<1>0. Leaves \in Nat \ {0} BY TreeConstants
<1>1. 0 \in U
  <2> DEFINE h == [i \in 0 .. 0 |-> {}]
  <2>1. h = Body(h, 0) OBVIOUS
  <2> HIDE DEF h
  <2>2. \E h1 : h1 = Body(h1, 0) BY <2>1
  <2> HIDE DEF Body
  <2> QED BY <2>2
<1>2. ASSUME NEW m \in Nat, m \in U PROVE m + 1 \in U
  <2> SUFFICES ASSUME m + 1 <= Leaves PROVE \E h : h = Body(h, m + 1)
    <3> HIDE DEF Body
    <3> QED OBVIOUS
  <2>1. PICK h : h = Body(h, m) BY <1>0, <1>2
  <2>4. \A i \in 0 .. m : h[i] = IF i = 0 THEN {} ELSE {i} \cup h[i - LowBit(i)] BY <2>1
  <2> DEFINE l == m + 1
             g == [i \in 0 .. m + 1 |-> IF i = l THEN {l} \cup h[l - LowBit(l)] ELSE h[i]]
  <2>2. ASSUME NEW i \in 0 .. m + 1
        PROVE  g[i] = IF i = 0 THEN {} ELSE {i} \cup g[i - LowBit(i)]
    <3>1. CASE i = 0
      <4>1. i # l /\ h[i] = {} BY <2>1, <3>1
      <4> QED BY <3>1, <4>1
    <3>2. CASE i # 0
      <4>1. i \in 1 .. Leaves BY <1>0, <3>2
      <4>2. LowBit(i) \in Nat \ {0} /\ LowBit(i) <= i BY <4>1, LowBitIs
      <4>3. i - LowBit(i) \in 0 .. m /\ i - LowBit(i) # l BY <4>2
      <4>4. g[i - LowBit(i)] = h[i - LowBit(i)] BY <4>3
      <4>5. i # l => h[i] = {i} \cup h[i - LowBit(i)]
        <5>1. i # l => i \in 0 .. m OBVIOUS
        <5> QED BY <2>4, <3>2, <5>1
      <4>6. i = l => g[i] = {l} \cup h[l - LowBit(l)] OBVIOUS
      <4> HIDE DEF l
      <4> QED BY <3>2, <4>4, <4>5, <4>6
    <3> QED BY <3>1, <3>2
  <2>3. g = Body(g, m + 1) BY <2>2
  <2> HIDE DEF g
  <2> QED BY <2>3
<1>3. Leaves \in U
  <2> HIDE DEF U
  <2> QED BY <1>0, <1>1, <1>2, SetInduction
<1>4. \E h : h = Body(h, Leaves) BY <1>0, <1>3
<1>5. Descend = Body(Descend, Leaves) BY <1>4 DEF Descend
<1> QED BY <1>5

-----------------------------------------------------------------------------
\* A node holds the sum of its leaves.
TreeInv ==
    /\ leaves \in [0 .. Leaves - 1 -> Nat]
    /\ nodes \in [1 .. Leaves -> Int]
    /\ \A i \in 1 .. Leaves : nodes[i] = SumBelow(i) - SumBelow(i - LowBit(i))

\* Sums of leaves are naturals, and each leaf adds its weight.
LEMMA SumsBelow ==
    ASSUME leaves \in [0 .. Leaves - 1 -> Nat], NEW i \in 0 .. Leaves
    PROVE  SumBelow(i) \in Nat /\ SumBelow(0) = 0
<1>1. Leaves \in Nat \ {0} BY TreeConstants
<1>2. IsFiniteSet(0 .. i - 1) BY <1>1, FS_Interval
<1>3. \A y \in 0 .. i - 1 : leaves[y] \in Nat BY <1>1
<1>4. SumBelow(i) \in Nat BY <1>2, <1>3, SumNat DEF SumBelow
<1>5. 0 .. 0 - 1 = {} OBVIOUS
<1>6. SumBelow(0) = 0 BY <1>5, SumEmpty DEF SumBelow
<1> QED BY <1>4, <1>6

\* An empty tree sums up nothing.
LEMMA TreeStarts == FenwickInit => TreeInv
<1> SUFFICES ASSUME FenwickInit PROVE TreeInv OBVIOUS
<1>0. Leaves \in Nat \ {0} BY TreeConstants
<1>1. leaves \in [0 .. Leaves - 1 -> Nat] /\ nodes \in [1 .. Leaves -> Int]
  BY DEF FenwickInit
<1>2. ASSUME NEW i \in 0 .. Leaves PROVE SumBelow(i) = 0
  <2>1. IsFiniteSet(0 .. i - 1) BY <1>0, FS_Interval
  <2>2. \A y \in 0 .. i - 1 : leaves[y] = 0 BY <1>0 DEF FenwickInit
  <2> QED BY <2>1, <2>2, SumZero DEF SumBelow
<1>3. ASSUME NEW i \in 1 .. Leaves
      PROVE  nodes[i] = SumBelow(i) - SumBelow(i - LowBit(i))
  <2>1. LowBit(i) \in Nat \ {0} /\ LowBit(i) <= i BY LowBitIs
  <2>2. i - LowBit(i) \in 0 .. Leaves /\ i \in 0 .. Leaves BY <1>0, <2>1
  <2>3. SumBelow(i) = 0 /\ SumBelow(i - LowBit(i)) = 0 BY <1>2, <2>2
  <2>4. nodes[i] = 0 BY DEF FenwickInit
  <2> QED BY <2>3, <2>4
<1> QED BY <1>1, <1>3 DEF TreeInv

\* A sum in which one summand has changed.
LEMMA SumChange ==
    ASSUME NEW f, NEW h, NEW S, NEW x, x \in S, IsFiniteSet(S), h[x] \in Int,
           \A y \in S : f[y] \in Int, \A y \in S \ {x} : h[y] = f[y]
    PROVE  SumFunctionOnSet(h, S) = SumFunctionOnSet(f, S) - f[x] + h[x]
<1>1. f[x] \in Int OBVIOUS
<1> DEFINE a == f[x]
           b == h[x]
<1>2. a \in Int /\ b \in Int /\ f[x] = a /\ h[x] = b BY <1>1
<1> HIDE DEF a, b
<1>3. SumFunctionOnSet(h, S) = SumFunctionOnSet(f, S) - a + b
  BY <1>2, SumUpdate
<1> QED BY <1>3 DEF a, b

\* Setting a leaf changes the sums above it by the difference, and the nodes on the way up.
LEMMA SetLeafKeeps ==
    ASSUME TreeInv, NEW leaf \in 0 .. Leaves - 1, NEW share \in Nat, SetLeaf(leaf, share)
    PROVE  TreeInv'
<1>0. Leaves \in Nat \ {0} BY TreeConstants
<1>1. /\ leaves \in [0 .. Leaves - 1 -> Nat] /\ nodes \in [1 .. Leaves -> Int]
      /\ \A i \in 1 .. Leaves : nodes[i] = SumBelow(i) - SumBelow(i - LowBit(i))
  BY DEF TreeInv
<1> DEFINE old == leaves[leaf]
<1>2. old \in Nat BY <1>1
<1>3. leaves' = [leaves EXCEPT ![leaf] = share] BY DEF SetLeaf
<1>4. leaves' \in [0 .. Leaves - 1 -> Nat] BY <1>1, <1>3
<1>5. leaf + 1 \in 1 .. Leaves BY <1>0
<1>6. \A i \in 1 .. Leaves : i \in Climb[leaf + 1] <=> (i - LowBit(i) <= leaf /\ leaf < i)
  <2> SUFFICES ASSUME NEW i \in 1 .. Leaves
               PROVE  i \in Climb[leaf + 1] <=> (i - LowBit(i) <= leaf /\ leaf < i)
    OBVIOUS
  <2>1. LowBit(i) \in Nat BY LowBitIs
  <2>2. i \in Climb[leaf + 1] <=> (i - LowBit(i) < leaf + 1 /\ leaf + 1 <= i)
    BY <1>5, ClimbMeets
  <2> QED BY <1>0, <2>1, <2>2
<1>7. ASSUME NEW i \in 0 .. Leaves
      PROVE  SumBelow(i)' = IF leaf < i THEN SumBelow(i) - old + share ELSE SumBelow(i)
  <2>1. IsFiniteSet(0 .. i - 1) BY <1>0, FS_Interval
  <2>2. \A y \in 0 .. i - 1 : leaves[y] \in Int BY <1>0, <1>1
  <2>3. \A y \in (0 .. i - 1) \ {leaf} : leaves'[y] = leaves[y] BY <1>0, <1>1, <1>3
  <2>4. leaves'[leaf] = share BY <1>1, <1>3
  <2>5. CASE leaf < i
    <3>1. leaf \in 0 .. i - 1 BY <1>0, <2>5
    <3>2. SumFunctionOnSet(leaves', 0 .. i - 1) = SumFunctionOnSet(leaves, 0 .. i - 1) - old + share
      <4>1. PICK f : f = leaves OBVIOUS
      <4>2. PICK h : h = leaves' OBVIOUS
      <4>3. PICK S : S = 0 .. i - 1 OBVIOUS
      <4>8. PICK x : x = leaf OBVIOUS
      <4>4. x \in S /\ IsFiniteSet(S) /\ h[x] \in Int
        BY <2>1, <2>4, <3>1, <4>2, <4>3, <4>8
      <4>5. \A y \in S : f[y] \in Int BY <2>2, <4>1, <4>3
      <4>6. \A y \in S \ {x} : h[y] = f[y] BY <2>3, <4>1, <4>2, <4>3, <4>8
      <4>7. SumFunctionOnSet(h, S) = SumFunctionOnSet(f, S) - f[x] + h[x]
        BY <4>4, <4>5, <4>6, SumChange
      <4> QED BY <2>4, <4>1, <4>2, <4>3, <4>7, <4>8
    <3> QED BY <2>5, <3>2 DEF SumBelow
  <2>6. CASE ~(leaf < i)
    <3>1. \A y \in 0 .. i - 1 : leaves[y] = leaves'[y] BY <1>0, <2>3, <2>6
    <3>2. SumFunctionOnSet(leaves, 0 .. i - 1) = SumFunctionOnSet(leaves', 0 .. i - 1)
      BY <2>1, <3>1, SumSame
    <3> QED BY <2>6, <3>2 DEF SumBelow
  <2> QED BY <2>5, <2>6
<1>8. ASSUME NEW i \in 1 .. Leaves
      PROVE  nodes'[i] \in Int /\ nodes'[i] = SumBelow(i)' - SumBelow(i - LowBit(i))'
  <2>1. LowBit(i) \in Nat \ {0} /\ LowBit(i) <= i BY LowBitIs
  <2>2. i - LowBit(i) \in 0 .. Leaves /\ i \in 0 .. Leaves BY <1>0, <2>1
  <2>3. SumBelow(i) \in Nat /\ SumBelow(i - LowBit(i)) \in Nat BY <1>1, <2>2, SumsBelow
  <2>4. nodes[i] = SumBelow(i) - SumBelow(i - LowBit(i)) BY <1>1
  <2>5. nodes'[i] = IF i - LowBit(i) <= leaf /\ leaf < i THEN nodes[i] + share - old ELSE nodes[i]
    BY <1>6 DEF SetLeaf
  <2>6. SumBelow(i)' = IF leaf < i THEN SumBelow(i) - old + share ELSE SumBelow(i)
    BY <1>7, <2>2
  <2>7. SumBelow(i - LowBit(i))' = IF leaf < i - LowBit(i)
                                     THEN SumBelow(i - LowBit(i)) - old + share
                                   ELSE SumBelow(i - LowBit(i))
    BY <1>7, <2>2
  <2> DEFINE d == i - LowBit(i)
             A == SumBelow(i)
             B == SumBelow(d)
  <2>8. d \in Nat /\ d < i /\ i \in Nat BY <2>1
  <2> HIDE DEF d, A, B, old
  <2>9. A \in Nat /\ B \in Nat /\ nodes[i] = A - B
        /\ nodes'[i] = (IF d <= leaf /\ leaf < i THEN nodes[i] + share - old ELSE nodes[i])
        /\ SumBelow(i)' = (IF leaf < i THEN A - old + share ELSE A)
        /\ SumBelow(i - LowBit(i))' = (IF leaf < d THEN B - old + share ELSE B)
    BY <2>3, <2>4, <2>5, <2>6, <2>7 DEF d, A, B
  <2> QED BY <1>2, <2>8, <2>9
<1>9. nodes' \in [1 .. Leaves -> Int]
  <2>1. DOMAIN nodes' = 1 .. Leaves /\ nodes' = [i \in 1 .. Leaves |-> nodes'[i]] BY DEF SetLeaf
  <2> QED BY <1>8, <2>1
<1> QED BY <1>4, <1>8, <1>9 DEF TreeInv

\* The nodes hold the sums of their leaves, for any number of leaves and any weights.
THEOREM TreeInductive == FenwickSpec => []TreeInv
<1>1. TreeInv /\ [FenwickNext]_fenwickVars => TreeInv'
  <2> SUFFICES ASSUME TreeInv, [FenwickNext]_fenwickVars PROVE TreeInv' OBVIOUS
  <2>1. ASSUME NEW leaf \in 0 .. Leaves - 1, NEW share \in 0 .. MaxWeight, SetLeaf(leaf, share)
        PROVE  TreeInv'
    <3>1. share \in Nat BY TreeConstants
    <3> QED BY <2>1, <3>1, SetLeafKeeps
  <2>2. CASE UNCHANGED fenwickVars BY <2>2 DEF fenwickVars, TreeInv, SumBelow
  <2> QED BY <2>1, <2>2 DEF FenwickNext
<1> QED BY <1>1, TreeStarts, PTL DEF FenwickSpec

\* The walk down from a node meets the nodes of all leaves below it.
LEMMA TotalIs == TreeInv => Total = SumBelow(Leaves)
<1> SUFFICES ASSUME TreeInv PROVE Total = SumBelow(Leaves) OBVIOUS
<1>0. Leaves \in Nat \ {0} BY TreeConstants
<1>1. /\ leaves \in [0 .. Leaves - 1 -> Nat] /\ nodes \in [1 .. Leaves -> Int]
      /\ \A i \in 1 .. Leaves : nodes[i] = SumBelow(i) - SumBelow(i - LowBit(i))
  BY DEF TreeInv
<1> DEFINE Down(i) == /\ Descend[i] \subseteq 1 .. i /\ IsFiniteSet(Descend[i])
                      /\ SumFunctionOnSet(nodes, Descend[i]) = SumBelow(i)
           U == {m \in Nat : \A i \in 0 .. Leaves : i <= m => Down(i)}
<1>2. Down(0)
  <2>1. Descend[0] = {}
    <3>1. 0 \in 0 .. Leaves BY <1>0
    <3> QED BY <3>1, DescendIs
  <2>2. SumBelow(0) = 0 BY <1>0, <1>1, SumsBelow
  <2> QED BY <2>1, <2>2, SumEmpty, FS_EmptySet
<1>3. 0 \in U
  <2> HIDE DEF Down
  <2> QED BY <1>2
<1>4. ASSUME NEW m \in Nat, m \in U PROVE m + 1 \in U
  <2> SUFFICES ASSUME NEW i \in 0 .. Leaves, i = m + 1 PROVE Down(i)
    <3> HIDE DEF Down
    <3> QED BY <1>4
  <2>1. i \in 1 .. Leaves BY <1>0
  <2> DEFINE j == i - LowBit(i)
  <2>2. LowBit(i) \in Nat \ {0} /\ LowBit(i) <= i BY <2>1, LowBitIs
  <2>3. j \in 0 .. Leaves /\ j <= m /\ j < i BY <1>0, <2>1, <2>2
  <2> HIDE DEF j
  <2>4. Down(j) BY <1>4, <2>3
  <2>5. Descend[i] = Descend[j] \cup {i}
    <3>1. i \in 0 .. Leaves /\ i # 0 BY <1>0, <2>1
    <3>2. Descend[i] = {i} \cup Descend[i - LowBit(i)] BY <3>1, DescendIs
    <3> QED BY <3>2 DEF j
  <2>6. i \notin Descend[j] /\ Descend[i] \subseteq 1 .. i BY <2>1, <2>3, <2>4, <2>5
  <2>7. IsFiniteSet(Descend[i]) BY <2>4, <2>5, FS_AddElement
  <2>8. \A y \in Descend[j] \cup {i} : nodes[y] \in Int
    <3>1. \A y \in Descend[j] \cup {i} : y \in 1 .. Leaves BY <1>0, <2>1, <2>3, <2>4
    <3> QED BY <1>1, <3>1
  <2>9. SumFunctionOnSet(nodes, Descend[j] \cup {i})
         = nodes[i] + SumFunctionOnSet(nodes, Descend[j])
    BY <2>4, <2>6, <2>8, SumAdd
  <2>10. nodes[i] = SumBelow(i) - SumBelow(j) BY <1>1, <2>1 DEF j
  <2>11. SumBelow(i) \in Nat /\ SumBelow(j) \in Nat BY <1>1, <2>3, SumsBelow
  <2>12. SumFunctionOnSet(nodes, Descend[i]) = SumBelow(i) BY <2>4, <2>5, <2>9, <2>10, <2>11
  <2> QED BY <2>6, <2>7, <2>12
<1>5. Leaves \in U
  <2> HIDE DEF U
  <2> QED BY <1>0, <1>3, <1>4, SetInduction
<1> QED BY <1>0, <1>5 DEF Total

\* One step of the binary descent.
ProbeStep(seen, k) ==
    IF seen.at + Power[Bits - k] <= Leaves /\ nodes[seen.at + Power[Bits - k]] <= seen.left
      THEN [at |-> seen.at + Power[Bits - k], left |-> seen.left - nodes[seen.at + Power[Bits - k]]]
      ELSE seen

\* The descent exists and takes one step per bit.
LEMMA ProbeIs ==
    ASSUME NEW target \in Nat
    PROVE  \E h : /\ h[0] = [at |-> 0, left |-> target]
                  /\ \A k \in 1 .. Bits : h[k] = ProbeStep(h[k - 1], k)
                  /\ Probe(target) = h[Bits].at
<1> DEFINE Body(h, m) == [k \in 0 .. m |-> IF k = 0 THEN [at |-> 0, left |-> target]
                                           ELSE ProbeStep(h[k - 1], k)]
           U == {m \in Nat : \E h : h = Body(h, m)}
<1>0. Bits \in Nat BY TreeConstants
<1>1. 0 \in U
  <2> DEFINE h == [k \in 0 .. 0 |-> [at |-> 0, left |-> target]]
  <2>1. h = Body(h, 0) OBVIOUS
  <2> HIDE DEF h
  <2>2. \E h1 : h1 = Body(h1, 0) BY <2>1
  <2> HIDE DEF Body
  <2> QED BY <2>2
<1>2. ASSUME NEW m \in Nat, m \in U PROVE m + 1 \in U
  <2>1. PICK h : h = Body(h, m) BY <1>2
  <2>2. \A k \in 0 .. m : h[k] = IF k = 0 THEN [at |-> 0, left |-> target]
                                 ELSE ProbeStep(h[k - 1], k)
    BY <2>1
  <2> DEFINE g == [k \in 0 .. m + 1 |-> IF k <= m THEN h[k] ELSE ProbeStep(h[m], m + 1)]
  <2>3. ASSUME NEW k \in 0 .. m + 1
        PROVE g[k] = IF k = 0 THEN [at |-> 0, left |-> target] ELSE ProbeStep(g[k - 1], k)
    <3>1. CASE k <= m
      <4>1. k \in 0 .. m /\ g[k] = h[k] BY <3>1
      <4>2. k # 0 => g[k - 1] = h[k - 1] BY <3>1
      <4> HIDE DEF g
      <4> QED BY <2>2, <4>1, <4>2
    <3>2. CASE k = m + 1
      <4>1. g[k] = ProbeStep(h[m], m + 1) /\ g[k - 1] = h[m] /\ k # 0 BY <3>2
      <4> HIDE DEF g
      <4> QED BY <3>2, <4>1
    <3> QED BY <3>1, <3>2
  <2>4. g = Body(g, m + 1) BY <2>3
  <2> HIDE DEF g
  <2>5. \E h1 : h1 = Body(h1, m + 1) BY <2>4
  <2> HIDE DEF Body
  <2> QED BY <2>5
<1>3. Bits \in U
  <2> HIDE DEF U
  <2> QED BY <1>0, <1>1, <1>2, SetInduction
<1> DEFINE probe == CHOOSE h : h = Body(h, Bits)
<1>4. probe = Body(probe, Bits)
  <2>1. \E h : h = Body(h, Bits)
    <3> HIDE DEF Body
    <3> QED BY <1>3
  <2> HIDE DEF Body
  <2> QED BY <2>1
<1>5. Probe(target) = probe[Bits].at BY DEF Probe, ProbeStep
<1> HIDE DEF probe
<1>6. probe[0] = [at |-> 0, left |-> target] BY <1>0, <1>4
<1>7. \A k \in 1 .. Bits : probe[k] = ProbeStep(probe[k - 1], k) BY <1>0, <1>4
<1> QED BY <1>5, <1>6, <1>7

\* After k bits the descent stands on a multiple of the next ones: what is left of the target is
\* what lies above the leaves passed, and the target is below those of the next node of that size.
Narrowed(p, target, k) ==
    /\ p.at \in 0 .. Leaves /\ p.left = target - SumBelow(p.at)
    /\ \E a \in Nat : p.at = Power[Bits - k] * a
    /\ SumBelow(p.at) <= target
    /\ p.at + Power[Bits - k] <= Leaves => target < SumBelow(p.at + Power[Bits - k])

\* Every bit halves the leaves the target may fall on.
LEMMA ProbeNarrows ==
    ASSUME TreeInv, NEW target \in Nat, NEW k \in 1 .. Bits, NEW p, Narrowed(p, target, k - 1)
    PROVE  Narrowed(ProbeStep(p, k), target, k)
<1>0. Leaves \in Nat \ {0} /\ Bits \in Nat BY TreeConstants
<1>1. /\ leaves \in [0 .. Leaves - 1 -> Nat]
      /\ \A i \in 1 .. Leaves : nodes[i] = SumBelow(i) - SumBelow(i - LowBit(i))
  BY DEF TreeInv
<1> DEFINE b == Power[Bits - k]
           at == p.at
           next == at + b
<1>2. b \in Nat \ {0} /\ b \in Powers /\ Power[Bits - (k - 1)] = 2 * b
  <2>1. Bits - k \in 0 .. Bits /\ Bits - (k - 1) \in 1 .. Bits
        /\ Bits - (k - 1) - 1 = Bits - k
    BY <1>0
  <2> QED BY <2>1, PowerIs DEF Powers
<1>3. PICK a \in Nat : at = 2 * b * a BY <1>2 DEF Narrowed
<1>4. /\ at \in 0 .. Leaves /\ p.left = target - SumBelow(at) /\ SumBelow(at) <= target
      /\ at + 2 * b <= Leaves => target < SumBelow(at + 2 * b)
  BY <1>2 DEF Narrowed
<1>5. SumBelow(at) \in Nat BY <1>1, <1>4, SumsBelow
<1>6. next = b * (2 * a + 1) /\ at = b * (2 * a) BY <1>2, <1>3
<1>7. CASE next <= Leaves
  <2>1. next \in 1 .. Leaves BY <1>0, <1>2, <1>4, <1>7
  <2>2. LowOf(next, b) BY <1>2, <1>3 DEF LowOf
  <2>3. LowBit(next) = b BY <2>1, <2>2, LowBitIs
  <2>4. next - b = at BY <1>2, <1>4
  <2>5. nodes[next] = SumBelow(next) - SumBelow(at) BY <1>1, <2>1, <2>3, <2>4
  <2>6. next \in 0 .. Leaves BY <1>0, <2>1
  <2>7. SumBelow(next) \in Nat BY <1>1, <2>6, SumsBelow
  <2>8. CASE nodes[next] <= p.left
    <3> DEFINE q == [at |-> next, left |-> p.left - nodes[next]]
    <3>1. ProbeStep(p, k) = q BY <1>7, <2>8 DEF ProbeStep
    <3>2. q.at = next /\ q.left = p.left - nodes[next] OBVIOUS
    <3> HIDE DEF q, next, at
    <3>3. q.left = target - SumBelow(next) BY <1>4, <1>5, <2>5, <2>7, <3>2
    <3>4. SumBelow(next) <= target BY <1>4, <1>5, <2>5, <2>7, <2>8
    <3>5. next + b <= Leaves => target < SumBelow(next + b)
      <4>1. next + b = at + 2 * b BY <1>2, <1>4 DEF next
      <4> QED BY <1>4, <4>1
    <3>6. \E c \in Nat : next = b * c
      <4>1. 2 * a + 1 \in Nat OBVIOUS
      <4> QED BY <1>6, <4>1
    <3>7. Narrowed(q, target, k) BY <2>6, <3>2, <3>3, <3>4, <3>5, <3>6 DEF Narrowed
    <3> QED BY <3>1, <3>7
  <2>9. CASE ~(nodes[next] <= p.left)
    <3>1. ProbeStep(p, k) = p BY <2>9 DEF ProbeStep
    <3> HIDE DEF next
    <3>2. target < SumBelow(next) BY <1>4, <1>5, <2>5, <2>7, <2>9
    <3>3. \E c \in Nat : at = b * c
      <4>1. 2 * a \in Nat OBVIOUS
      <4> QED BY <1>6, <4>1
    <3>4. Narrowed(p, target, k) BY <1>4, <3>2, <3>3 DEF Narrowed, next
    <3> QED BY <3>1, <3>4
  <2> QED BY <2>8, <2>9
<1>8. CASE ~(next <= Leaves)
  <2>1. ProbeStep(p, k) = p BY <1>8 DEF ProbeStep
  <2>2. \E c \in Nat : at = b * c
    <3>1. 2 * a \in Nat OBVIOUS
    <3> QED BY <1>6, <3>1
  <2>3. Narrowed(p, target, k) BY <1>4, <1>8, <2>2 DEF Narrowed
  <2> QED BY <2>1, <2>3
<1> QED BY <1>7, <1>8

\* The descent ends on the leaf whose share the target hits.
LEMMA FindIs ==
    ASSUME TreeInv, NEW target \in 0 .. Total - 1
    PROVE  SumBelow(Find(target)) <= target /\ target < SumBelow(Find(target) + 1)
<1>0. Leaves \in Nat \ {0} /\ Bits \in Nat /\ Leaves < Power[Bits] BY TreeConstants
<1>1. leaves \in [0 .. Leaves - 1 -> Nat] BY DEF TreeInv
<1>2. Total = SumBelow(Leaves) /\ SumBelow(Leaves) \in Nat /\ SumBelow(0) = 0
  BY <1>0, <1>1, TotalIs, SumsBelow
<1>3. target \in Nat /\ target < SumBelow(Leaves) BY <1>2
<1>4. PICK h : /\ h[0] = [at |-> 0, left |-> target]
               /\ \A k \in 1 .. Bits : h[k] = ProbeStep(h[k - 1], k)
               /\ Probe(target) = h[Bits].at
  BY <1>3, ProbeIs
<1> DEFINE U == {k \in Nat : k <= Bits => Narrowed(h[k], target, k)}
<1>5. 0 \in U
  <2>1. Power[Bits] \in Nat /\ ~(0 + Power[Bits - 0] <= Leaves) /\ Bits - 0 = Bits
    BY <1>0, PowerIs
  <2>2. 0 = Power[Bits - 0] * 0 /\ 0 \in Nat BY <2>1
  <2>3. h[0].at = 0 /\ h[0].left = target BY <1>4
  <2>4. Narrowed(h[0], target, 0) BY <1>0, <1>2, <1>3, <2>1, <2>2, <2>3 DEF Narrowed
  <2> QED BY <2>4
<1>6. ASSUME NEW k \in Nat, k \in U PROVE k + 1 \in U
  <2> SUFFICES ASSUME k + 1 <= Bits PROVE Narrowed(h[k + 1], target, k + 1) OBVIOUS
  <2>1. k + 1 \in 1 .. Bits /\ k + 1 - 1 = k BY <1>0
  <2>2. Narrowed(h[k + 1 - 1], target, k + 1 - 1) BY <1>0, <1>6, <2>1
  <2>3. Narrowed(ProbeStep(h[k + 1 - 1], k + 1), target, k + 1)
    BY <1>3, <2>1, <2>2, ProbeNarrows
  <2> QED BY <1>4, <2>1, <2>3
<1>7. Bits \in U
  <2> HIDE DEF U
  <2> QED BY <1>0, <1>5, <1>6, SetInduction
<1> DEFINE at == Probe(target)
<1>8. Narrowed(h[Bits], target, Bits) BY <1>0, <1>7
<1>9. Power[Bits - Bits] = 1 BY <1>0, PowerIs
<1>10. /\ at \in 0 .. Leaves /\ SumBelow(at) <= target
       /\ at + 1 <= Leaves => target < SumBelow(at + 1)
  BY <1>4, <1>8, <1>9 DEF Narrowed
<1> HIDE DEF at
<1>11. at # Leaves
  <2> SUFFICES ASSUME at = Leaves PROVE FALSE OBVIOUS
  <2>1. SumBelow(Leaves) <= target BY <1>10
  <2> QED BY <1>2, <1>3, <2>1
<1>12. at < Leaves BY <1>0, <1>10, <1>11
<1>13. Find(target) = at BY <1>12 DEF Find, at
<1> QED BY <1>0, <1>10, <1>12, <1>13

\* Whatever the order in which weights were set, the tree's total is the sum of the leaves and a
\* target falls on the leaf whose share of the total it hits (core/replay/structures.py:8-45).
THEOREM WeightsFollowed == FenwickSpec => []DrawsFollowTheWeights
<1>1. TreeInv => DrawsFollowTheWeights
  BY TotalIs, FindIs DEF DrawsFollowTheWeights
<1> QED BY <1>1, TreeInductive, PTL

=============================================================================
