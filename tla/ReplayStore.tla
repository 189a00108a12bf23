----------------------------- MODULE ReplayStore -----------------------------
(* InMemoryReplayStore: a ring of Capacity transitions with ids that are never
   reused, linked into episodes.  The transition that falls out of the ring is
   forgotten, unless it is a demonstration: that one is appended again under a
   new id before the lock is released.

   A transition is an episode and a step; its observation is that pair, and its
   next observation is the following pair, or a value of its own when the
   episode is cut after it.  Of a lap time that a transition is drawn by, its
   pace, only the class is kept.  Rewards and actions are left out.         *)
EXTENDS Integers, FiniteSets, Sequences

CONSTANTS Episode,     \* the episode ids
          LastStep,    \* [Episode -> Nat]: the step at which each episode ends
          Demo,        \* the transitions that are demonstrations
          Cut,         \* transitions not followed by the observation they announce
          Capacity,    \* the slots of the ring
          ChangesKept  \* length of the change log: min(capacity, 65536)

NoId == -1
Label == {"slow", "fast"}
Pace == Label \cup {"unknown"}
Transition == {<<e, s>> : e \in Episode, s \in 0 .. 9}
Recorded == {t \in Transition : t[2] <= LastStep[t[1]]}

ASSUME ReplayAssumption ==
    /\ Capacity \in Nat \ {0}
    /\ ChangesKept \in Nat \ {0}
    /\ LastStep \in [Episode -> 0 .. 8]
    /\ Demo \subseteq Recorded
    /\ Cut \subseteq Recorded

VARIABLES stored,        \* the transitions in the ring, by id
          nextIndex,     \* the id of the next one
          displaced,     \* the demonstration that is about to be appended again
          episodeSteps,  \* the id of each step of an episode not yet complete
          terminalStep,  \* the last step of an episode, once it has been seen
          episodePace,   \* the pace a finished episode was labelled with
          storeRevision,
          changes,       \* the last ChangesKept changes, oldest first
          offered        \* history: the transitions appended so far

storeVars == <<stored, nextIndex, displaced, episodeSteps, terminalStep,
               episodePace, storeRevision, changes, offered>>

Nothing == [transition |-> <<>>, pace |-> "unknown"]
NoSteps == [s \in 0 .. 9 |-> NoId]
NextObservation(t) == IF t \in Cut \/ t[2] = LastStep[t[1]] THEN <<"own", t>>
                                                           ELSE <<t[1], t[2] + 1>>

-----------------------------------------------------------------------------
Contains(id) == id \in DOMAIN stored
Ends(t) == t[2] = LastStep[t[1]]

(* What the store answers when the next observation of a transition is read. *)
ReadNext(id) ==
    IF stored[id].own THEN NextObservation(stored[id].transition)
    ELSE IF Contains(stored[id].next) THEN stored[stored[id].next].transition
    ELSE <<"no next observation">>

(* The id of a step of the episode, if it is indexed and still in the ring.  *)
StepId(steps, kept, s) ==
    IF s >= 0 /\ steps[s] \in DOMAIN kept THEN steps[s] ELSE NoId

(* A demonstration may fall out of the ring only while the demonstrations fill
   less than half of it; the store refuses the append otherwise.             *)
IsDemo(id) == stored[id].transition \in Demo
Demos == {id \in DOMAIN stored : IsDemo(id)}
Evicted == nextIndex - Capacity
MayEvict ==
    Contains(Evicted) /\ IsDemo(Evicted) => 2 * Cardinality(Demos) < Capacity

(* The ring without its oldest entry, and the episode index without the episode
   whose last entry that was.                                                *)
Kept == [id \in DOMAIN stored \ {Evicted} |-> stored[id]]
Forgotten == {e \in Episode :
    /\ Contains(Evicted)
    /\ stored[Evicted].transition[1] = e
    /\ \A id \in DOMAIN Kept : Kept[id].transition[1] # e}

(* Mutants: links that always drop the copy, and links in one direction only. *)
LinkDroppingAlways(ring, p, id) ==
    IF ~(p \in DOMAIN ring /\ id \in DOMAIN ring) \/ Ends(ring[p].transition) THEN ring
    ELSE [ring EXCEPT ![p].next = id, ![id].previous = p,
            ![p].own = @ /\ ~(NextObservation(ring[p].transition) = ring[id].transition)]
LinkForward(ring, p, id) ==
    IF ~(p \in DOMAIN ring /\ id \in DOMAIN ring) \/ Ends(ring[p].transition) THEN ring
    ELSE [ring EXCEPT ![p].next = id,
            ![p].own = @ /\ ~(id > p /\ NextObservation(ring[p].transition) = ring[id].transition)]

(* Linking drops the next observation that the successor's observation repeats,
   but only when the successor leaves the ring after its predecessor.        *)
Link(ring, p, id) ==
    IF ~(p \in DOMAIN ring /\ id \in DOMAIN ring) \/ Ends(ring[p].transition) THEN ring
    ELSE [ring EXCEPT
            ![p].next = id,
            ![id].previous = p,
            ![p].own = @ /\ ~(id > p /\ NextObservation(ring[p].transition) = ring[id].transition)]

(* Mutant: an episode counts as complete as soon as its last step is seen.   *)
CompletedByTerminal(steps, last, ring) == last # NoId

Completed(steps, last, ring) ==
    last # NoId /\ \A s \in 0 .. last : steps[s] \in DOMAIN ring

Change(appended, evicted, previous, next, reclassified) ==
    [revision |-> storeRevision + 1, appended |-> appended, evicted |-> evicted,
     evictedPrevious |-> previous, evictedNext |-> next, reclassified |-> reclassified]

(* Mutant: the log is not limited.                                           *)
LoggedForever(log, change) == Append(log, change)

Logged(log, change) ==
    IF Len(log) < ChangesKept THEN Append(log, change) ELSE Append(Tail(log), change)

(* The demonstration the write displaces, read before it.                     *)
Displaced(t) ==
    IF Contains(Evicted) /\ IsDemo(Evicted)
      THEN [transition |-> stored[Evicted].transition, pace |-> stored[Evicted].pace]
      ELSE Nothing

-----------------------------------------------------------------------------
StoreInit ==
    /\ stored = <<>>
    /\ nextIndex = 0
    /\ displaced = Nothing
    /\ episodeSteps = [e \in Episode |-> NoSteps]
    /\ terminalStep = [e \in Episode |-> NoId]
    /\ episodePace = [e \in Episode |-> "unknown"]
    /\ storeRevision = 0
    /\ changes = <<>>
    /\ offered = {}

(* A label overrules the pace a transition is projected to have.              *)
SamplingPace(e, projected) == IF episodePace[e] = "unknown" THEN projected ELSE episodePace[e]

(* _append_locked: evict, write, link to both neighbours, index, log.        *)
Write(t, pace) ==
    LET e == t[1]
        s == t[2]
        id == nextIndex
        previous == StepId(episodeSteps[e], stored, s - 1)
        steps == [IF e \in Forgotten THEN NoSteps ELSE episodeSteps[e] EXCEPT ![s] = id]
        entry == [transition |-> t, pace |-> SamplingPace(e, pace),
                  previous |-> previous, next |-> NoId, own |-> TRUE]
        written == [i \in DOMAIN Kept \cup {id} |-> IF i = id THEN entry ELSE Kept[i]]
        ring == Link(Link(written, previous, id), id, StepId(steps, written, s + 1))
        last == IF Ends(t) THEN s ELSE IF e \in Forgotten THEN NoId ELSE terminalStep[e]
        complete == Completed(steps, last, ring)
    IN /\ stored' = ring
       /\ nextIndex' = id + 1
       /\ displaced' = Displaced(t)
       /\ episodeSteps' = [x \in Episode |->
              IF x = e THEN (IF complete THEN NoSteps ELSE steps)
              ELSE IF x \in Forgotten THEN NoSteps ELSE episodeSteps[x]]
       /\ terminalStep' = [x \in Episode |->
              IF x = e THEN (IF complete THEN NoId ELSE last)
              ELSE IF x \in Forgotten THEN NoId ELSE terminalStep[x]]
       /\ episodePace' = [x \in Episode |->
              IF x # e /\ x \in Forgotten THEN "unknown" ELSE episodePace[x]]
       /\ storeRevision' = storeRevision + 1
       /\ changes' = Logged(changes,
              IF Contains(Evicted)
                THEN Change(id, Evicted, stored[Evicted].previous, stored[Evicted].next, {})
                ELSE Change(id, NoId, NoId, NoId, {}))

(* Append a transition of some episode; its steps may arrive in any order and
   interleaved with those of other episodes.  A demonstration is projected to
   be fast.                                                                  *)
AppendTransition(t) ==
    /\ displaced = Nothing
    /\ t \notin offered
    /\ StepId(episodeSteps[t[1]], stored, t[2]) = NoId
    /\ MayEvict
    /\ Write(t, IF t \in Demo THEN "fast" ELSE "unknown")
    /\ offered' = offered \cup {t}

(* The loop of append: the displaced demonstration is appended again at once,
   with the pace it had; the lock is not released in between.                *)
Reappend ==
    /\ displaced # Nothing
    /\ MayEvict
    /\ Write(displaced.transition, displaced.pace)
    /\ UNCHANGED offered

(* A finished episode is labelled with its pace, before, while or after its
   transitions arrive; the label also corrects a projection.                 *)
LabelEpisode(e, pace) ==
    LET changed == {id \in DOMAIN stored :
                      stored[id].transition[1] = e /\ stored[id].pace # pace}
    IN /\ displaced = Nothing
       /\ episodePace[e] = "unknown"
       /\ episodePace' = [episodePace EXCEPT ![e] = pace]
       /\ stored' = [id \in DOMAIN stored |->
              IF id \in changed THEN [stored[id] EXCEPT !.pace = pace] ELSE stored[id]]
       /\ IF changed = {} THEN UNCHANGED <<storeRevision, changes>>
          ELSE /\ storeRevision' = storeRevision + 1
               /\ changes' = Logged(changes, Change(NoId, NoId, NoId, NoId, changed))
       /\ UNCHANGED <<nextIndex, displaced, episodeSteps, terminalStep, offered>>

(* load_state_dict(state_dict()): the columns come back as they were, the
   episode index is rebuilt from them and the change log is lost.            *)
RebuiltSteps(e) == [s \in 0 .. 9 |->
    IF \E id \in DOMAIN stored : stored[id].transition = <<e, s>>
      THEN CHOOSE id \in DOMAIN stored :
             /\ stored[id].transition = <<e, s>>
             /\ \A other \in DOMAIN stored : stored[other].transition = <<e, s>> => other <= id
      ELSE NoId]
RebuiltTerminal(e) == IF RebuiltSteps(e)[LastStep[e]] # NoId THEN LastStep[e] ELSE NoId
Reload ==
    LET complete(e) == Completed(RebuiltSteps(e), RebuiltTerminal(e), stored)
    IN /\ displaced = Nothing
       /\ episodeSteps' = [e \in Episode |-> IF complete(e) THEN NoSteps ELSE RebuiltSteps(e)]
       /\ terminalStep' = [e \in Episode |-> IF complete(e) THEN NoId ELSE RebuiltTerminal(e)]
       /\ storeRevision' = storeRevision + 1
       /\ changes' = <<>>
       /\ UNCHANGED <<stored, nextIndex, displaced, episodePace, offered>>

StoreStep ==
    \/ \E t \in Recorded : AppendTransition(t)
    \/ Reappend
    \/ \E e \in Episode, pace \in Label : LabelEpisode(e, pace)
StoreNext == StoreStep \/ Reload
StoreSpec == StoreInit /\ [][StoreNext]_storeVars

-----------------------------------------------------------------------------
(* Every variable keeps its type, and the ring holds the last ids without a gap. *)
StoreTypeOK ==
    /\ nextIndex \in Nat
    /\ \A id \in DOMAIN stored :
         /\ id \in Nat
         /\ stored[id].transition \in Recorded
         /\ stored[id].pace \in Pace /\ stored[id].own \in BOOLEAN
         /\ stored[id].previous \in Nat \cup {NoId}
         /\ stored[id].next \in Nat \cup {NoId}
    /\ DOMAIN stored = {id \in 0 .. nextIndex - 1 : id >= nextIndex - Capacity}
    /\ displaced = Nothing \/ displaced.transition \in Demo
    /\ storeRevision \in Nat
    /\ Len(changes) <= ChangesKept
    /\ offered \subseteq Recorded

(* Reading a stored transition gives the next observation it was appended with,
   although the store drops the copy whenever the successor's observation can
   stand in for it: the successor never leaves the ring first.               *)
NextObservationIsKept ==
    \A id \in DOMAIN stored : ReadNext(id) = NextObservation(stored[id].transition)

(* Links agree in both directions and join consecutive steps of one episode,
   whatever the order of arrival and whatever has fallen out of the ring.    *)
LinksJoinNeighbours ==
    \A id \in DOMAIN stored :
        /\ Contains(stored[id].next) =>
             LET after == stored[stored[id].next]
             IN /\ after.previous = id
                /\ after.transition = <<stored[id].transition[1], stored[id].transition[2] + 1>>
        /\ Contains(stored[id].previous) => stored[stored[id].previous].next = id

(* Consecutive online steps that are both in the ring are linked, so that an
   n-step return never stops at a step that merely arrived late.             *)
NeighboursAreLinked ==
    LET online == {id \in DOMAIN stored : stored[id].transition \notin Demo}
    IN \A p, id \in online :
         stored[id].transition = <<stored[p].transition[1], stored[p].transition[2] + 1>>
           => stored[p].next = id

(* Episodes stay linked: what an n-step return or a history reads is right.   *)
EpisodesStayLinked == LinksJoinNeighbours /\ NeighboursAreLinked /\ NextObservationIsKept

(* A demonstration that was appended is never lost and no transition is stored
   twice.                                                                    *)
DemonstrationsAreKept ==
    /\ \A t \in offered \cap Demo :
         displaced.transition = t \/ \E id \in DOMAIN stored : stored[id].transition = t
    /\ Cardinality({stored[id].transition : id \in DOMAIN stored}) = Cardinality(DOMAIN stored)
=============================================================================
