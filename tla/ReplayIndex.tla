----------------------------- MODULE ReplayIndex -----------------------------
(* PrioritizedSampler over the replay store: an index of the transitions that
   may be drawn, one entry per ring slot, brought up to date from the store's
   change log before every draw.  A transition may be drawn when its n-step
   horizon and its history are complete.  The Fenwick trees hold one weight per
   active entry and are left out (see FenwickTree).                          *)
EXTENDS ReplayStore

CONSTANTS NStep, SequenceLength,
          AllowPadding   \* a history may start at the first step of an episode

ASSUME ReplayIndexAssumption ==
    NStep \in Nat \ {0} /\ SequenceLength \in Nat \ {0} /\ AllowPadding \in BOOLEAN

VARIABLES slots,          \* the index entry of every ring slot
          indexRevision,  \* the store revision the index reflects, NoId when none
          lowered         \* history: the ids whose priority was updated

indexVars == <<slots, indexRevision, lowered>>
replayVars == <<storeVars, indexVars>>

EmptySlot == [id |-> NoId, active |-> FALSE, elite |-> FALSE, expert |-> FALSE, low |-> FALSE]

-----------------------------------------------------------------------------
(* The ids met from a transition along its links, NoId once the chain breaks. *)
After(id) == IF Contains(id) /\ ~Ends(stored[id].transition) THEN stored[id].next ELSE NoId
Before(id) == IF Contains(id) THEN stored[id].previous ELSE NoId
Ahead(id, n) == LET hop[k \in 1 .. n] == IF k = 1 THEN id ELSE After(hop[k - 1]) IN hop
Behind(id, n) == LET hop[k \in 1 .. n] == IF k = 1 THEN id ELSE Before(hop[k - 1]) IN hop
HorizonIds(id, n) == {Ahead(id, n)[k] : k \in 1 .. n} \cap DOMAIN stored
HistoryIds(id, n) == {Behind(id, n)[k] : k \in 1 .. n} \cap DOMAIN stored

HorizonComplete(id) ==
    \/ Cardinality(HorizonIds(id, NStep)) = NStep
    \/ \E i \in HorizonIds(id, NStep) : Ends(stored[i].transition)
StartsAtReset(id) ==
    \E i \in HistoryIds(id, SequenceLength) :
        /\ ~Contains(stored[i].previous)
        /\ stored[i].transition[2] = 0
HistoryComplete(id) ==
    \/ Cardinality(HistoryIds(id, SequenceLength)) = SequenceLength
    \/ AllowPadding /\ StartsAtReset(id)
Eligible(id) == Contains(id) /\ HorizonComplete(id) /\ HistoryComplete(id)

IsElite(id) == stored[id].pace = "fast"
IsExpert(id) == IsDemo(id) /\ IsElite(id)

-----------------------------------------------------------------------------
(* The transitions whose eligibility one change can have altered, looked up in
   the store as it is now.                                                   *)
AppendedCandidates(change) == \* faulty: evictions break no horizon or history
    HistoryIds(change.appended, NStep) \cup HorizonIds(change.appended, SequenceLength)
AffectedCandidates(change) ==
    HistoryIds(change.appended, NStep)
    \cup HorizonIds(change.appended, SequenceLength)
    \cup (IF NStep > 1 THEN HistoryIds(change.evictedPrevious, NStep - 1) ELSE {})
    \cup (IF SequenceLength > 1 THEN HorizonIds(change.evictedNext, SequenceLength - 1) ELSE {})

(* Activation keeps the priority of an id the slot already knows and gives any
   other id the maximum; an entry that is active is left alone unless it is
   classified again.                                                         *)
ActivatedKeepingPriority(slot, id) == \* faulty: the slot keeps its priority
    [id |-> id, active |-> TRUE, elite |-> IsElite(id), expert |-> IsExpert(id), low |-> slot.low]
Activated(slot, id) ==
    [id |-> id, active |-> TRUE, elite |-> IsElite(id), expert |-> IsExpert(id),
     low |-> slot.id = id /\ slot.low]
Refreshed(slot, id, again) ==
    IF ~Eligible(id) THEN [slot EXCEPT !.active = @ /\ slot.id # id]
    ELSE IF slot.active /\ slot.id = id /\ ~again THEN slot
    ELSE Activated(slot, id)

SlotOf(id) == id % Capacity
InSlot(ids, s) == {id \in ids : SlotOf(id) = s}

(* changes_since: the changes after a revision, or everything when the log does
   not reach back to it.                                                     *)
MissedChanges == {k \in 1 .. Len(changes) : changes[k].revision > indexRevision}
MustRebuild ==
    \/ indexRevision = NoId
    \/ /\ indexRevision # storeRevision
       /\ changes = <<>> \/ indexRevision < changes[1].revision - 1

Rebuilt == [s \in DOMAIN slots |->
    IF \E id \in DOMAIN stored : SlotOf(id) = s /\ Eligible(id)
      THEN Activated(slots[s], CHOOSE id \in DOMAIN stored : SlotOf(id) = s /\ Eligible(id))
      ELSE [slots[s] EXCEPT !.active = FALSE]]

Updated ==
    LET gone == {changes[k].evicted : k \in MissedChanges}
        again == UNION {changes[k].reclassified : k \in MissedChanges}
        touched == again \cup UNION {AffectedCandidates(changes[k]) : k \in MissedChanges}
        cleared(s) == [slots[s] EXCEPT !.active = @ /\ slots[s].id \notin gone]
        candidates(s) == InSlot(touched \cap DOMAIN stored, s)
    IN [s \in DOMAIN slots |->
          IF candidates(s) = {} THEN cleared(s)
          ELSE LET id == CHOOSE id \in candidates(s) : TRUE
               IN Refreshed(cleared(s), id, id \in again)]

-----------------------------------------------------------------------------
ReplayInit ==
    /\ StoreInit
    /\ slots = [s \in 0 .. Capacity - 1 |-> EmptySlot]
    /\ indexRevision = NoId
    /\ lowered = {}

(* A draw synchronizes the index while it holds the store's lock.            *)
Synchronize ==
    /\ displaced = Nothing
    /\ slots' = IF MustRebuild THEN Rebuilt ELSE Updated
    /\ indexRevision' = storeRevision
    /\ UNCHANGED <<storeVars, lowered>>

(* The learner reports the priorities of a batch it drew some time ago; by now
   another transition may hold the slot.                                     *)
UpdatePriority(id) ==
    /\ indexRevision # NoId
    /\ id \in 0 .. nextIndex - 1
    /\ id \notin lowered
    /\ slots' = [slots EXCEPT ![SlotOf(id)].low = @ \/ (slots[SlotOf(id)].id = id /\ slots[SlotOf(id)].active)]
    /\ lowered' = lowered \cup {id}
    /\ UNCHANGED <<storeVars, indexRevision>>

(* The run restarts from a checkpoint: the ring and the priorities come back,
   the index is built again at the next draw.                                *)
Restore ==
    /\ Reload
    /\ slots' = [s \in DOMAIN slots |-> [slots[s] EXCEPT !.active = FALSE]]
    /\ indexRevision' = NoId
    /\ UNCHANGED lowered

ReplayNext ==
    \/ StoreStep /\ UNCHANGED indexVars
    \/ Synchronize
    \/ \E id \in Nat : UpdatePriority(id)
    \/ Restore

ReplaySpec == ReplayInit /\ [][ReplayNext]_replayVars

-----------------------------------------------------------------------------
(* An index that reflects the store's revision holds exactly the transitions a
   scan of the whole store would find, each with the classification it has now:
   the incremental update misses nothing that an append, an eviction, a
   re-appended demonstration or a label changed, even when the change log was
   too short to reach back.                                                  *)
IndexIsExact ==
    displaced = Nothing /\ indexRevision = storeRevision =>
        /\ {slots[s].id : s \in {x \in DOMAIN slots : slots[x].active}}
             = {id \in DOMAIN stored : Eligible(id)}
        /\ \A s \in DOMAIN slots : slots[s].active =>
             /\ SlotOf(slots[s].id) = s
             /\ slots[s].elite = IsElite(slots[s].id)
             /\ slots[s].expert = IsExpert(slots[s].id)

(* A late priority never reaches the transition that has taken over the slot:
   every lowered priority belongs to an id that was reported.                *)
PrioritiesStayWithTheirId ==
    \A s \in DOMAIN slots : slots[s].low => slots[s].id \in lowered

(* The index follows the store, and priorities follow the index.              *)
IndexFollowsTheStore == IndexIsExact /\ PrioritiesStayWithTheirId
=============================================================================
