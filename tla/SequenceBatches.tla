--------------------------- MODULE SequenceBatches ---------------------------
(* What a learner is given from the replay store: n-step transitions, windows of
   consecutive steps, and the observation history at the state an n-step return
   bootstraps from.  SequenceSampler keeps the window ends it found until the
   store's revision moves on.  Discounting is by an integer and rewards are
   distinct enough to tell the steps apart.                                   *)
EXTENDS ReplayIndex, FiniteSetsExt

CONSTANTS Reward,          \* [Recorded -> Int]
          Terminating,     \* the episodes that end in a terminal state
          Gamma            \* the discount

ASSUME BatchesAssumption ==
    Reward \in [Recorded -> Int] /\ Terminating \subseteq Episode /\ Gamma \in Nat

VARIABLE windowCache       \* _cached_revision and _cached_starts

NoWindows == [revision |-> NoId, ends |-> {}]
batchVars == <<replayVars, windowCache>>

-----------------------------------------------------------------------------
(* The ids of a chain up to the first that is not in the ring.                *)
Unbroken(chain) ==
    LET met == Cardinality({k \in DOMAIN chain : \A j \in 1 .. k : Contains(chain[j])})
    IN [k \in 1 .. met |-> chain[k]]

(* n_step_ids, and history_ids: oldest first, the oldest it reaches repeated.  *)
NStepIds(id, n) == Unbroken(Ahead(id, n))
PaddedHistory(id, n) ==
    LET met == Unbroken(Behind(id, n))
    IN [k \in 1 .. n |-> IF n - k < Len(met) THEN met[n - k + 1] ELSE met[Len(met)]]

(* The part of a horizon that is added up: it stops where the next id is not the
   next step of the same episode.                                            *)
Continued(ids) ==
    LET first == stored[ids[1]].transition
        follows(k) == stored[ids[k]].transition = <<first[1], first[2] + k - 1>>
    IN SubSeq(ids, 1, Cardinality({k \in 1 .. Len(ids) : \A j \in 1 .. k : follows(j)}))

(* _accumulate_horizon, and _build_n_step over a snapshot: the discounted reward
   and what the target bootstraps from.  Nothing discounts the first reward.  *)
Decay(steps) == IF steps = 0 THEN 1 ELSE Gamma ^ steps
Discounted(rewards) ==
    SumFunctionOnSet([k \in DOMAIN rewards |-> Decay(k - 1) * rewards[k]], DOMAIN rewards)
Accumulated(ids) ==
    LET taken == Continued(ids)
        final == stored[taken[Len(taken)]].transition
        terminated == Ends(final) /\ final[1] \in Terminating
    IN [observation |-> stored[ids[1]].transition,
        reward |-> Discounted([k \in 1 .. Len(taken) |-> Reward[stored[taken[k]].transition]]),
        next |-> ReadNext(taken[Len(taken)]),
        discount |-> IF terminated THEN 0 ELSE Gamma ^ Len(taken)]

(* A single draw accumulates its whole horizon; in a window only the last position
   does, the others are steps of their own.                                  *)
Materialized(id) == Accumulated(NStepIds(id, NStep))
WindowPosition(window, k) ==
    IF k = SequenceLength THEN Materialized(window[k]) ELSE Accumulated(<<window[k]>>)

(* The history at the state the last position bootstraps from, and which of it is
   not padding: the window and the announced observations of the horizon, as far
   back as a window reaches.                                                  *)
LastOnes(all) == SubSeq(all, Len(all) - SequenceLength + 1, Len(all))
TargetHistory(window) ==
    LET horizon == NStepIds(window[SequenceLength], NStep)
    IN LastOnes([k \in 1 .. SequenceLength |-> stored[window[k]].transition]
                  \o [k \in 1 .. Len(horizon) |-> ReadNext(horizon[k])])
PaddingMask(window) ==
    LET distinct == Cardinality({window[k] : k \in 1 .. SequenceLength})
    IN [k \in 1 .. SequenceLength |-> k > SequenceLength - distinct]
TargetMask(window) ==
    LET horizon == NStepIds(window[SequenceLength], NStep)
    IN LastOnes(PaddingMask(window) \o [k \in 1 .. Len(horizon) |-> TRUE])

(* The ids a window may end with, and the window of each.                     *)
WindowEndsPadded == \* faulty: a padded history counts as a window
    {id \in DOMAIN stored :
        HorizonComplete(id) /\ Len(PaddedHistory(id, SequenceLength)) = SequenceLength}
WindowEnds ==
    {id \in DOMAIN stored :
        HorizonComplete(id) /\ Cardinality(HistoryIds(id, SequenceLength)) = SequenceLength}
Window(id) == PaddedHistory(id, SequenceLength)

-----------------------------------------------------------------------------
BatchInit == ReplayInit /\ windowCache = NoWindows

(* sample: the ends that were found are used again while the store has the same
   revision; a store shorter than a window is refused before anything is kept. *)
CachedEnds == IF windowCache.revision = storeRevision THEN windowCache.ends ELSE WindowEnds
DrawSequences ==
    /\ displaced = Nothing
    /\ windowCache.revision = storeRevision \/ Cardinality(DOMAIN stored) >= SequenceLength
    /\ windowCache' = [revision |-> storeRevision, ends |-> CachedEnds]
    /\ UNCHANGED replayVars

(* load_state_dict of the sampler after that of the store.                    *)
RestoreSampler == Restore /\ windowCache' = NoWindows

(* A store under a sampler of sequences, which keeps no index.                 *)
SequenceNext ==
    \/ StoreStep /\ UNCHANGED <<indexVars, windowCache>>
    \/ DrawSequences
    \/ RestoreSampler
SequenceSpec == BatchInit /\ [][SequenceNext]_batchVars

-----------------------------------------------------------------------------
(* What the recorded laps say, without a ring, links or ids.                  *)
Steps(t) == Min({NStep, LastStep[t[1]] - t[2] + 1})
StepAfter(t, k) == <<t[1], t[2] + k>>
Reference(t) ==
    LET n == Steps(t)
        final == StepAfter(t, n - 1)
    IN [observation |-> t,
        reward |-> Discounted([k \in 1 .. n |-> Reward[StepAfter(t, k - 1)]]),
        next |-> NextObservation(final),
        discount |-> IF Ends(final) /\ t[1] \in Terminating THEN 0 ELSE Gamma ^ n]

(* What an actor remembers when it has reached a step: the steps up to it, after
   repetitions of the first one when the episode is shorter than that.        *)
RememberedAt(step, k) == step - SequenceLength + k
ActorHistory(t, step) ==
    [k \in 1 .. SequenceLength |-> <<t[1], Max({0, RememberedAt(step, k)})>>]
ActorMask(step) == [k \in 1 .. SequenceLength |-> RememberedAt(step, k) >= 0]

(* Whatever has been evicted, appended again or late, the learner is given what was
   driven: every n-step transition that may be drawn has the return, the bootstrap
   observation and the discount of the lap; the window behind it holds the steps an
   actor would remember there, each with the observation that followed it, and so does
   the history at the state it bootstraps from, padded where the actor's is; a sampler
   of sequences draws whole windows only, and the ends it kept from an earlier draw are
   those a fresh scan would find (store_materialization.py, batches.py:108-133,
   prioritized_sampling.py:82-107, sequence_sampler.py).                       *)
BatchesAreTrue ==
    displaced = Nothing =>
        /\ \A id \in DOMAIN stored : Eligible(id) =>
             LET t == stored[id].transition
                 window == Window(id)
                 reached == t[2] + Steps(t)
             IN /\ Materialized(id) = Reference(t)
                /\ [k \in 1 .. SequenceLength |-> WindowPosition(window, k).observation]
                     = ActorHistory(t, t[2])
                /\ PaddingMask(window) = ActorMask(t[2])
                /\ \A k \in 1 .. SequenceLength - 1 :
                     WindowPosition(window, k).next = NextObservation(stored[window[k]].transition)
                /\ TargetHistory(window)[SequenceLength]
                     = NextObservation(StepAfter(t, Steps(t) - 1))
                /\ (\A k \in 0 .. Steps(t) - 1 :
                        NextObservation(StepAfter(t, k)) = StepAfter(t, k + 1))
                     => TargetHistory(window) = ActorHistory(t, reached)
                /\ TargetMask(window) = ActorMask(reached)
        /\ \A id \in WindowEnds : Eligible(id) /\ stored[id].transition[2] >= SequenceLength - 1
        /\ windowCache.revision = storeRevision => windowCache.ends = WindowEnds
=============================================================================
