----------------------------- MODULE ValueTargets -----------------------------
(* What a recurrent value learner makes of a window: the positions it trains, the
   frames behind each prediction and behind each bootstrap value, and the return and
   the discount in between (algorithms/value_based, models/composite.py).  A feature
   is represented by the frames its recurrent state has seen.                      *)
EXTENDS SequenceBatches

\* The learner refuses horizons that do not fit into a window.
ASSUME TargetsAssumption == NStep < SequenceLength

BurnIns == 0 .. SequenceLength - 1

-----------------------------------------------------------------------------
(* unroll warms the state up over the first frames and returns the others;
   encode_masked_sequence leaves a window's padding out and fills its place up. *)
Unrolled(frames, burnIn) == [k \in 1 .. Len(frames) - burnIn |-> SubSeq(frames, 1, burnIn + k)]
Encoded(frames, mask, burnIn) ==
    LET start == Cardinality({k \in DOMAIN mask : ~mask[k]})
        values == Unrolled(SubSeq(frames, start + 1, Len(frames)), Max({0, burnIn - start}))
    IN [k \in 1 .. Max({0, start - burnIn}) |-> <<>>] \o values

Observations(window) == [k \in 1 .. SequenceLength |-> WindowPosition(window, k).observation]
EncodedWindow(window, burnIn) == Encoded(Observations(window), PaddingMask(window), burnIn)

(* The positions that are trained: those whose horizon ends inside the window, and
   the last one, whose reward already is an n-step return.                        *)
InnerPositions(burnIn) == burnIn + 1 .. SequenceLength - NStep
TrainingPositions(window, burnIn) ==
    {p \in InnerPositions(burnIn) \cup {SequenceLength} : PaddingMask(window)[p]}

TrainedReturn(window, p) ==
    IF p = SequenceLength THEN WindowPosition(window, p).reward
    ELSE Discounted([k \in 1 .. NStep |-> WindowPosition(window, p + k - 1).reward])
TrainedDiscount(window, p) ==
    IF p = SequenceLength THEN WindowPosition(window, p).discount ELSE Gamma ^ NStep

CurrentFeatures(window, p, burnIn) == EncodedWindow(window, burnIn)[p - burnIn]
NextFeatures(window, p, burnIn) ==
    IF p = SequenceLength
      THEN LET encoded == Encoded(TargetHistory(window), TargetMask(window), burnIn)
           IN encoded[Len(encoded)]
      ELSE EncodedWindow(window, burnIn)[p + NStep - burnIn]

-----------------------------------------------------------------------------
(* Every value that is trained is trained toward the n-step return of its own step, is
   predicted from that step and the driven steps the window holds before it, never from
   padding, and is bootstrapped from the steps up to the one its return stops at
   (value_based/batches.py:58-86, update_helpers.py:102-149, composite.py:143-171).     *)
TargetsAreTrue ==
    displaced = Nothing =>
        \A id \in DOMAIN stored : Eligible(id) =>
            LET window == Window(id)
                last == stored[id].transition
                driven(from, to) == [k \in 1 .. to - from + 1 |-> <<last[1], from + k - 1>>]
                start(to) == Max({0, to - SequenceLength + 1})
            IN \A burnIn \in BurnIns : \A p \in TrainingPositions(window, burnIn) :
                 LET step == last[2] - SequenceLength + p
                     trained == <<last[1], step>>
                     n == Steps(trained)
                     announced == \A k \in 0 .. n - 1 :
                        NextObservation(StepAfter(trained, k)) = StepAfter(trained, k + 1)
                 IN /\ TrainedReturn(window, p) = Reference(trained).reward
                    /\ TrainedDiscount(window, p) = Reference(trained).discount
                    /\ CurrentFeatures(window, p, burnIn) = driven(start(last[2]), step)
                    /\ p < SequenceLength =>
                         NextFeatures(window, p, burnIn) = driven(start(last[2]), step + NStep)
                    /\ p = SequenceLength /\ announced =>
                         NextFeatures(window, p, burnIn) = driven(start(step + n), step + n)
=============================================================================
