--------------------------- MODULE TrajectoryReward ---------------------------
(* TrajectoryReward: progress along a recorded line, and the reward that is
   paid for it.  The car is projected on the points near the last index, the
   index only advances, and unless a run turns that limit off by no more than
   the car can have moved; shaping is potential based and closed at the end of
   an episode.

   Points and positions are places on a line that may fold back on itself, so
   two points far apart along the trajectory can be near each other.  Rewards
   are kept in the units of their potential (metres, ticks of time debt); the
   velocity, steering and time terms depend on one step each and are left out. *)
EXTENDS Integers, Sequences, FiniteSetsExt

CONSTANTS Last,              \* the index of the last point
          Place,             \* Place[i]: where point i is
          Travelled,         \* Travelled[i]: the distance along the trajectory up to point i
          ReferenceTime,         \* ReferenceTime[i]: when the reference lap was at point i
          Position,          \* places the car is seen at
          CrashDistance, Forward, Backward,
          FinishPercent, MinimumFinishSteps,
          NoProgressSteps, SlowWindow, SlowMinimum,
          MaxSpeed, MaxTimeDelta, MaximumRaceTime,
          Cooldown, DebtClip,
          GammaNum, GammaDen, \* the discount GammaNum / GammaDen
          MaxTime             \* bound: race time

Distance(a, b) == IF a < b THEN b - a ELSE a - b
Least(a, b) == IF a < b THEN a ELSE b
Greatest(a, b) == IF a > b THEN a ELSE b
Point == 0 .. Last

ASSUME RewardAssumption ==
    /\ Last \in Nat \ {0}
    /\ Place \in [Point -> Int] /\ Position \subseteq Int
    /\ Travelled \in [Point -> Nat] /\ Travelled[0] = 0
    /\ \A i \in 1 .. Last :
         /\ Travelled[i] = Travelled[i - 1] + Distance(Place[i], Place[i - 1])
         /\ Place[i] # Place[i - 1]
    /\ ReferenceTime \in [Point -> Nat] /\ \A i \in 1 .. Last : ReferenceTime[i - 1] <= ReferenceTime[i]
    /\ {CrashDistance, Forward, FinishPercent, MinimumFinishSteps, NoProgressSteps,
        MaxSpeed, MaxTimeDelta, DebtClip, GammaDen} \subseteq Nat \ {0}
    /\ {Backward, SlowMinimum, Cooldown, MaximumRaceTime, GammaNum, MaxTime} \subseteq Nat
    /\ SlowWindow \in Nat \ {0, 1} /\ FinishPercent <= 100 /\ GammaNum <= GammaDen

VARIABLES limited,        \* limit_progress_by_kinematics, for good
          index,          \* the trajectory index reached
          step,           \* steps of the episode
          lastProgress,   \* the step that last advanced the index
          progressHistory, \* the recent steps, each <<step, progress>>
          position,       \* where the car was seen last: _previous_position, when limited
          reachable,      \* how far the car can have come, when limited
          raceTime,       \* _previous_race_time_s
          debt,           \* _previous_time_debt_s
          penalizedAt,    \* race time of the last penalized collision, -1: none
          reason,         \* why the episode ended; "running", or "unset" before the first
          start,          \* history: index, race time and debt at the reset
          paid,           \* history: progress rewarded so far
          weight,         \* history: <<GammaNum^step, GammaDen^step>>
          shaped, paced,  \* history: discounted sums of the two shaping terms, times GammaDen^step
          moved,          \* history: the distance the car covered
          penalties       \* history: collisions penalized

rewardVars == <<limited, index, step, lastProgress, progressHistory, position, reachable,
                raceTime, debt, penalizedAt, reason, start, paid, weight, shaped, paced, moved,
                penalties>>

-----------------------------------------------------------------------------
(* The nearest point inside the window around an index; the first of equals. *)
Nearby(i) == Greatest(0, i - Backward) .. Least(Last, i + Forward)
NearestAmong(points, place) ==
    CHOOSE n \in points : \A m \in points :
        \/ Distance(Place[n], place) < Distance(Place[m], place)
        \/ Distance(Place[n], place) = Distance(Place[m], place) /\ n <= m
Nearest == [p \in Point \X Position |-> NearestAmong(Nearby(p[1]), p[2])]
NearestDistance(place) == Distance(Place[Nearest[<<index, place>>]], place)

(* The progress a car may have reached: its own movement, capped by its speed. *)
Elapsed(time) == Least(time - raceTime, MaxTimeDelta)
Motion(place, time) == Least(Distance(place, position), MaxSpeed * Elapsed(time))
ReachableIndex(distance) == Max({i \in Point : Travelled[i] <= distance})
BoundedAdvance(place, time) ==
    Least(Nearest[<<index, place>>],
          Greatest(ReachableIndex(reachable + Motion(place, time)), index))

OnTrack(place) == NearestDistance(place) <= CrashDistance
Advanced(place, time) ==
    IF ~OnTrack(place) THEN index
    ELSE Greatest(index, IF limited THEN BoundedAdvance(place, time) ELSE Nearest[<<index, place>>])

(* The last SlowWindow steps and this one: of consecutive steps, only the first can be
   too old.                                                                   *)
Remembered(i) ==
    LET steps == Append(progressHistory, <<step + 1, Travelled[i]>>)
    IN IF step + 1 - steps[1][1] > SlowWindow THEN Tail(steps) ELSE steps
WindowProgress(history, i) == Travelled[i] - history[1][2]

ValidFinish(i, place, finishUi) ==
    /\ finishUi
    /\ Travelled[i] * 100 >= FinishPercent * Travelled[Last]
    /\ step + 1 >= MinimumFinishSteps
    /\ OnTrack(place)

TerminalReason(i, place, time, finishUi, progressed, history) ==
    CASE ~OnTrack(place) -> "off_track"
      [] OnTrack(place) /\ ValidFinish(i, place, finishUi) -> "finished"
      [] OTHER ->
           IF MaximumRaceTime > 0 /\ time >= MaximumRaceTime THEN "time_limit"
           ELSE IF step + 1 - progressed >= NoProgressSteps THEN "no_progress"
           ELSE IF /\ Len(history) >= 2 /\ step + 1 >= SlowWindow
                   /\ WindowProgress(history, i) < SlowMinimum THEN "slow_progress"
           ELSE "running"

(* Time debt against the reference lap, whose end counts for a finished lap. *)
Clipped(value) == Greatest(-DebtClip, Least(DebtClip, value))
TimeDebt(i, time, why) ==
    Clipped(time - (IF why = "finished" THEN ReferenceTime[Last] ELSE ReferenceTime[i]))

(* A shaping term of this step: discounted new potential minus the old one,
   and the old one given back at the end; as a summand of the discounted sum. *)
ShapingKept(old, new, ended) == GammaNum * new - GammaDen * old \* faulty: not closed at the end
Shaping(old, new, ended) == IF ended THEN -GammaDen * old ELSE GammaNum * new - GammaDen * old
DiscountedSum(sum, old, new, ended) == GammaDen * sum + weight[1] * Shaping(old, new, ended)

-----------------------------------------------------------------------------
RewardInit ==
    /\ limited \in BOOLEAN /\ index = 0 /\ step = 0 /\ lastProgress = 0 /\ progressHistory = <<>>
    /\ position = 0 /\ reachable = 0 /\ raceTime = 0 /\ debt = 0 /\ penalizedAt = -1
    /\ reason = "unset" /\ start = [index |-> 0, time |-> 0, debt |-> 0]
    /\ paid = 0 /\ weight = <<1, 1>> /\ shaped = 0 /\ paced = 0 /\ moved = 0 /\ penalties = 0

(* reset: a new episode where the car stands now.                            *)
ResetReward(place, time) ==
    /\ index' = Nearest[<<0, place>>]
    /\ step' = 0 /\ lastProgress' = 0 /\ progressHistory' = <<>>
    /\ position' = place /\ reachable' = Travelled[index']
    /\ raceTime' = time /\ debt' = TimeDebt(index', time, "running")
    /\ penalizedAt' = -1 /\ reason' = "running"
    /\ start' = [index |-> index', time |-> time, debt |-> debt']
    /\ paid' = 0 /\ weight' = <<1, 1>> /\ shaped' = 0 /\ paced' = 0 /\ moved' = 0 /\ penalties' = 0
    /\ UNCHANGED limited

(* A collision is penalized unless the last penalized one is too recent.     *)
Penalized(time) == penalizedAt < 0 \/ time - penalizedAt >= Cooldown
ApplyCollision(collision, time) ==
    IF collision /\ Penalized(time)
      THEN penalizedAt' = time /\ penalties' = penalties + 1
      ELSE UNCHANGED <<penalizedAt, penalties>>

(* score_transition; race time that runs backwards is refused.               *)
Score(place, time, finishUi, collision) ==
    LET reached == Advanced(place, time)
        progressed == IF reached > index THEN step + 1 ELSE lastProgress
        history == Remembered(reached)
        finished == ValidFinish(reached, place, finishUi)
        why == TerminalReason(reached, place, time, finishUi, progressed, history)
        ended == why # "running"
    IN
    /\ reason = "running" /\ time >= raceTime
    /\ index' = IF finished THEN Last ELSE reached   \* the rest of the lap is credited
    /\ step' = step + 1 /\ lastProgress' = progressed /\ progressHistory' = history
    /\ position' = place
    /\ reachable' = IF limited /\ OnTrack(place) THEN reachable + Motion(place, time)
                                                  ELSE reachable
    /\ raceTime' = time
    /\ reason' = why
    /\ paid' = paid + (Travelled[reached] - Travelled[index])
                    + (IF finished THEN Travelled[Last] - Travelled[reached] ELSE 0)
    /\ weight' = <<GammaNum * weight[1], GammaDen * weight[2]>>
    /\ shaped' = DiscountedSum(shaped, Travelled[index], Travelled[index'], ended)
    /\ debt' = TimeDebt(index', time, why)
    /\ paced' = DiscountedSum(paced, -debt, -debt', ended)
    /\ moved' = moved + Distance(place, position)
    /\ ApplyCollision(collision, time)
    /\ UNCHANGED <<limited, start>>

NewEpisode == \E place \in Position, time \in 1 .. MaxTime : ResetReward(place, time)
RewardedStep ==
    \E place \in Position, time \in 1 .. MaxTime, finishUi, collision \in BOOLEAN :
        Score(place, time, finishUi, collision)

RewardNext == NewEpisode \/ RewardedStep
RewardSpec == RewardInit /\ [][RewardNext]_rewardVars

-----------------------------------------------------------------------------
RewardTypeOK ==
    /\ limited \in BOOLEAN /\ index \in Point /\ step \in Nat /\ lastProgress \in 0 .. step
    /\ progressHistory \in Seq(Nat \X Nat) /\ Len(progressHistory) <= SlowWindow + 1
    /\ position \in Int /\ reachable \in Nat /\ raceTime \in Nat /\ debt \in -DebtClip .. DebtClip
    /\ penalizedAt \in Nat \cup {-1}
    /\ reason \in {"unset", "running", "off_track", "finished", "time_limit",
                   "no_progress", "slow_progress"}

(* Progress is paid for once: what an episode has earned for it is the part of
   the lap between its start and the index, and a finish pays the rest.       *)
ProgressIsPaidOnce ==
    /\ paid = Travelled[index] - Travelled[start.index]
    /\ reason = "finished" => index = Last

(* Shaping leaves the task alone: over an episode its discounted sum is what
   the start cost, however the car drove.                                    *)
ShapingTelescopes ==
    LET open == IF reason = "running" THEN weight[1] ELSE 0
    IN /\ shaped = open * Travelled[index] - weight[2] * Travelled[start.index]
       /\ paced = weight[2] * start.debt - open * debt

(* Limited progress is driven: no jump, shortcut through a fold or speed beyond
   the cap earns it, and no finish counts before enough of the lap was driven. *)
ProgressIsDriven == limited =>
    LET driven == Least(moved, MaxSpeed * (raceTime - start.time))
    IN CASE reason = "finished" ->
              100 * (Travelled[start.index] + driven) >= FinishPercent * Travelled[Last]
         [] OTHER -> Travelled[index] <= Travelled[start.index] + driven

(* A burst of collisions is penalized once per cooldown.                     *)
CollisionsCoolDown == penalties > 0 => (penalties - 1) * Cooldown <= raceTime - start.time

(* The reward of an episode adds up.                                         *)
RewardsAddUp ==
    ProgressIsPaidOnce /\ ShapingTelescopes /\ ProgressIsDriven /\ CollisionsCoolDown

=============================================================================
