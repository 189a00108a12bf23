----------------------------- MODULE Data_proofs -----------------------------
(***************************************************************************)
(* Proofs about the data of a run, for any constants.  The first are about *)
(* what is driven and how it is scored and reported: an environment's      *)
(* episodes, the reward of a trajectory, a trajectory search, the          *)
(* summaries of an actor and the artifact of a suite.  The last are the    *)
(* theorems about all of the data together, with the replay and the spool. *)
(***************************************************************************)
EXTENDS MCData, ActorSpool_proofs, Replay_proofs

-----------------------------------------------------------------------------
(* Why.  Races only grow, and the environment's last frame lies between the
   race it scored last and the race under way; the clock it waits to fall
   behind is one the old race has not been behind since.                     *)
Resetting == call \in {"confirm", "look", "restart", "wait", "recover", "recoverRestart", "ready"}
RacesInOrder ==
    /\ past <= scored /\ scored <= frame.race /\ frame.race <= race /\ before <= faults
    /\ frame.race = race => frame.clock <= RaceTime
    /\ last # Never /\ race = scored => last <= RaceTime
    /\ previous = Never => playing = 0 /\ call \in {"none", "confirm", "look"}
    /\ Resetting => scored = past /\ playing = 0
    /\ Resetting /\ previous # Never /\ race = past => previous <= RaceTime
    /\ call = "step" => playing # 0
ResetsWaitForNewRaces ==
    /\ call = "wait" /\ observed /\ previous > 0 => race > past
    /\ call = "ready" /\ previous > 0 => frame.race > past

(* A race restarted from outside is in its countdown for the rest of the step,
   and the step that reads it finds a clock behind the one it began with.    *)
GameFollowed ==
    playing # 0 \/ call = "ready" =>
        /\ race = frame.race => clock <= frame.clock + unread
        /\ race > frame.race => frame.clock > 0 /\ clock <= unread - Countdown
StepsStayInTheirRace ==
    playing # 0 =>
        /\ call = "none" => last = frame.clock /\ frame.race = playing
        /\ call = "step" =>
              /\ last # Never
              /\ \/ frame.race = playing /\ frame.clock <= last + reads * MaxSkip
                 \/ reads > 0 /\ frame.race > playing /\ frame.clock = 0 /\ last > 0
              /\ reads = 0 => last = frame.clock
              /\ race > playing =>
                    /\ clock <= reads * MaxSkip + unread - Countdown
                    /\ frame.race = playing /\ reads < MaxReads => last > 0

(* Without a fault a first restart starts a race unless the finish menu is
   open, and the second one always does.                                     *)
RaceStarts ==
    /\ clock >= MaxClock \/ clock >= waited - Countdown
    /\ previous > 0 => observed \/ clock <= unread - Countdown
    /\ previous <= 0 => observed
FaultlessResets ==
    faults = before =>
        /\ attempt = 1 /\ call \in {"confirm", "restart"} => menu = "none"
             /\ clock <= unread - Countdown
        /\ call = "wait" => (attempt = 0 /\ menu = "open") \/ RaceStarts
        /\ call = "recover" => attempt = 0 /\ menu = "open"
        /\ call = "recoverRestart" => attempt = 0 /\ menu = "closed"
ResetsRecover ==
    /\ call = "recover" => finishPending
    /\ call = "look" => previous = Never
    /\ attempt = 1 => previous # Never

RaceInv == /\ RaceTypeOK /\ RacesInOrder /\ ResetsWaitForNewRaces /\ GameFollowed
           /\ StepsStayInTheirRace /\ FaultlessResets /\ ResetsRecover /\ EpisodesAreSound

-----------------------------------------------------------------------------
\* What is assumed of the constants of the game.
LEMMA RaceConstants ==
    /\ Countdown \in Nat \ {0} /\ MaxSkip \in Nat \ {0} /\ MaxReads \in Nat \ {0}
    /\ StartTime \in Nat /\ StartTimeout \in Nat /\ MaxClock \in Nat /\ MaxFaults \in Nat
    /\ MaxRaces \in Nat \ {0} /\ Intervals \subseteq Nat
    /\ MaxSkip < Countdown /\ StartTimeout > Countdown + StartTime /\ MaxClock > StartTime
    /\ Never \notin Int
  BY RaceAssumption

\* The frames of the reads of a step.
LEMMA StepsBound ==
    ASSUME NEW r \in Nat, r < MaxReads
    PROVE  /\ r * MaxSkip \in Nat /\ MaxReads * MaxSkip \in Nat
                /\ (r + 1) * MaxSkip = r * MaxSkip + MaxSkip
           /\ r * MaxSkip + MaxSkip <= MaxReads * MaxSkip
<1>1. r + 1 <= MaxReads /\ MaxSkip \in Nat /\ MaxReads \in Nat
  BY RaceConstants
<1>2. \A a, b, c \in Nat : a <= b => a * c <= b * c /\ a * c \in Nat
  OBVIOUS
<1>3. (r + 1) * MaxSkip <= MaxReads * MaxSkip
  BY <1>1, <1>2
<1> QED  BY <1>1, <1>2, <1>3

FrameIsRead ==
    /\ frame' \in [race : Nat, clock : Nat, finish : BOOLEAN]
    /\ frame'.race = race /\ frame'.clock = RaceTime
    /\ race' = race /\ clock' = clock /\ menu' = menu /\ unread' = 0

\* A read that answers gives the race and its clock, and leaves the game as it is.
LEMMA FrameRead ==
    ASSUME RaceTypeOK, Read
    PROVE  FrameIsRead
<1>1. RaceTime \in Nat /\ race \in Nat
  BY RaceConstants DEF RaceTypeOK, RaceTime
<1>2. frame' = [race |-> race, clock |-> RaceTime, finish |-> menu = "open"]
  BY DEF Read
<1>3. frame' \in [race : Nat, clock : Nat, finish : BOOLEAN]
  BY <1>1, <1>2, Zenon
<1> QED  BY <1>2, <1>3 DEF Read, FrameIsRead

\* Before a first reading, any clock passes for that of a new race.
LEMMA RestartObserves ==
    ASSUME RaceTypeOK, Restart
    PROVE  observed' \in BOOLEAN /\ (observed' <=> previous <= 0)
<1>1. observed' = (previous <= 0)
  BY DEF Restart
<1>2. observed' <=> previous <= 0
  BY <1>1, Zenon
<1>3. observed' \in BOOLEAN
  BY <1>1
<1> QED  BY <1>2, <1>3

WaitEnds ==
    /\ observed' \in BOOLEAN /\ (observed' <=> observed \/ RaceTime < previous)
    /\ call = "wait" /\ unread > 0 /\ FrameIsRead
    /\ \/ /\ observed' /\ RaceTime > 0 /\ RaceTime >= StartTime
          /\ call' = "ready" /\ finishPending' = finishPending
       \/ /\ ~(observed' /\ RaceTime > 0 /\ RaceTime >= StartTime)
          /\ \/ call' = "wait" /\ finishPending' = finishPending
             \/ waited >= StartTimeout /\ call' = "recover" /\ finishPending' = TRUE
    /\ UNCHANGED <<faults, interval, attempt, previous, waited, reads, last, episodeVars>>

\* The wait ends ready, or in recovery once it lasted, or goes on.
LEMMA WaitObserves ==
    ASSUME RaceTypeOK, WaitForActiveRun
    PROVE  WaitEnds
<1>1. observed' = RestartSeen
  BY DEF WaitForActiveRun
<1>2. Read
  BY DEF WaitForActiveRun
<1>3. observed' <=> observed \/ RaceTime < previous
  BY <1>1, Zenon DEF RestartSeen
<1>4. observed' \in BOOLEAN
  BY <1>1 DEF RestartSeen
<1>5. FrameIsRead
  BY <1>2, FrameRead
<1>6. Started(observed') <=> observed' /\ RaceTime > 0 /\ RaceTime >= StartTime
  BY <1>5, Zenon DEF Started, FrameIsRead
<1>7. /\ call = "wait" /\ unread > 0
      /\ UNCHANGED <<faults, interval, attempt, previous, waited, reads, last, episodeVars>>
  BY DEF WaitForActiveRun
<1>8. \/ Started(observed') /\ call' = "ready" /\ finishPending' = finishPending
      \/ ~Started(observed') /\ call' = call /\ finishPending' = finishPending
      \/ ~Started(observed') /\ waited >= StartTimeout /\ call' = "recover"
           /\ finishPending' = TRUE
  BY Zenon DEF WaitForActiveRun
<1> QED  BY <1>3, <1>4, <1>5, <1>6, <1>7, <1>8, Zenon DEF WaitEnds

\* Every step keeps the types.
LEMMA RaceTypesStep ==
    ASSUME RaceTypeOK, before <= faults, RaceNext
    PROVE  RaceTypeOK'
<1>1. CASE GameFrame
  BY <1>1, RaceConstants DEF RaceTypeOK, GameFrame, episodeVars
<1>2. CASE OperatorRestarts
  BY <1>2, RaceConstants DEF RaceTypeOK, OperatorRestarts, NewRace, environmentVars, episodeVars
<1>3. CASE BeginReset
  BY <1>3, RaceConstants DEF RaceTypeOK, BeginReset, gameVars
<1>4. CASE ConfirmFinishIfNeeded
  BY <1>4, RaceConstants DEF RaceTypeOK, ConfirmFinishIfNeeded, PressConfirm, Ignored, Untouched,
     episodeVars
<1>5. CASE LookForReference
  <2>1. FrameIsRead
    BY <1>5, FrameRead DEF LookForReference
  <2> QED  BY <1>5, <2>1, RaceConstants DEF RaceTypeOK, RaceTime, episodeVars, FrameIsRead,
     LookForReference
<1>6. CASE Restart
  BY <1>6, RaceConstants, RestartObserves DEF RaceTypeOK, Restart, PressRestart, Ignored,
     Untouched, NewRace, episodeVars
<1>7. CASE WaitForActiveRun
  <2>1. WaitEnds
    BY <1>7, WaitObserves
  <2>2. call' \in {"ready", "wait", "recover"} /\ finishPending' \in BOOLEAN
    BY <2>1 DEF WaitEnds, RaceTypeOK
  <2>3. /\ observed' \in BOOLEAN /\ FrameIsRead
        /\ UNCHANGED <<faults, interval, attempt, previous, waited, reads, last, episodeVars>>
    BY <2>1 DEF WaitEnds
  <2> QED  BY <2>2, <2>3, RaceConstants DEF RaceTypeOK, FrameIsRead, episodeVars
<1>8. CASE WaitWithoutFrame
  BY <1>8, RaceConstants DEF RaceTypeOK, WaitWithoutFrame, ReadTimesOut, Untouched, episodeVars
<1>9. CASE RecoverResetTimeout
  BY <1>9, RaceConstants DEF RaceTypeOK, RecoverResetTimeout, PressRestart, Ignored, Untouched,
     NewRace, Fails
<1>10. CASE BeginEpisode
  <2>1. FrameIsRead \/ UNCHANGED <<gameVars, frame>>
    BY <1>10, FrameRead DEF BeginEpisode
  <2>2. /\ frame' \in [race : Nat, clock : Nat, finish : BOOLEAN] /\ unread' \in 0 .. MaxSkip
        /\ race' = race /\ clock' = clock /\ menu' = menu
    BY <2>1, RaceConstants DEF RaceTypeOK, FrameIsRead, gameVars
  <2>3. /\ call = "ready" /\ call' = "none" /\ finishPending' = FALSE
        /\ last' = frame'.clock /\ playing' = frame'.race
        /\ UNCHANGED <<faults, interval, attempt, previous, observed, waited, reads, scored,
             past, before, blamed>>
    BY <1>10 DEF BeginEpisode
  <2>4. last' \in Nat /\ playing' \in Nat
    BY <2>2, <2>3
  <2> QED  BY <2>2, <2>3, <2>4, RaceConstants DEF RaceTypeOK
<1>11. CASE ResetRaises
  BY <1>11, RaceConstants DEF RaceTypeOK, ResetRaises, ReadTimesOut, Untouched, Fails
<1>12. CASE BeginStep
  BY <1>12, RaceConstants DEF RaceTypeOK, BeginStep, gameVars, episodeVars
<1>13. CASE ReadFrame
  <2>1. FrameIsRead
    BY <1>13, FrameRead DEF ReadFrame
  <2> QED  BY <1>13, <2>1, RaceConstants DEF RaceTypeOK, RaceTime, Reached, episodeVars,
     FrameIsRead, ReadFrame
<1>14. CASE ScoreStep
  <2>1. frame.clock \in Nat /\ frame.race \in Nat
    BY DEF RaceTypeOK
  <2>2. last' \in Nat /\ scored' \in Nat
    BY <1>14, <2>1 DEF ScoreStep
  <2>3. \/ playing' = playing /\ finishPending' = finishPending
        \/ playing' = 0 /\ finishPending' = finishPending
        \/ playing' = 0 /\ finishPending' = TRUE
    BY <1>14, Zenon DEF ScoreStep
  <2>4. call' = "none"
          /\ UNCHANGED <<gameVars, interval, attempt, previous, observed, waited, reads,
                                     frame, past, before, blamed>>
    BY <1>14 DEF ScoreStep
  <2>5. playing' \in Nat
    BY <2>3 DEF RaceTypeOK
  <2>6. finishPending' \in BOOLEAN
    BY <2>3, Zenon DEF RaceTypeOK
  <2> QED  BY <2>2, <2>4, <2>5, <2>6, RaceConstants DEF RaceTypeOK, gameVars
<1>15. CASE RefuseStep
  BY <1>15, RaceConstants DEF RaceTypeOK, RefuseStep, Scorable, Reached, gameVars
<1>16. CASE StepTimesOut
  BY <1>16, RaceConstants DEF RaceTypeOK, StepTimesOut, ReadTimesOut, Untouched, Reached, gameVars
<1> QED  BY <1>1, <1>2, <1>3, <1>4, <1>5, <1>6, <1>7, <1>8, <1>9, <1>10, <1>11, <1>12, <1>13,
   <1>14, <1>15, <1>16 DEF RaceNext

\* Every step keeps the races in order.
LEMMA RaceOrderStep ==
    ASSUME RaceTypeOK, RacesInOrder, RaceNext
    PROVE  RacesInOrder'
<1>1. CASE GameFrame
  BY <1>1, RaceConstants DEF RaceTypeOK, RacesInOrder, GameFrame, episodeVars, RaceTime, Resetting
<1>2. CASE OperatorRestarts
  BY <1>2, RaceConstants DEF RaceTypeOK, RacesInOrder, OperatorRestarts, NewRace,
     environmentVars, episodeVars, RaceTime, Resetting
<1>3. CASE BeginReset
  BY <1>3, RaceConstants DEF RaceTypeOK, RacesInOrder, BeginReset, gameVars, RaceTime, Resetting
<1>4. CASE ConfirmFinishIfNeeded
  BY <1>4, RaceConstants DEF RaceTypeOK, RacesInOrder, ConfirmFinishIfNeeded, PressConfirm,
     Ignored, Untouched, episodeVars, RaceTime, Resetting
<1>5. CASE LookForReference
  <2>1. FrameIsRead
    BY <1>5, FrameRead DEF LookForReference
  <2> QED  BY <1>5, <2>1, RaceConstants DEF RaceTypeOK, RacesInOrder, RaceTime, episodeVars,
     RaceTime, Resetting, FrameIsRead, LookForReference
<1>6. CASE Restart
  BY <1>6, RaceConstants, RestartObserves DEF RaceTypeOK, RacesInOrder, Restart, PressRestart,
     Ignored, Untouched, NewRace, episodeVars, RaceTime, Resetting
<1>7. CASE WaitForActiveRun
  <2>1. WaitEnds
    BY <1>7, WaitObserves
  <2> QED  BY <1>7, <2>1, RaceConstants DEF RaceTypeOK, RacesInOrder, episodeVars, RaceTime,
     Resetting, FrameIsRead, WaitEnds
<1>8. CASE WaitWithoutFrame
  BY <1>8, RaceConstants DEF RaceTypeOK, RacesInOrder, WaitWithoutFrame, ReadTimesOut, Untouched,
     episodeVars, RaceTime, Resetting
<1>9. CASE RecoverResetTimeout
  BY <1>9, RaceConstants DEF RaceTypeOK, RacesInOrder, RecoverResetTimeout, PressRestart,
     Ignored, Untouched, NewRace, Fails, RaceTime, Resetting
<1>10. CASE BeginEpisode
  <2>1. FrameIsRead \/ UNCHANGED <<gameVars, frame>>
    BY <1>10, FrameRead DEF BeginEpisode
  <2>2. /\ call = "ready" /\ call' = "none" /\ finishPending' = FALSE
        /\ last' = frame'.clock /\ playing' = frame'.race
        /\ UNCHANGED <<faults, interval, attempt, previous, observed, waited, reads, scored,
             past, before, blamed>>
    BY <1>10 DEF BeginEpisode
  <2> QED  BY <2>1, <2>2, RaceConstants DEF RaceTypeOK, RacesInOrder, RaceTime, gameVars,
     RaceTime, Resetting, FrameIsRead
<1>11. CASE ResetRaises
  BY <1>11, RaceConstants DEF RaceTypeOK, RacesInOrder, ResetRaises, ReadTimesOut, Untouched,
     Fails, RaceTime, Resetting
<1>12. CASE BeginStep
  BY <1>12, RaceConstants DEF RaceTypeOK, RacesInOrder, BeginStep, gameVars, episodeVars,
     RaceTime, Resetting
<1>13. CASE ReadFrame
  <2>1. FrameIsRead
    BY <1>13, FrameRead DEF ReadFrame
  <2> QED  BY <1>13, <2>1, RaceConstants DEF RaceTypeOK, RacesInOrder, RaceTime, Reached,
     episodeVars, RaceTime, Resetting, FrameIsRead, ReadFrame
<1>14. CASE ScoreStep
  BY <1>14, RaceConstants DEF RaceTypeOK, RacesInOrder, ScoreStep, Scorable, Reached, gameVars,
     RaceTime, Resetting
<1>15. CASE RefuseStep
  BY <1>15, RaceConstants DEF RaceTypeOK, RacesInOrder, RefuseStep, Scorable, Reached, gameVars,
     RaceTime, Resetting
<1>16. CASE StepTimesOut
  BY <1>16, RaceConstants DEF RaceTypeOK, RacesInOrder, StepTimesOut, ReadTimesOut, Untouched,
     Reached, gameVars, RaceTime, Resetting
<1> QED  BY <1>1, <1>2, <1>3, <1>4, <1>5, <1>6, <1>7, <1>8, <1>9, <1>10, <1>11, <1>12, <1>13,
   <1>14, <1>15, <1>16 DEF RaceNext

\* A wait ends in a new race.
LEMMA RaceWaitsStep ==
    ASSUME RaceTypeOK, RacesInOrder, ResetsWaitForNewRaces, RaceNext
    PROVE  ResetsWaitForNewRaces'
<1>1. CASE GameFrame
  BY <1>1, RaceConstants DEF RaceTypeOK, RacesInOrder, ResetsWaitForNewRaces, GameFrame,
     episodeVars, Resetting, RaceTime
<1>2. CASE OperatorRestarts
  BY <1>2, RaceConstants DEF RaceTypeOK, RacesInOrder, ResetsWaitForNewRaces, OperatorRestarts,
     NewRace, environmentVars, episodeVars, Resetting, RaceTime
<1>3. CASE BeginReset
  BY <1>3, RaceConstants DEF RaceTypeOK, RacesInOrder, ResetsWaitForNewRaces, BeginReset,
     gameVars, Resetting, RaceTime
<1>4. CASE ConfirmFinishIfNeeded
  BY <1>4, RaceConstants DEF RaceTypeOK, RacesInOrder, ResetsWaitForNewRaces,
     ConfirmFinishIfNeeded, PressConfirm, Ignored, Untouched, episodeVars, Resetting, RaceTime
<1>5. CASE LookForReference
  <2>1. FrameIsRead
    BY <1>5, FrameRead DEF LookForReference
  <2> QED  BY <1>5, <2>1, RaceConstants DEF RaceTypeOK, RacesInOrder, ResetsWaitForNewRaces,
     RaceTime, episodeVars, Resetting, RaceTime, FrameIsRead, LookForReference
<1>6. CASE Restart
  BY <1>6, RaceConstants, RestartObserves DEF RaceTypeOK, RacesInOrder, ResetsWaitForNewRaces,
     Restart, PressRestart, Ignored, Untouched, NewRace, episodeVars, Resetting, RaceTime
<1>7. CASE WaitForActiveRun
  <2>1. WaitEnds
    BY <1>7, WaitObserves
  <2> QED  BY <1>7, <2>1, RaceConstants DEF RaceTypeOK, RacesInOrder, ResetsWaitForNewRaces,
     episodeVars, Resetting, RaceTime, FrameIsRead, WaitEnds
<1>8. CASE WaitWithoutFrame
  BY <1>8, RaceConstants DEF RaceTypeOK, RacesInOrder, ResetsWaitForNewRaces, WaitWithoutFrame,
     ReadTimesOut, Untouched, episodeVars, Resetting, RaceTime
<1>9. CASE RecoverResetTimeout
  BY <1>9, RaceConstants DEF RaceTypeOK, RacesInOrder, ResetsWaitForNewRaces,
     RecoverResetTimeout, PressRestart, Ignored, Untouched, NewRace, Fails, Resetting, RaceTime
<1>10. CASE BeginEpisode
  <2>1. FrameIsRead \/ UNCHANGED <<gameVars, frame>>
    BY <1>10, FrameRead DEF BeginEpisode
  <2>2. /\ call = "ready" /\ call' = "none" /\ finishPending' = FALSE
        /\ last' = frame'.clock /\ playing' = frame'.race
        /\ UNCHANGED <<faults, interval, attempt, previous, observed, waited, reads, scored,
             past, before, blamed>>
    BY <1>10 DEF BeginEpisode
  <2> QED  BY <2>1, <2>2, RaceConstants DEF RaceTypeOK, RacesInOrder, ResetsWaitForNewRaces,
     RaceTime, gameVars, Resetting, RaceTime, FrameIsRead
<1>11. CASE ResetRaises
  BY <1>11, RaceConstants DEF RaceTypeOK, RacesInOrder, ResetsWaitForNewRaces, ResetRaises,
     ReadTimesOut, Untouched, Fails, Resetting, RaceTime
<1>12. CASE BeginStep
  BY <1>12, RaceConstants DEF RaceTypeOK, RacesInOrder, ResetsWaitForNewRaces, BeginStep,
     gameVars, episodeVars, Resetting, RaceTime
<1>13. CASE ReadFrame
  <2>1. FrameIsRead
    BY <1>13, FrameRead DEF ReadFrame
  <2> QED  BY <1>13, <2>1, RaceConstants DEF RaceTypeOK, RacesInOrder, ResetsWaitForNewRaces,
     RaceTime, Reached, episodeVars, Resetting, RaceTime, FrameIsRead, ReadFrame
<1>14. CASE ScoreStep
  BY <1>14, RaceConstants DEF RaceTypeOK, RacesInOrder, ResetsWaitForNewRaces, ScoreStep,
     Scorable, Reached, gameVars, Resetting, RaceTime
<1>15. CASE RefuseStep
  BY <1>15, RaceConstants DEF RaceTypeOK, RacesInOrder, ResetsWaitForNewRaces, RefuseStep,
     Scorable, Reached, gameVars, Resetting, RaceTime
<1>16. CASE StepTimesOut
  BY <1>16, RaceConstants DEF RaceTypeOK, RacesInOrder, ResetsWaitForNewRaces, StepTimesOut,
     ReadTimesOut, Untouched, Reached, gameVars, Resetting, RaceTime
<1> QED  BY <1>1, <1>2, <1>3, <1>4, <1>5, <1>6, <1>7, <1>8, <1>9, <1>10, <1>11, <1>12, <1>13,
   <1>14, <1>15, <1>16 DEF RaceNext

\* The frame read last follows the game.
LEMMA RaceFollowedStep ==
    ASSUME RaceTypeOK, RacesInOrder, GameFollowed, RaceNext
    PROVE  GameFollowed'
<1>1. CASE GameFrame
  BY <1>1, RaceConstants DEF GameFollowed, RaceTypeOK, RacesInOrder, GameFrame, episodeVars,
     Resetting, RaceTime
<1>2. CASE OperatorRestarts
  BY <1>2, RaceConstants DEF GameFollowed, RaceTypeOK, RacesInOrder, OperatorRestarts, NewRace,
     environmentVars, episodeVars, Resetting, RaceTime
<1>3. CASE BeginReset
  BY <1>3, RaceConstants DEF GameFollowed, RaceTypeOK, RacesInOrder, BeginReset, gameVars,
     Resetting, RaceTime
<1>4. CASE ConfirmFinishIfNeeded
  BY <1>4, RaceConstants DEF GameFollowed, RaceTypeOK, RacesInOrder, ConfirmFinishIfNeeded,
     PressConfirm, Ignored, Untouched, episodeVars, Resetting, RaceTime
<1>5. CASE LookForReference
  <2>1. FrameIsRead
    BY <1>5, FrameRead DEF LookForReference
  <2> QED  BY <1>5, <2>1, RaceConstants DEF GameFollowed, RaceTypeOK, RacesInOrder, RaceTime,
     episodeVars, Resetting, RaceTime, FrameIsRead, LookForReference
<1>6. CASE Restart
  BY <1>6, RaceConstants, RestartObserves DEF GameFollowed, RaceTypeOK, RacesInOrder, Restart,
     PressRestart, Ignored, Untouched, NewRace, episodeVars, Resetting, RaceTime
<1>7. CASE WaitForActiveRun
  <2>1. WaitEnds
    BY <1>7, WaitObserves
  <2> QED  BY <1>7, <2>1, RaceConstants DEF GameFollowed, RaceTypeOK, RacesInOrder, episodeVars,
     Resetting, RaceTime, FrameIsRead, WaitEnds
<1>8. CASE WaitWithoutFrame
  BY <1>8, RaceConstants DEF GameFollowed, RaceTypeOK, RacesInOrder, WaitWithoutFrame,
     ReadTimesOut, Untouched, episodeVars, Resetting, RaceTime
<1>9. CASE RecoverResetTimeout
  BY <1>9, RaceConstants DEF GameFollowed, RaceTypeOK, RacesInOrder, RecoverResetTimeout,
     PressRestart, Ignored, Untouched, NewRace, Fails, Resetting, RaceTime
<1>10. CASE BeginEpisode
  <2>1. FrameIsRead \/ UNCHANGED <<gameVars, frame>>
    BY <1>10, FrameRead DEF BeginEpisode
  <2>2. /\ call = "ready" /\ call' = "none" /\ finishPending' = FALSE
        /\ last' = frame'.clock /\ playing' = frame'.race
        /\ UNCHANGED <<faults, interval, attempt, previous, observed, waited, reads, scored,
             past, before, blamed>>
    BY <1>10 DEF BeginEpisode
  <2> QED  BY <2>1, <2>2, RaceConstants DEF GameFollowed, RaceTypeOK, RacesInOrder, RaceTime,
     gameVars, Resetting, RaceTime, FrameIsRead
<1>11. CASE ResetRaises
  BY <1>11, RaceConstants DEF GameFollowed, RaceTypeOK, RacesInOrder, ResetRaises, ReadTimesOut,
     Untouched, Fails, Resetting, RaceTime
<1>12. CASE BeginStep
  BY <1>12, RaceConstants DEF GameFollowed, RaceTypeOK, RacesInOrder, BeginStep, gameVars,
     episodeVars, Resetting, RaceTime
<1>13. CASE ReadFrame
  <2>1. FrameIsRead
    BY <1>13, FrameRead DEF ReadFrame
  <2> QED  BY <1>13, <2>1, RaceConstants DEF GameFollowed, RaceTypeOK, RacesInOrder, RaceTime,
     Reached, episodeVars, Resetting, RaceTime, FrameIsRead, ReadFrame
<1>14. CASE ScoreStep
  BY <1>14, RaceConstants DEF GameFollowed, RaceTypeOK, RacesInOrder, ScoreStep, Scorable,
     Reached, gameVars, Resetting, RaceTime
<1>15. CASE RefuseStep
  BY <1>15, RaceConstants DEF GameFollowed, RaceTypeOK, RacesInOrder, RefuseStep, Scorable,
     Reached, gameVars, Resetting, RaceTime
<1>16. CASE StepTimesOut
  BY <1>16, RaceConstants DEF GameFollowed, RaceTypeOK, RacesInOrder, StepTimesOut, ReadTimesOut,
     Untouched, Reached, gameVars, Resetting, RaceTime
<1> QED  BY <1>1, <1>2, <1>3, <1>4, <1>5, <1>6, <1>7, <1>8, <1>9, <1>10, <1>11, <1>12, <1>13,
   <1>14, <1>15, <1>16 DEF RaceNext

\* What a reset knows when it recovers.
LEMMA RaceRecoverStep ==
    ASSUME RaceTypeOK, RacesInOrder, ResetsRecover, RaceNext
    PROVE  ResetsRecover'
<1>1. CASE GameFrame
  BY <1>1, RaceConstants DEF RaceTypeOK, RacesInOrder, ResetsRecover, GameFrame, episodeVars,
     Resetting
<1>2. CASE OperatorRestarts
  BY <1>2, RaceConstants DEF RaceTypeOK, RacesInOrder, ResetsRecover, OperatorRestarts, NewRace,
     environmentVars, episodeVars, Resetting
<1>3. CASE BeginReset
  BY <1>3, RaceConstants DEF RaceTypeOK, RacesInOrder, ResetsRecover, BeginReset, gameVars,
     Resetting
<1>4. CASE ConfirmFinishIfNeeded
  BY <1>4, RaceConstants DEF RaceTypeOK, RacesInOrder, ResetsRecover, ConfirmFinishIfNeeded,
     PressConfirm, Ignored, Untouched, episodeVars, Resetting
<1>5. CASE LookForReference
  <2>1. FrameIsRead
    BY <1>5, FrameRead DEF LookForReference
  <2> QED  BY <1>5, <2>1, RaceConstants DEF RaceTypeOK, RacesInOrder, ResetsRecover, RaceTime,
     episodeVars, Resetting, FrameIsRead, LookForReference
<1>6. CASE Restart
  BY <1>6, RaceConstants, RestartObserves DEF RaceTypeOK, RacesInOrder, ResetsRecover, Restart,
     PressRestart, Ignored, Untouched, NewRace, episodeVars, Resetting
<1>7. CASE WaitForActiveRun
  <2>1. WaitEnds
    BY <1>7, WaitObserves
  <2> QED  BY <1>7, <2>1, RaceConstants DEF RaceTypeOK, RacesInOrder, ResetsRecover, episodeVars,
     Resetting, FrameIsRead, WaitEnds
<1>8. CASE WaitWithoutFrame
  BY <1>8, RaceConstants DEF RaceTypeOK, RacesInOrder, ResetsRecover, WaitWithoutFrame,
     ReadTimesOut, Untouched, episodeVars, Resetting
<1>9. CASE RecoverResetTimeout
  BY <1>9, RaceConstants DEF RaceTypeOK, RacesInOrder, ResetsRecover, RecoverResetTimeout,
     PressRestart, Ignored, Untouched, NewRace, Fails, Resetting
<1>10. CASE BeginEpisode
  <2>1. FrameIsRead \/ UNCHANGED <<gameVars, frame>>
    BY <1>10, FrameRead DEF BeginEpisode
  <2>2. /\ call = "ready" /\ call' = "none" /\ finishPending' = FALSE
        /\ last' = frame'.clock /\ playing' = frame'.race
        /\ UNCHANGED <<faults, interval, attempt, previous, observed, waited, reads, scored,
             past, before, blamed>>
    BY <1>10 DEF BeginEpisode
  <2> QED  BY <2>1, <2>2, RaceConstants DEF RaceTypeOK, RacesInOrder, ResetsRecover, RaceTime,
     gameVars, Resetting, FrameIsRead
<1>11. CASE ResetRaises
  BY <1>11, RaceConstants DEF RaceTypeOK, RacesInOrder, ResetsRecover, ResetRaises, ReadTimesOut,
     Untouched, Fails, Resetting
<1>12. CASE BeginStep
  BY <1>12, RaceConstants DEF RaceTypeOK, RacesInOrder, ResetsRecover, BeginStep, gameVars,
     episodeVars, Resetting
<1>13. CASE ReadFrame
  <2>1. FrameIsRead
    BY <1>13, FrameRead DEF ReadFrame
  <2> QED  BY <1>13, <2>1, RaceConstants DEF RaceTypeOK, RacesInOrder, ResetsRecover, RaceTime,
     Reached, episodeVars, Resetting, FrameIsRead, ReadFrame
<1>14. CASE ScoreStep
  BY <1>14, RaceConstants DEF RaceTypeOK, RacesInOrder, ResetsRecover, ScoreStep, Scorable,
     Reached, gameVars, Resetting
<1>15. CASE RefuseStep
  BY <1>15, RaceConstants DEF RaceTypeOK, RacesInOrder, ResetsRecover, RefuseStep, Scorable,
     Reached, gameVars, Resetting
<1>16. CASE StepTimesOut
  BY <1>16, RaceConstants DEF RaceTypeOK, RacesInOrder, ResetsRecover, StepTimesOut,
     ReadTimesOut, Untouched, Reached, gameVars, Resetting
<1> QED  BY <1>1, <1>2, <1>3, <1>4, <1>5, <1>6, <1>7, <1>8, <1>9, <1>10, <1>11, <1>12, <1>13,
   <1>14, <1>15, <1>16 DEF RaceNext

\* A reset without a fault starts its race, at the second attempt if not at the first.
LEMMA RaceFaultlessStep ==
    ASSUME RaceTypeOK, RacesInOrder, FaultlessResets, ResetsRecover, RaceNext
    PROVE  FaultlessResets'
<1>1. CASE GameFrame
  BY <1>1, RaceConstants DEF FaultlessResets, RaceTypeOK, RacesInOrder, ResetsRecover, GameFrame,
     episodeVars, RaceStarts, Resetting, RaceTime
<1>2. CASE OperatorRestarts
  BY <1>2, RaceConstants DEF FaultlessResets, RaceTypeOK, RacesInOrder, ResetsRecover,
     OperatorRestarts, NewRace, environmentVars, episodeVars, RaceStarts, Resetting, RaceTime
<1>3. CASE BeginReset
  BY <1>3, RaceConstants DEF FaultlessResets, RaceTypeOK, RacesInOrder, ResetsRecover,
     BeginReset, gameVars, RaceStarts, Resetting, RaceTime
<1>4. CASE ConfirmFinishIfNeeded
  BY <1>4, RaceConstants DEF FaultlessResets, RaceTypeOK, RacesInOrder, ResetsRecover,
     ConfirmFinishIfNeeded, PressConfirm, Ignored, Untouched, episodeVars, RaceStarts, Resetting,
     RaceTime
<1>5. CASE LookForReference
  <2>1. FrameIsRead
    BY <1>5, FrameRead DEF LookForReference
  <2> QED  BY <1>5, <2>1, RaceConstants DEF FaultlessResets, RaceTypeOK, RacesInOrder,
     ResetsRecover, RaceTime, episodeVars, RaceStarts, Resetting, RaceTime, FrameIsRead,
     LookForReference
<1>6. CASE Restart
  BY <1>6, RaceConstants, RestartObserves DEF FaultlessResets, RaceTypeOK, RacesInOrder,
     ResetsRecover, Restart, PressRestart, Ignored, Untouched, NewRace, episodeVars, RaceStarts,
     Resetting, RaceTime
<1>7. CASE WaitForActiveRun
  <2>1. WaitEnds
    BY <1>7, WaitObserves
  <2> QED  BY <1>7, <2>1, RaceConstants DEF FaultlessResets, RaceTypeOK, RacesInOrder,
     ResetsRecover, episodeVars, RaceStarts, Resetting, RaceTime, FrameIsRead, WaitEnds
<1>8. CASE WaitWithoutFrame
  BY <1>8, RaceConstants DEF FaultlessResets, RaceTypeOK, RacesInOrder, ResetsRecover,
     WaitWithoutFrame, ReadTimesOut, Untouched, episodeVars, RaceStarts, Resetting, RaceTime
<1>9. CASE RecoverResetTimeout
  BY <1>9, RaceConstants DEF FaultlessResets, RaceTypeOK, RacesInOrder, ResetsRecover,
     RecoverResetTimeout, PressRestart, Ignored, Untouched, NewRace, Fails, RaceStarts,
     Resetting, RaceTime
<1>10. CASE BeginEpisode
  <2>1. FrameIsRead \/ UNCHANGED <<gameVars, frame>>
    BY <1>10, FrameRead DEF BeginEpisode
  <2>2. /\ call = "ready" /\ call' = "none" /\ finishPending' = FALSE
        /\ last' = frame'.clock /\ playing' = frame'.race
        /\ UNCHANGED <<faults, interval, attempt, previous, observed, waited, reads, scored,
             past, before, blamed>>
    BY <1>10 DEF BeginEpisode
  <2> QED  BY <2>1, <2>2, RaceConstants DEF FaultlessResets, RaceTypeOK, RacesInOrder,
     ResetsRecover, RaceTime, gameVars, RaceStarts, Resetting, RaceTime, FrameIsRead
<1>11. CASE ResetRaises
  BY <1>11, RaceConstants DEF FaultlessResets, RaceTypeOK, RacesInOrder, ResetsRecover,
     ResetRaises, ReadTimesOut, Untouched, Fails, RaceStarts, Resetting, RaceTime
<1>12. CASE BeginStep
  BY <1>12, RaceConstants DEF FaultlessResets, RaceTypeOK, RacesInOrder, ResetsRecover,
     BeginStep, gameVars, episodeVars, RaceStarts, Resetting, RaceTime
<1>13. CASE ReadFrame
  <2>1. FrameIsRead
    BY <1>13, FrameRead DEF ReadFrame
  <2> QED  BY <1>13, <2>1, RaceConstants DEF FaultlessResets, RaceTypeOK, RacesInOrder,
     ResetsRecover, RaceTime, Reached, episodeVars, RaceStarts, Resetting, RaceTime, FrameIsRead,
     ReadFrame
<1>14. CASE ScoreStep
  BY <1>14, RaceConstants DEF FaultlessResets, RaceTypeOK, RacesInOrder, ResetsRecover,
     ScoreStep, Scorable, Reached, gameVars, RaceStarts, Resetting, RaceTime
<1>15. CASE RefuseStep
  BY <1>15, RaceConstants DEF FaultlessResets, RaceTypeOK, RacesInOrder, ResetsRecover,
     RefuseStep, Scorable, Reached, gameVars, RaceStarts, Resetting, RaceTime
<1>16. CASE StepTimesOut
  BY <1>16, RaceConstants DEF FaultlessResets, RaceTypeOK, RacesInOrder, ResetsRecover,
     StepTimesOut, ReadTimesOut, Untouched, Reached, gameVars, RaceStarts, Resetting, RaceTime
<1> QED  BY <1>1, <1>2, <1>3, <1>4, <1>5, <1>6, <1>7, <1>8, <1>9, <1>10, <1>11, <1>12, <1>13,
   <1>14, <1>15, <1>16 DEF RaceNext

\* A reset fails only where a fault came in between.
LEMMA RaceBlameStep ==
    ASSUME RaceTypeOK, RacesInOrder, FaultlessResets, OpenMenusAreRecovered, RaceNext
    PROVE  OpenMenusAreRecovered'
<1>1. CASE GameFrame
  BY <1>1, RaceConstants DEF FaultlessResets, OpenMenusAreRecovered, RaceTypeOK, RacesInOrder,
     GameFrame, episodeVars, Resetting
<1>2. CASE OperatorRestarts
  BY <1>2, RaceConstants DEF FaultlessResets, OpenMenusAreRecovered, RaceTypeOK, RacesInOrder,
     OperatorRestarts, NewRace, environmentVars, episodeVars, Resetting
<1>3. CASE BeginReset
  BY <1>3, RaceConstants DEF FaultlessResets, OpenMenusAreRecovered, RaceTypeOK, RacesInOrder,
     BeginReset, gameVars, Resetting
<1>4. CASE ConfirmFinishIfNeeded
  BY <1>4, RaceConstants DEF FaultlessResets, OpenMenusAreRecovered, RaceTypeOK, RacesInOrder,
     ConfirmFinishIfNeeded, PressConfirm, Ignored, Untouched, episodeVars, Resetting
<1>5. CASE LookForReference
  <2>1. FrameIsRead
    BY <1>5, FrameRead DEF LookForReference
  <2> QED  BY <1>5, <2>1, RaceConstants DEF FaultlessResets, OpenMenusAreRecovered, RaceTypeOK,
     RacesInOrder, RaceTime, episodeVars, Resetting, FrameIsRead, LookForReference
<1>6. CASE Restart
  BY <1>6, RaceConstants, RestartObserves DEF FaultlessResets, OpenMenusAreRecovered, RaceTypeOK,
     RacesInOrder, Restart, PressRestart, Ignored, Untouched, NewRace, episodeVars, Resetting
<1>7. CASE WaitForActiveRun
  <2>1. WaitEnds
    BY <1>7, WaitObserves
  <2> QED  BY <1>7, <2>1, RaceConstants DEF FaultlessResets, OpenMenusAreRecovered, RaceTypeOK,
     RacesInOrder, episodeVars, Resetting, FrameIsRead, WaitEnds
<1>8. CASE WaitWithoutFrame
  BY <1>8, RaceConstants DEF FaultlessResets, OpenMenusAreRecovered, RaceTypeOK, RacesInOrder,
     WaitWithoutFrame, ReadTimesOut, Untouched, episodeVars, Resetting
<1>9. CASE RecoverResetTimeout
  BY <1>9, RaceConstants DEF FaultlessResets, OpenMenusAreRecovered, RaceTypeOK, RacesInOrder,
     RecoverResetTimeout, PressRestart, Ignored, Untouched, NewRace, Fails, Resetting
<1>10. CASE BeginEpisode
  <2>1. FrameIsRead \/ UNCHANGED <<gameVars, frame>>
    BY <1>10, FrameRead DEF BeginEpisode
  <2>2. /\ call = "ready" /\ call' = "none" /\ finishPending' = FALSE
        /\ last' = frame'.clock /\ playing' = frame'.race
        /\ UNCHANGED <<faults, interval, attempt, previous, observed, waited, reads, scored,
             past, before, blamed>>
    BY <1>10 DEF BeginEpisode
  <2> QED  BY <2>1, <2>2, RaceConstants DEF FaultlessResets, OpenMenusAreRecovered, RaceTypeOK,
     RacesInOrder, RaceTime, gameVars, Resetting, FrameIsRead
<1>11. CASE ResetRaises
  BY <1>11, RaceConstants DEF FaultlessResets, OpenMenusAreRecovered, RaceTypeOK, RacesInOrder,
     ResetRaises, ReadTimesOut, Untouched, Fails, Resetting
<1>12. CASE BeginStep
  BY <1>12, RaceConstants DEF FaultlessResets, OpenMenusAreRecovered, RaceTypeOK, RacesInOrder,
     BeginStep, gameVars, episodeVars, Resetting
<1>13. CASE ReadFrame
  <2>1. FrameIsRead
    BY <1>13, FrameRead DEF ReadFrame
  <2> QED  BY <1>13, <2>1, RaceConstants DEF FaultlessResets, OpenMenusAreRecovered, RaceTypeOK,
     RacesInOrder, RaceTime, Reached, episodeVars, Resetting, FrameIsRead, ReadFrame
<1>14. CASE ScoreStep
  BY <1>14, RaceConstants DEF FaultlessResets, OpenMenusAreRecovered, RaceTypeOK, RacesInOrder,
     ScoreStep, Scorable, Reached, gameVars, Resetting
<1>15. CASE RefuseStep
  BY <1>15, RaceConstants DEF FaultlessResets, OpenMenusAreRecovered, RaceTypeOK, RacesInOrder,
     RefuseStep, Scorable, Reached, gameVars, Resetting
<1>16. CASE StepTimesOut
  BY <1>16, RaceConstants DEF FaultlessResets, OpenMenusAreRecovered, RaceTypeOK, RacesInOrder,
     StepTimesOut, ReadTimesOut, Untouched, Reached, gameVars, Resetting
<1> QED  BY <1>1, <1>2, <1>3, <1>4, <1>5, <1>6, <1>7, <1>8, <1>9, <1>10, <1>11, <1>12, <1>13,
   <1>14, <1>15, <1>16 DEF RaceNext

\* A step never leaves its race unnoticed.
LEMMA RaceStayStep ==
    ASSUME RaceTypeOK, RacesInOrder, GameFollowed, StepsStayInTheirRace, RaceNext
    PROVE  StepsStayInTheirRace'
<1>1. CASE GameFrame
  BY <1>1, RaceConstants DEF GameFollowed, RaceTypeOK, RacesInOrder, StepsStayInTheirRace,
     GameFrame, episodeVars, Resetting
<1>2. CASE OperatorRestarts
  BY <1>2, RaceConstants DEF GameFollowed, RaceTypeOK, RacesInOrder, StepsStayInTheirRace,
     OperatorRestarts, NewRace, environmentVars, episodeVars, Resetting
<1>3. CASE BeginReset
  BY <1>3, RaceConstants DEF GameFollowed, RaceTypeOK, RacesInOrder, StepsStayInTheirRace,
     BeginReset, gameVars, Resetting
<1>4. CASE ConfirmFinishIfNeeded
  BY <1>4, RaceConstants DEF GameFollowed, RaceTypeOK, RacesInOrder, StepsStayInTheirRace,
     ConfirmFinishIfNeeded, PressConfirm, Ignored, Untouched, episodeVars, Resetting
<1>5. CASE LookForReference
  <2>1. FrameIsRead
    BY <1>5, FrameRead DEF LookForReference
  <2> QED  BY <1>5, <2>1, RaceConstants DEF GameFollowed, RaceTypeOK, RacesInOrder,
     StepsStayInTheirRace, RaceTime, episodeVars, Resetting, FrameIsRead, LookForReference
<1>6. CASE Restart
  BY <1>6, RaceConstants, RestartObserves DEF GameFollowed, RaceTypeOK, RacesInOrder,
     StepsStayInTheirRace, Restart, PressRestart, Ignored, Untouched, NewRace, episodeVars,
     Resetting
<1>7. CASE WaitForActiveRun
  <2>1. WaitEnds
    BY <1>7, WaitObserves
  <2> QED  BY <1>7, <2>1, RaceConstants DEF GameFollowed, RaceTypeOK, RacesInOrder,
     StepsStayInTheirRace, episodeVars, Resetting, FrameIsRead, WaitEnds
<1>8. CASE WaitWithoutFrame
  BY <1>8, RaceConstants DEF GameFollowed, RaceTypeOK, RacesInOrder, StepsStayInTheirRace,
     WaitWithoutFrame, ReadTimesOut, Untouched, episodeVars, Resetting
<1>9. CASE RecoverResetTimeout
  BY <1>9, RaceConstants DEF GameFollowed, RaceTypeOK, RacesInOrder, StepsStayInTheirRace,
     RecoverResetTimeout, PressRestart, Ignored, Untouched, NewRace, Fails, Resetting
<1>10. CASE BeginEpisode
  <2>1. FrameIsRead \/ UNCHANGED <<gameVars, frame>>
    BY <1>10, FrameRead DEF BeginEpisode
  <2>2. /\ call = "ready" /\ call' = "none" /\ finishPending' = FALSE
        /\ last' = frame'.clock /\ playing' = frame'.race
        /\ UNCHANGED <<faults, interval, attempt, previous, observed, waited, reads, scored,
             past, before, blamed>>
    BY <1>10 DEF BeginEpisode
  <2> QED  BY <2>1, <2>2, RaceConstants DEF GameFollowed, RaceTypeOK, RacesInOrder,
     StepsStayInTheirRace, RaceTime, gameVars, Resetting, FrameIsRead
<1>11. CASE ResetRaises
  BY <1>11, RaceConstants DEF GameFollowed, RaceTypeOK, RacesInOrder, StepsStayInTheirRace,
     ResetRaises, ReadTimesOut, Untouched, Fails, Resetting
<1>12. CASE BeginStep
  BY <1>12, RaceConstants DEF GameFollowed, RaceTypeOK, RacesInOrder, StepsStayInTheirRace,
     BeginStep, gameVars, episodeVars, Resetting
<1>13. CASE ReadFrame
  <2>1. FrameIsRead
    BY <1>13, FrameRead DEF ReadFrame
  <2>2. /\ call = "step" /\ call' = "step" /\ reads < MaxReads /\ reads' = reads + 1
        /\ playing' = playing /\ last' = last
    BY <1>13 DEF ReadFrame, episodeVars
  <2>3. ASSUME playing # 0
        PROVE  StepsStayInTheirRace'
    <3>1. reads * MaxSkip \in Nat /\ reads' * MaxSkip = reads * MaxSkip + MaxSkip
            /\ reads * MaxSkip + MaxSkip <= MaxReads * MaxSkip
      BY <2>2, RaceConstants, StepsBound DEF RaceTypeOK
    <3>2. /\ last # Never /\ playing \in Nat /\ last \in Nat /\ race \in Nat /\ clock \in Int
          /\ unread \in 0 .. MaxSkip /\ frame.race \in Nat /\ frame.clock \in Nat /\ reads \in Nat
          /\ frame.race <= race /\ frame.race >= playing
      BY <2>2, <2>3, RaceConstants DEF RaceTypeOK, RacesInOrder, StepsStayInTheirRace
    <3>3. CASE race = playing
      <4>1. frame.race = playing /\ frame.clock <= last + reads * MaxSkip
              /\ clock <= frame.clock + unread
        BY <2>2, <2>3, <3>2, <3>3 DEF StepsStayInTheirRace, GameFollowed
      <4>2. RaceTime <= last + reads' * MaxSkip
        BY <3>1, <3>2, <4>1, RaceConstants DEF RaceTime
      <4> QED  BY <2>1, <2>2, <3>2, <3>3, <4>2 DEF StepsStayInTheirRace, FrameIsRead
    <3>4. CASE race > playing
      <4>1. last > 0 /\ clock <= reads * MaxSkip + unread - Countdown
        BY <2>2, <2>3, <3>2, <3>4 DEF StepsStayInTheirRace
      <4>2. clock <= reads' * MaxSkip - Countdown /\ clock < 0
        BY <3>1, <3>2, <4>1, RaceConstants, RaceAssumption, StepsBound
      <4>3. RaceTime = 0
        BY <3>2, <4>2 DEF RaceTime
      <4>4. clock <= reads' * MaxSkip + 0 - Countdown
        BY <3>1, <3>2, <4>2, RaceConstants, StepsBound
      <4> QED  BY <2>1, <2>2, <3>2, <3>4, <4>1, <4>3, <4>4 DEF StepsStayInTheirRace, FrameIsRead
    <3> QED  BY <3>2, <3>3, <3>4
  <2> QED  BY <2>2, <2>3 DEF StepsStayInTheirRace
<1>14. CASE ScoreStep
  BY <1>14, RaceConstants DEF GameFollowed, RaceTypeOK, RacesInOrder, StepsStayInTheirRace,
     ScoreStep, Scorable, Reached, gameVars, Resetting
<1>15. CASE RefuseStep
  BY <1>15, RaceConstants DEF GameFollowed, RaceTypeOK, RacesInOrder, StepsStayInTheirRace,
     RefuseStep, Scorable, Reached, gameVars, Resetting
<1>16. CASE StepTimesOut
  BY <1>16, RaceConstants DEF GameFollowed, RaceTypeOK, RacesInOrder, StepsStayInTheirRace,
     StepTimesOut, ReadTimesOut, Untouched, Reached, gameVars, Resetting
<1> QED  BY <1>1, <1>2, <1>3, <1>4, <1>5, <1>6, <1>7, <1>8, <1>9, <1>10, <1>11, <1>12, <1>13,
   <1>14, <1>15, <1>16 DEF RaceNext

\* An episode stays one race.
LEMMA RaceEpisodesStep ==
    ASSUME RaceTypeOK, RacesInOrder, ResetsWaitForNewRaces, StepsStayInTheirRace,
           EpisodesAreRaces, RaceNext
    PROVE  EpisodesAreRaces'
<1>1. CASE GameFrame
  BY <1>1, RaceConstants DEF EpisodesAreRaces, RaceTypeOK, RacesInOrder, ResetsWaitForNewRaces,
     StepsStayInTheirRace, GameFrame, episodeVars, Resetting
<1>2. CASE OperatorRestarts
  BY <1>2, RaceConstants DEF EpisodesAreRaces, RaceTypeOK, RacesInOrder, ResetsWaitForNewRaces,
     StepsStayInTheirRace, OperatorRestarts, NewRace, environmentVars, episodeVars, Resetting
<1>3. CASE BeginReset
  BY <1>3, RaceConstants DEF EpisodesAreRaces, RaceTypeOK, RacesInOrder, ResetsWaitForNewRaces,
     StepsStayInTheirRace, BeginReset, gameVars, Resetting
<1>4. CASE ConfirmFinishIfNeeded
  BY <1>4, RaceConstants DEF EpisodesAreRaces, RaceTypeOK, RacesInOrder, ResetsWaitForNewRaces,
     StepsStayInTheirRace, ConfirmFinishIfNeeded, PressConfirm, Ignored, Untouched, episodeVars,
     Resetting
<1>5. CASE LookForReference
  <2>1. FrameIsRead
    BY <1>5, FrameRead DEF LookForReference
  <2> QED  BY <1>5, <2>1, RaceConstants DEF EpisodesAreRaces, RaceTypeOK, RacesInOrder,
     ResetsWaitForNewRaces, StepsStayInTheirRace, RaceTime, episodeVars, Resetting, FrameIsRead,
     LookForReference
<1>6. CASE Restart
  BY <1>6, RaceConstants, RestartObserves DEF EpisodesAreRaces, RaceTypeOK, RacesInOrder,
     ResetsWaitForNewRaces, StepsStayInTheirRace, Restart, PressRestart, Ignored, Untouched,
     NewRace, episodeVars, Resetting
<1>7. CASE WaitForActiveRun
  <2>1. WaitEnds
    BY <1>7, WaitObserves
  <2> QED  BY <1>7, <2>1, RaceConstants DEF EpisodesAreRaces, RaceTypeOK, RacesInOrder,
     ResetsWaitForNewRaces, StepsStayInTheirRace, episodeVars, Resetting, FrameIsRead, WaitEnds
<1>8. CASE WaitWithoutFrame
  BY <1>8, RaceConstants DEF EpisodesAreRaces, RaceTypeOK, RacesInOrder, ResetsWaitForNewRaces,
     StepsStayInTheirRace, WaitWithoutFrame, ReadTimesOut, Untouched, episodeVars, Resetting
<1>9. CASE RecoverResetTimeout
  BY <1>9, RaceConstants DEF EpisodesAreRaces, RaceTypeOK, RacesInOrder, ResetsWaitForNewRaces,
     StepsStayInTheirRace, RecoverResetTimeout, PressRestart, Ignored, Untouched, NewRace, Fails,
     Resetting
<1>10. CASE BeginEpisode
  <2>1. FrameIsRead \/ UNCHANGED <<gameVars, frame>>
    BY <1>10, FrameRead DEF BeginEpisode
  <2>2. /\ call = "ready" /\ call' = "none" /\ finishPending' = FALSE
        /\ last' = frame'.clock /\ playing' = frame'.race
        /\ UNCHANGED <<faults, interval, attempt, previous, observed, waited, reads, scored,
             past, before, blamed>>
    BY <1>10 DEF BeginEpisode
  <2> QED  BY <2>1, <2>2, RaceConstants DEF EpisodesAreRaces, RaceTypeOK, RacesInOrder,
     ResetsWaitForNewRaces, StepsStayInTheirRace, RaceTime, gameVars, Resetting, FrameIsRead
<1>11. CASE ResetRaises
  BY <1>11, RaceConstants DEF EpisodesAreRaces, RaceTypeOK, RacesInOrder, ResetsWaitForNewRaces,
     StepsStayInTheirRace, ResetRaises, ReadTimesOut, Untouched, Fails, Resetting
<1>12. CASE BeginStep
  BY <1>12, RaceConstants DEF EpisodesAreRaces, RaceTypeOK, RacesInOrder, ResetsWaitForNewRaces,
     StepsStayInTheirRace, BeginStep, gameVars, episodeVars, Resetting
<1>13. CASE ReadFrame
  <2>1. FrameIsRead
    BY <1>13, FrameRead DEF ReadFrame
  <2> QED  BY <1>13, <2>1, RaceConstants DEF EpisodesAreRaces, RaceTypeOK, RacesInOrder,
     ResetsWaitForNewRaces, StepsStayInTheirRace, RaceTime, Reached, episodeVars, Resetting,
     FrameIsRead, ReadFrame
<1>14. CASE ScoreStep
  BY <1>14, RaceConstants DEF EpisodesAreRaces, RaceTypeOK, RacesInOrder, ResetsWaitForNewRaces,
     StepsStayInTheirRace, ScoreStep, Scorable, Reached, gameVars, Resetting
<1>15. CASE RefuseStep
  BY <1>15, RaceConstants DEF EpisodesAreRaces, RaceTypeOK, RacesInOrder, ResetsWaitForNewRaces,
     StepsStayInTheirRace, RefuseStep, Scorable, Reached, gameVars, Resetting
<1>16. CASE StepTimesOut
  BY <1>16, RaceConstants DEF EpisodesAreRaces, RaceTypeOK, RacesInOrder, ResetsWaitForNewRaces,
     StepsStayInTheirRace, StepTimesOut, ReadTimesOut, Untouched, Reached, gameVars, Resetting
<1> QED  BY <1>1, <1>2, <1>3, <1>4, <1>5, <1>6, <1>7, <1>8, <1>9, <1>10, <1>11, <1>12, <1>13,
   <1>14, <1>15, <1>16 DEF RaceNext

\* The inductive invariant of the environment holds of every behavior.
THEOREM RaceInductive == RaceSpec => []RaceInv
<1>1. RaceInit => RaceInv
  <2> SUFFICES ASSUME RaceInit PROVE RaceInv
    OBVIOUS
  <2>1. RaceTypeOK
    <3>1. frame \in [race : Nat, clock : Nat, finish : BOOLEAN]
      BY DEF RaceInit
    <3>2. /\ race \in 1 .. MaxRaces /\ clock \in -Countdown .. MaxClock
          /\ unread \in 0 .. MaxSkip /\ faults \in 0 .. MaxFaults /\ reads \in 0 .. MaxReads
          /\ waited \in Nat /\ playing \in Nat /\ scored \in Nat /\ past \in Nat /\ before \in Nat
      BY RaceConstants DEF RaceInit
    <3> QED  BY <3>1, <3>2 DEF RaceInit, RaceTypeOK
  <2>2. frame.race = 0
    BY DEF RaceInit
  <2>3. RacesInOrder /\ ResetsWaitForNewRaces /\ ResetsRecover
    BY <2>2, RaceConstants DEF RaceInit, RacesInOrder, Resetting, ResetsWaitForNewRaces,
       ResetsRecover
  <2>4. GameFollowed /\ StepsStayInTheirRace
    BY DEF RaceInit, GameFollowed, StepsStayInTheirRace
  <2>5. FaultlessResets /\ EpisodesAreSound
    BY DEF RaceInit, FaultlessResets, EpisodesAreSound, EpisodesAreRaces, OpenMenusAreRecovered
  <2> QED  BY <2>1, <2>3, <2>4, <2>5 DEF RaceInv
<1>2. RaceInv /\ [RaceNext]_raceVars => RaceInv'
  <2> SUFFICES ASSUME RaceInv, [RaceNext]_raceVars PROVE RaceInv'
    OBVIOUS
  <2>1. CASE RaceNext
    <3>1. before <= faults
      BY DEF RaceInv, RacesInOrder
    <3>2. RaceTypeOK' /\ RacesInOrder' /\ ResetsWaitForNewRaces' /\ GameFollowed'
            /\ ResetsRecover'
      BY <2>1, <3>1, RaceTypesStep, RaceOrderStep, RaceWaitsStep, RaceFollowedStep,
         RaceRecoverStep
         DEF RaceInv
    <3>3. FaultlessResets' /\ StepsStayInTheirRace'
      BY <2>1, RaceFaultlessStep, RaceStayStep DEF RaceInv
    <3>4. EpisodesAreRaces' /\ OpenMenusAreRecovered'
      BY <2>1, RaceEpisodesStep, RaceBlameStep DEF RaceInv, EpisodesAreSound
    <3> QED  BY <3>2, <3>3, <3>4 DEF RaceInv, EpisodesAreSound
  <2>2. CASE UNCHANGED raceVars
    <3>1. RaceTypeOK' /\ RacesInOrder' /\ ResetsWaitForNewRaces' /\ ResetsRecover'
      BY <2>2 DEF RaceInv, raceVars, gameVars, environmentVars, episodeVars, RaceTypeOK,
         RacesInOrder,
         ResetsWaitForNewRaces, ResetsRecover, RaceTime, Resetting
    <3>2. GameFollowed' /\ StepsStayInTheirRace'
      BY <2>2 DEF RaceInv, raceVars, gameVars, environmentVars, episodeVars, GameFollowed,
         StepsStayInTheirRace
    <3>3. FaultlessResets' /\ EpisodesAreSound'
      BY <2>2 DEF RaceInv, raceVars, gameVars, environmentVars, episodeVars, FaultlessResets,
         RaceStarts, EpisodesAreSound, EpisodesAreRaces, OpenMenusAreRecovered
    <3> QED  BY <3>1, <3>2, <3>3 DEF RaceInv
  <2> QED  BY <2>1, <2>2
<1> QED  BY <1>1, <1>2, PTL DEF RaceSpec

\* An episode is one race, later than the episode before, and an open finish menu never fails
\* a reset, for any countdown, timeouts and bounds (trackmania/environment.py).
THEOREM RaceEpisodesSound == RaceSpec => []EpisodesAreSound
<1>1. RaceInv => EpisodesAreSound
  BY DEF RaceInv
<1> QED  BY <1>1, RaceInductive, PTL

-----------------------------------------------------------------------------
(* The trajectory reward.                                                      *)

\* What is assumed of the trajectory and the constants of the reward.
LEMMA RewardConstants ==
    /\ Last \in Nat \ {0} /\ Place \in [Point -> Int] /\ Position \subseteq Int
    /\ Travelled \in [Point -> Nat] /\ Travelled[0] = 0 /\ ReferenceTime \in [Point -> Nat]
    /\ CrashDistance \in Nat /\ Forward \in Nat \ {0} /\ Backward \in Nat
    /\ FinishPercent \in Nat /\ FinishPercent <= 100
    /\ SlowWindow \in Nat \ {0, 1} /\ MaxSpeed \in Nat /\ MaxTimeDelta \in Nat
    /\ Cooldown \in Nat /\ DebtClip \in Nat \ {0} /\ GammaNum \in Nat /\ GammaDen \in Nat
    /\ MaxTime \in Nat
  BY RewardAssumption

\* Points are numbers with places and times.
LEMMA PointsAre ==
    /\ \A i \in Point : i \in Nat /\ i <= Last
    /\ 0 \in Point /\ Last \in Point
    /\ \A i \in Point : Travelled[i] \in Nat /\ ReferenceTime[i] \in Nat /\ Place[i] \in Int
  BY RewardConstants DEF Point

\* A distance is a natural number.
LEMMA DistanceType ==
    ASSUME NEW a \in Int, NEW b \in Int PROVE Distance(a, b) \in Nat
  BY DEF Distance

\* The nearest of some points is one of them.
LEMMA NearestExists ==
    ASSUME NEW points \in SUBSET Point, points # {}, NEW place \in Int
    PROVE  NearestAmong(points, place) \in points
<1> DEFINE far(n) == Distance(Place[n], place)
           Ds == {far(n) : n \in points}
<1>1. \A n \in points : far(n) \in Nat /\ n \in Nat
  BY PointsAre, DistanceType
<1> HIDE DEF far
<1>2. PICK d \in Ds : \A e \in Ds : d <= e
  <2>1. Ds \in SUBSET Nat /\ Ds # {}
    BY <1>1
  <2> HIDE DEF Ds
  <2> QED  BY <2>1, LeastExists
<1> DEFINE Close == {n \in points : far(n) = d}
<1>3. PICK n \in Close : \A m \in Close : n <= m
  <2>1. Close \in SUBSET Nat /\ Close # {}
    BY <1>1, <1>2
  <2> HIDE DEF Close
  <2> QED  BY <2>1, LeastExists
<1>4. ASSUME NEW m \in points
      PROVE  far(n) < far(m) \/ (far(n) = far(m) /\ n <= m)
  <2>1. far(n) = d /\ d <= far(m) /\ far(m) \in Nat /\ d \in Nat
    BY <1>1, <1>2, <1>3
  <2> QED  BY <1>3, <2>1
<1>5. \E x \in points : \A m \in points :
        \/ Distance(Place[x], place) < Distance(Place[m], place)
        \/ Distance(Place[x], place) = Distance(Place[m], place) /\ x <= m
  BY <1>3, <1>4 DEF far
<1> QED  BY <1>5 DEF NearestAmong

\* The nearest point is a point.
LEMMA NearestType ==
    ASSUME NEW i \in Point, NEW place \in Position
    PROVE  Nearest[<<i, place>>] \in Point
<1>1. Nearby(i) \subseteq Point /\ Nearby(i) # {}
  <2>1. i \in Nat /\ i <= Last /\ Last \in Nat
    BY RewardConstants, PointsAre
  <2>2. i \in Nearby(i)
    BY <2>1, RewardConstants DEF Nearby, Greatest, Least
  <2>3. \A n \in Nearby(i) : n \in Point
    BY <2>1, RewardConstants DEF Nearby, Greatest, Least, Point
  <2> QED  BY <2>2, <2>3
<1>2. place \in Int
  BY RewardConstants
<1>3. NearestAmong(Nearby(i), place) \in Nearby(i)
  BY <1>1, <1>2, NearestExists
<1>4. Nearest[<<i, place>>] = NearestAmong(Nearby(i), place)
  BY DEF Nearest
<1> QED  BY <1>1, <1>3, <1>4

\* The distance travelled only grows along the line.
LEMMA TravelledGrows ==
    ASSUME NEW i \in Point, NEW j \in Point, i <= j
    PROVE  Travelled[i] <= Travelled[j]
<1> DEFINE S == {n \in Nat : i + n > Last \/ Travelled[i] <= Travelled[i + n]}
<1>1. 0 \in S
  BY PointsAre
<1>2. ASSUME NEW n \in Nat, n \in S
      PROVE  n + 1 \in S
  <2> SUFFICES ASSUME i + (n + 1) <= Last
               PROVE  Travelled[i] <= Travelled[i + (n + 1)]
    BY PointsAre, RewardConstants
  <2>1. i + n \in Point /\ i + (n + 1) \in Point /\ i + (n + 1) \in 1 .. Last
          /\ i + (n + 1) - 1 = i + n
    BY PointsAre, RewardConstants DEF Point
  <2>2. Travelled[i] <= Travelled[i + n]
    BY <1>2, <2>1, PointsAre
  <2>3. Travelled[i + (n + 1)] = Travelled[i + n] + Distance(Place[i + (n + 1)], Place[i + n])
    <3>1. \A k \in 1 .. Last : Travelled[k] = Travelled[k - 1] + Distance(Place[k], Place[k - 1])
      BY RewardAssumption
    <3> DEFINE k == i + (n + 1)
               h == i + n
    <3>2. k \in 1 .. Last /\ k - 1 = h
      BY <2>1, PointsAre, RewardConstants
    <3> HIDE DEF k, h
    <3>3. Travelled[k] = Travelled[h] + Distance(Place[k], Place[h])
      BY <3>1, <3>2
    <3> QED  BY <3>3 DEF k, h
  <2>4. Distance(Place[i + (n + 1)], Place[i + n]) \in Nat
    BY <2>1, PointsAre, DistanceType
  <2> QED  BY <2>1, <2>2, <2>3, <2>4, PointsAre
<1>3. Nat \subseteq S
  <2> HIDE DEF S
  <2> QED  BY <1>1, <1>2, SetInduction
<1>4. j - i \in Nat /\ i + (j - i) = j /\ j <= Last
  BY PointsAre
<1>5. i + (j - i) > Last \/ Travelled[i] <= Travelled[i + (j - i)]
  <2> DEFINE n == j - i
  <2> HIDE DEF n
  <2>1. n \in Nat
    BY <1>4 DEF n
  <2>2. i + n > Last \/ Travelled[i] <= Travelled[i + n]
    BY <1>3, <2>1
  <2> QED  BY <2>2 DEF n
<1>6. Travelled[i + (j - i)] = Travelled[j] /\ ~(i + (j - i) > Last)
  BY <1>4, RewardConstants, PointsAre
<1> QED  BY <1>5, <1>6

\* The reachable point is the last one within the distance.
LEMMA ReachableType ==
    ASSUME NEW d \in Nat
    PROVE  ReachableIndex(d) \in Point /\ Travelled[ReachableIndex(d)] <= d
<1> DEFINE S == {i \in Point : Travelled[i] <= d}
<1>1. S \in SUBSET Nat /\ 0 \in S /\ (\A i \in S : i <= Last) /\ Last \in Nat
  <2>1. Last \in Nat /\ \A i \in Point : i \in Nat /\ i <= Last
    BY RewardConstants, PointsAre
  <2>2. 0 \in Point /\ Travelled[0] = 0
    BY RewardConstants, PointsAre
  <2> QED  BY <2>1, <2>2
<1>2. Max(S) \in S
  <2> HIDE DEF S
  <2> QED  BY <1>1, MaxExists
<1> QED  BY <1>2 DEF ReachableIndex

-----------------------------------------------------------------------------
StartOK == start \in [index : Point, time : Nat, debt : Int]
HistoryOK ==
    /\ progressHistory \in Seq(Nat \X Nat) /\ Len(progressHistory) <= SlowWindow + 1
    /\ Len(progressHistory) <= step
    /\ \A k \in 1 .. Len(progressHistory) :
         progressHistory[k][1] = step - Len(progressHistory) + k
TermsOK ==
    /\ paid \in Int /\ shaped \in Int /\ paced \in Int /\ moved \in Nat /\ penalties \in Nat
    /\ weight \in Int \X Int
DrivenInv ==
    /\ start.time <= raceTime
    /\ reachable <= Travelled[start.index] + moved
    /\ reachable <= Travelled[start.index] + MaxSpeed * (raceTime - start.time)
    /\ limited => IF reason = "finished" THEN 100 * reachable >= FinishPercent * Travelled[Last]
                                         ELSE Travelled[index] <= reachable
CollisionsInv ==
    /\ penalizedAt <= raceTime
    /\ IF penalizedAt < 0 THEN penalties = 0
       ELSE penalties > 0 /\ (penalties - 1) * Cooldown <= penalizedAt - start.time
RewardInv ==
    /\ RewardTypeOK /\ StartOK /\ HistoryOK /\ TermsOK
    /\ ProgressIsPaidOnce /\ ShapingTelescopes /\ DrivenInv /\ CollisionsInv

\* The smaller of two numbers.
LEMMA LeastIs == ASSUME NEW a \in Int, NEW b \in Int
                 PROVE  Least(a, b) \in {a, b} /\ Least(a, b) <= a /\ Least(a, b) <= b
  BY DEF Least

\* The greater of two numbers.
LEMMA GreatestIs == ASSUME NEW a \in Int, NEW b \in Int
                    PROVE  Greatest(a, b) \in {a, b} /\ Greatest(a, b) >= a /\ Greatest(a, b) >= b
  BY DEF Greatest

\* A time debt is clipped.
LEMMA DebtType ==
    ASSUME NEW i \in Point, NEW time \in Nat, NEW why
    PROVE  TimeDebt(i, time, why) \in -DebtClip .. DebtClip
<1> DEFINE value == time - (IF why = "finished" THEN ReferenceTime[Last] ELSE ReferenceTime[i])
<1>1. value \in Int
  BY PointsAre
<1> HIDE DEF value
<1>2. Clipped(value) \in -DebtClip .. DebtClip
  BY <1>1, RewardConstants DEF Clipped, Greatest, Least
<1> QED  BY <1>2 DEF TimeDebt, value

\* A car moves no further than it was seen to, and no faster than its cap.
LEMMA MotionType ==
    ASSUME RewardTypeOK, NEW place \in Position, NEW time \in Nat, time >= raceTime
    PROVE  /\ Motion(place, time) \in Nat /\ Motion(place, time) <= Distance(place, position)
           /\ Distance(place, position) \in Nat
           /\ Motion(place, time) <= MaxSpeed * (time - raceTime)
<1>1. raceTime \in Nat /\ position \in Int /\ place \in Int
  BY RewardConstants DEF RewardTypeOK
<1>2. Elapsed(time) \in Nat /\ Elapsed(time) <= time - raceTime
  BY <1>1, RewardConstants DEF Elapsed, Least
<1>3. \A a, b, c \in Nat : b <= c => a * b <= a * c /\ a * b \in Nat
  OBVIOUS
<1>4. /\ MaxSpeed * Elapsed(time) \in Nat
      /\ MaxSpeed * Elapsed(time) <= MaxSpeed * (time - raceTime)
  BY <1>1, <1>2, <1>3, RewardConstants
<1>5. Distance(place, position) \in Nat
  BY <1>1, DistanceType
<1> DEFINE d == Distance(place, position)
           m == MaxSpeed * Elapsed(time)
<1>6. Least(d, m) \in Nat /\ Least(d, m) <= d /\ Least(d, m) <= m
  <2> HIDE DEF d, m
  <2> QED  BY <1>4, <1>5 DEF Least, d, m
<1>7. MaxSpeed * (time - raceTime) \in Int
  BY <1>1, RewardConstants
<1> QED  BY <1>4, <1>5, <1>6, <1>7 DEF Motion

\* The index only advances, along the line, and when limited by what the car can have moved.
LEMMA AdvancedType ==
    ASSUME RewardTypeOK, NEW place \in Position, NEW time \in Nat, time >= raceTime,
           limited => Travelled[index] <= reachable
    PROVE  /\ Advanced(place, time) \in Point /\ Advanced(place, time) >= index
           /\ ~OnTrack(place) => Advanced(place, time) = index
           /\ limited => Travelled[Advanced(place, time)] <= reachable + Motion(place, time)
<1> DEFINE d == reachable + Motion(place, time)
           near == Nearest[<<index, place>>]
           r == ReachableIndex(d)
           far == Greatest(r, index)
           to == Least(near, far)
<1>1. index \in Point /\ reachable \in Nat /\ d \in Nat /\ reachable <= d
  BY MotionType DEF RewardTypeOK
<1> HIDE DEF d
<1>2. near \in Point /\ r \in Point /\ Travelled[r] <= d
  BY <1>1, NearestType, ReachableType
<1> HIDE DEF near, r
<1>3. far \in Point /\ (Travelled[index] <= d => Travelled[far] <= d)
  BY <1>1, <1>2, PointsAre DEF Greatest
<1> HIDE DEF far
<1>4. to \in Point /\ to <= far
  BY <1>2, <1>3, PointsAre DEF Least
<1>5. Travelled[index] <= d => Travelled[to] <= d
  BY <1>1, <1>3, <1>4, TravelledGrows, PointsAre
<1> HIDE DEF to
<1>6. /\ Greatest(index, to) \in Point /\ Greatest(index, to) >= index
      /\ Travelled[index] <= d => Travelled[Greatest(index, to)] <= d
  BY <1>1, <1>4, <1>5, PointsAre DEF Greatest
<1>7. Greatest(index, near) \in Point /\ Greatest(index, near) >= index
  BY <1>1, <1>2, PointsAre DEF Greatest
<1>8. Advanced(place, time) = IF ~OnTrack(place) THEN index
                              ELSE Greatest(index, IF limited THEN to ELSE near)
  BY DEF Advanced, BoundedAdvance, to, far, near, r, d
<1>9. (limited => Travelled[index] <= d) /\ index >= index
  BY <1>1, PointsAre
<1> HIDE DEF to, near
<1>10. CASE ~OnTrack(place)
  BY <1>1, <1>8, <1>9, <1>10 DEF d
<1>11. CASE OnTrack(place) /\ limited
  BY <1>6, <1>8, <1>9, <1>11 DEF d
<1>12. CASE OnTrack(place) /\ ~limited
  BY <1>7, <1>8, <1>12
<1> QED  BY <1>10, <1>11, <1>12

\* A scored step, by what it depends on.
IndexReached(place, time) == Advanced(place, time)
StepReason(place, time, ui) ==
    LET reached == Advanced(place, time)
    IN TerminalReason(reached, place, time, ui,
                      IF reached > index THEN step + 1 ELSE lastProgress, Remembered(reached))

\* Why a step ends an episode: off the track before anything else, then a finish.
LEMMA ReasonIs ==
    ASSUME NEW place, NEW time, NEW ui \in BOOLEAN
    PROVE  /\ StepReason(place, time, ui) \in {"running", "off_track", "finished", "time_limit",
                                         "no_progress", "slow_progress"}
           /\ StepReason(place, time, ui) = "finished"
                <=> ValidFinish(IndexReached(place, time), place, ui)
           /\ StepReason(place, time, ui) \notin {"finished", "off_track"} => OnTrack(place)
           /\ StepReason(place, time, ui) = "off_track" => ~OnTrack(place)
<1> DEFINE reached == Advanced(place, time)
           f == ValidFinish(reached, place, ui)
           o == OnTrack(place)
<1>1. f => o
  BY DEF ValidFinish
<1>2. CASE ~o
  <2>1. StepReason(place, time, ui) = "off_track"
    BY <1>2 DEF StepReason, TerminalReason
  <2> QED  BY <1>1, <1>2, <2>1 DEF IndexReached
<1>3. CASE o /\ f
  <2>1. StepReason(place, time, ui) = "finished"
    BY <1>3 DEF StepReason, TerminalReason
  <2> QED  BY <1>3, <2>1 DEF IndexReached
<1>4. CASE o /\ ~f
  <2>1. StepReason(place, time, ui) \in {"time_limit", "no_progress", "slow_progress", "running"}
    BY <1>4 DEF StepReason, TerminalReason
  <2> QED  BY <1>4, <2>1 DEF IndexReached
<1> QED  BY <1>2, <1>3, <1>4

\* What a scored step changes.
LEMMA ScoreIs ==
    ASSUME NEW place, NEW time, NEW ui, NEW collision, Score(place, time, ui, collision)
    PROVE  LET to == IndexReached(place, time)
               why == StepReason(place, time, ui)
               valid == ValidFinish(to, place, ui)
               ended == why # "running"
           IN /\ reason = "running" /\ time >= raceTime /\ reason' = why
              /\ index' = IF valid THEN Last ELSE to
              /\ step' = step + 1
                   /\ lastProgress' = (IF to > index THEN step + 1 ELSE lastProgress)
              /\ progressHistory' = Remembered(to)
              /\ position' = place /\ raceTime' = time /\ start' = start
              /\ reachable' = IF limited /\ OnTrack(place) THEN reachable + Motion(place, time)
                                                            ELSE reachable
              /\ limited' = limited
              /\ paid' = paid + (Travelled[to] - Travelled[index])
                              + (IF valid THEN Travelled[Last] - Travelled[to] ELSE 0)
              /\ weight' = <<GammaNum * weight[1], GammaDen * weight[2]>>
              /\ shaped' = DiscountedSum(shaped, Travelled[index], Travelled[index'], ended)
              /\ debt' = TimeDebt(index', time, why)
              /\ paced' = DiscountedSum(paced, -debt, -debt', ended)
              /\ moved' = moved + Distance(place, position)
              /\ ApplyCollision(collision, time)
  BY DEF Score, IndexReached, StepReason

\* A reset starts an episode.
LEMMA RewardResets ==
    ASSUME RewardInv, NEW place \in Position, NEW time \in 1 .. MaxTime,
           ResetReward(place, time)
    PROVE  RewardInv'
<1>1. time \in Nat /\ place \in Int
  BY RewardConstants
<1>2. index' \in Point
  BY NearestType, PointsAre DEF ResetReward
<1>3. debt' \in -DebtClip .. DebtClip /\ -DebtClip .. DebtClip \subseteq Int
  BY <1>1, <1>2, DebtType, RewardConstants DEF ResetReward
<1>4. Travelled[index'] \in Nat /\ index' \in Nat
  BY <1>2, PointsAre
<1>5. <<>> \in Seq(Nat \X Nat) /\ Len(<<>>) = 0
  OBVIOUS
<1>6. RewardTypeOK'
  <2>1. /\ step' = 0 /\ lastProgress' = 0 /\ progressHistory' = <<>> /\ position' = place
        /\ reachable' = Travelled[index'] /\ raceTime' = time /\ penalizedAt' = -1
             /\ reason' = "running"
    BY DEF ResetReward
  <2>2. step' \in Nat /\ lastProgress' \in 0 .. step' /\ reachable' \in Nat
    BY <1>4, <2>1
  <2>3. progressHistory' \in Seq(Nat \X Nat) /\ Len(progressHistory') <= SlowWindow + 1
    BY <1>5, <2>1, RewardConstants
  <2>4. limited' \in BOOLEAN
    BY DEF ResetReward, RewardInv, RewardTypeOK
  <2> QED  BY <1>1, <1>2, <1>3, <2>1, <2>2, <2>3, <2>4 DEF RewardTypeOK
<1>7. start' = [index |-> index', time |-> time, debt |-> debt']
  BY DEF ResetReward
<1>8. StartOK'
  <2>1. debt' \in Int
    BY <1>3
  <2> QED  BY <1>1, <1>2, <1>7, <2>1 DEF StartOK
<1>9. HistoryOK'
  BY <1>5, RewardConstants DEF ResetReward, HistoryOK
<1>10. TermsOK' /\ ProgressIsPaidOnce'
  BY <1>4, <1>7 DEF ResetReward, TermsOK, ProgressIsPaidOnce
<1>11. ShapingTelescopes'
  <2>1. weight'[1] = 1 /\ weight'[2] = 1 /\ shaped' = 0 /\ paced' = 0 /\ reason' = "running"
    BY DEF ResetReward
  <2>2. start'.index = index' /\ start'.debt = debt' /\ debt' \in Int
    BY <1>3, <1>7
  <2> DEFINE x == Travelled[index']
             y == debt'
  <2>3. x \in Int /\ y \in Int
    BY <1>4, <2>2
  <2> HIDE DEF x, y
  <2>4. 0 = 1 * x - 1 * x /\ 0 = 1 * y - 1 * y
    BY <2>3
  <2>5. shaped' = 1 * Travelled[index'] - weight'[2] * Travelled[start'.index]
    BY <2>1, <2>2, <2>4 DEF x
  <2>6. paced' = weight'[2] * start'.debt - 1 * debt'
    BY <2>1, <2>2, <2>4 DEF y
  <2> QED  BY <2>1, <2>5, <2>6 DEF ShapingTelescopes
<1>12. DrivenInv'
  <2>1. start'.index = index' /\ start'.time = time
    BY <1>7
  <2>2. reachable' = Travelled[index'] /\ moved' = 0 /\ raceTime' = time /\ reason' = "running"
    BY DEF ResetReward
  <2>3. MaxSpeed * (time - time) = 0
    BY <1>1, RewardConstants
  <2> QED  BY <1>1, <1>4, <2>1, <2>2, <2>3 DEF DrivenInv
<1>13. CollisionsInv'
  BY <1>1 DEF ResetReward, CollisionsInv
<1> QED  BY <1>6, <1>8, <1>9, <1>10, <1>11, <1>12, <1>13 DEF RewardInv

\* A sequence without its first entry.
LEMMA TailIs ==
    ASSUME NEW S, NEW s \in Seq(S), NEW n \in Nat, Len(s) = n + 1
    PROVE  /\ Tail(s) \in Seq(S) /\ Len(Tail(s)) = n
           /\ \A k \in 1 .. n : Tail(s)[k] = s[k + 1]
  OBVIOUS

\* The history holds consecutive steps, and no more than the window.
LEMMA RememberedIs ==
    ASSUME HistoryOK, step \in Nat, NEW i \in Point
    PROVE  LET h == Remembered(i)
           IN /\ h \in Seq(Nat \X Nat) /\ Len(h) <= SlowWindow + 1 /\ Len(h) <= step + 1
              /\ \A k \in 1 .. Len(h) : h[k][1] = step + 1 - Len(h) + k
<1> DEFINE entry == <<step + 1, Travelled[i]>>
           all == Append(progressHistory, entry)
           n == Len(progressHistory)
<1>1. entry \in Nat \X Nat /\ entry[1] = step + 1
  BY PointsAre
<1>2. progressHistory \in Seq(Nat \X Nat) /\ n \in Nat /\ n <= SlowWindow + 1 /\ n <= step
  BY DEF HistoryOK
<1> HIDE DEF entry
<1>3. /\ all \in Seq(Nat \X Nat) /\ Len(all) = n + 1
      /\ \A k \in 1 .. n : all[k] = progressHistory[k]
      /\ all[n + 1] = entry
  BY <1>1, <1>2
<1> HIDE DEF all
<1>4. \A k \in 1 .. n + 1 : all[k][1] = step - n + k
  <2>1. \A k \in 1 .. n : progressHistory[k][1] = step - n + k
    BY DEF HistoryOK
  <2> HIDE DEF n
  <2>2. ASSUME NEW k \in 1 .. n + 1 PROVE all[k][1] = step - n + k
    <3>1. CASE k = n + 1
      BY <1>1, <1>2, <1>3, <3>1
    <3>2. CASE k # n + 1
      <4>1. k \in 1 .. n
        BY <1>2, <3>2
      <4> QED  BY <1>3, <2>1, <4>1
    <3> QED  BY <3>1, <3>2
  <2> QED  BY <2>2
<1> HIDE DEF n
<1>5. all[1][1] = step - n + 1
  BY <1>2, <1>4
<1>6. Remembered(i) = IF step + 1 - all[1][1] > SlowWindow THEN Tail(all) ELSE all
  BY DEF Remembered, all, entry
<1>7. CASE n > SlowWindow
  <2>1. Remembered(i) = Tail(all)
    BY <1>2, <1>5, <1>6, <1>7, RewardConstants
  <2>2. /\ Tail(all) \in Seq(Nat \X Nat) /\ Len(Tail(all)) = n
        /\ \A k \in 1 .. n : Tail(all)[k] = all[k + 1]
    BY <1>2, <1>3, TailIs
  <2>3. ASSUME NEW k \in 1 .. n PROVE Tail(all)[k][1] = step + 1 - n + k
    <3>1. k + 1 \in 1 .. n + 1 /\ step - n + (k + 1) = step + 1 - n + k
      BY <1>2
    <3> QED  BY <1>4, <2>2, <3>1
  <2>4. n <= SlowWindow + 1 /\ n <= step + 1
    BY <1>2, RewardConstants
  <2> DEFINE t == Tail(all)
  <2> HIDE DEF t
  <2>5. /\ t \in Seq(Nat \X Nat) /\ Len(t) = n /\ \A k \in 1 .. n : t[k][1] = step + 1 - n + k
    BY <2>2, <2>3 DEF t
  <2>6. Remembered(i) = t
    BY <2>1 DEF t
  <2> QED  BY <2>4, <2>5, <2>6
<1>8. CASE n <= SlowWindow
  <2>1. Remembered(i) = all
    BY <1>2, <1>5, <1>6, <1>8, RewardConstants
  <2>2. \A k \in 1 .. n + 1 : all[k][1] = step + 1 - (n + 1) + k
    BY <1>2, <1>4
  <2>3. n + 1 <= SlowWindow + 1 /\ n + 1 <= step + 1
    BY <1>2, <1>8, RewardConstants
  <2>4. Len(all) = n + 1 /\ all \in Seq(Nat \X Nat)
    BY <1>3
  <2> QED  BY <2>1, <2>2, <2>3, <2>4
<1> QED  BY <1>2, <1>7, <1>8, RewardConstants

\* The discounted sums, as numbers.
LEMMA Telescopes ==
    ASSUME NEW G \in Int, NEW D \in Int, NEW p \in Int, NEW q \in Int, NEW old \in Int,
           NEW new \in Int, NEW first \in Int
    PROVE  /\ D * (p * old - q * first) + p * (G * new - D * old)
                = (G * p) * new - (D * q) * first
           /\ D * (p * old - q * first) + p * (-D * old) = 0 * new - (D * q) * first
<1>1. D * (p * old - q * first) = D * (p * old) - D * (q * first)
  OBVIOUS
<1>2. p * (G * new - D * old) = p * (G * new) - p * (D * old)
  OBVIOUS
<1>3. p * (-D * old) = - (p * (D * old))
  OBVIOUS
<1>4. D * (p * old) = p * (D * old) /\ p * (G * new) = (G * p) * new
        /\ D * (q * first) = (D * q) * first
  OBVIOUS
<1> QED  BY <1>1, <1>2, <1>3, <1>4

\* The same for a potential that falls.
LEMMA TelescopesDown ==
    ASSUME NEW G \in Int, NEW D \in Int, NEW p \in Int, NEW q \in Int, NEW old \in Int,
           NEW new \in Int, NEW first \in Int
    PROVE  /\ D * (q * first - p * old) + p * (G * (-new) - D * (-old))
                = (D * q) * first - (G * p) * new
           /\ D * (q * first - p * old) + p * (-D * (-old)) = (D * q) * first - 0 * new
<1>1. D * (q * first - p * old) = D * (q * first) - D * (p * old)
  OBVIOUS
<1>2. p * (G * (-new) - D * (-old)) = p * (D * old) - p * (G * new)
  <2> DEFINE a == G * new
             b == D * old
  <2>1. a \in Int /\ b \in Int /\ G * (-new) = -a /\ D * (-old) = -b
    OBVIOUS
  <2> HIDE DEF a, b
  <2>2. p * ((-a) - (-b)) = p * b - p * a
    BY <2>1
  <2> QED  BY <2>1, <2>2 DEF a, b
<1>3. p * (-D * (-old)) = p * (D * old)
  <2>1. -D * (-old) = D * old
    OBVIOUS
  <2> QED  BY <2>1
<1>4. D * (p * old) = p * (D * old) /\ p * (G * new) = (G * p) * new
        /\ D * (q * first) = (D * q) * first
  OBVIOUS
<1>5. 0 * new = 0 /\ D * (p * old) \in Int /\ p * (G * new) \in Int /\ D * (q * first) \in Int
  OBVIOUS
<1> QED  BY <1>1, <1>2, <1>3, <1>4, <1>5

\* A scored step keeps the types, and what it reaches is reachable.
LEMMA ScoreTypes ==
    ASSUME RewardInv, NEW place \in Position, NEW time \in 1 .. MaxTime,
           NEW ui \in BOOLEAN, NEW collision \in BOOLEAN, Score(place, time, ui, collision)
    PROVE  /\ time \in Nat /\ place \in Int /\ IndexReached(place, time) \in Point
           /\ IndexReached(place, time) >= index
           /\ limited => Travelled[IndexReached(place, time)] <= reachable'
           /\ RewardTypeOK' /\ StartOK' /\ HistoryOK' /\ TermsOK'
<1>1. time \in Nat /\ place \in Int
  BY RewardConstants
<1>2. /\ RewardTypeOK /\ StartOK /\ HistoryOK /\ TermsOK /\ DrivenInv /\ CollisionsInv
  BY DEF RewardInv
<1>3. reason = "running" /\ time >= raceTime
  BY ScoreIs
<1>4. limited => Travelled[index] <= reachable
  BY <1>2, <1>3 DEF DrivenInv
<1> DEFINE to == IndexReached(place, time)
<1>5. /\ to \in Point /\ to >= index /\ (~OnTrack(place) => to = index)
      /\ limited => Travelled[to] <= reachable + Motion(place, time)
  BY <1>1, <1>2, <1>3, <1>4, AdvancedType DEF IndexReached
<1>6. Motion(place, time) \in Nat /\ Distance(place, position) \in Nat
  BY <1>1, <1>2, <1>3, MotionType
<1>7. /\ limited' = limited
      /\ reachable' = IF limited /\ OnTrack(place) THEN reachable + Motion(place, time)
                                                    ELSE reachable
  BY ScoreIs
<1>8. reachable' \in Nat /\ (limited => Travelled[to] <= reachable')
  BY <1>2, <1>4, <1>5, <1>6, <1>7 DEF RewardTypeOK
<1>9. index' \in Point
  BY <1>5, ScoreIs, PointsAre
<1>10. step' = step + 1 /\ lastProgress' = (IF to > index THEN step + 1 ELSE lastProgress)
  BY ScoreIs
<1>11. step' \in Nat /\ lastProgress' \in 0 .. step'
  BY <1>2, <1>10 DEF RewardTypeOK
<1>12. progressHistory' = Remembered(to)
  BY ScoreIs
<1>13. HistoryOK'
  <2> DEFINE h == Remembered(to)
  <2>1. step \in Nat
    BY <1>2 DEF RewardTypeOK
  <2>2. /\ h \in Seq(Nat \X Nat) /\ Len(h) <= SlowWindow + 1 /\ Len(h) <= step + 1
        /\ \A k \in 1 .. Len(h) : h[k][1] = step + 1 - Len(h) + k
    BY <1>2, <1>5, <2>1, RememberedIs
  <2>3. progressHistory' = h
    BY <1>12
  <2> HIDE DEF h
  <2>4. step' = step + 1
    BY <1>10
  <2>5. \A k \in 1 .. Len(h) : h[k][1] = step' - Len(h) + k
    <3>1. Len(h) \in Nat
      BY <2>2
    <3>2. ASSUME NEW k \in 1 .. Len(h) PROVE h[k][1] = step' - Len(h) + k
      BY <2>1, <2>2, <2>4, <3>1
    <3> QED  BY <3>2
  <2> QED  BY <2>2, <2>3, <2>4, <2>5 DEF HistoryOK
<1>14. position' = place /\ raceTime' = time /\ start' = start
  BY ScoreIs
<1>15. debt' \in -DebtClip .. DebtClip
  BY <1>1, <1>9, DebtType, ScoreIs
<1>16. /\ penalizedAt' \in Nat \cup {-1} /\ penalties' \in Nat
  <2>1. ApplyCollision(collision, time)
    BY ScoreIs
  <2>2. penalizedAt \in Nat \cup {-1} /\ penalties \in Nat
    BY <1>2 DEF RewardTypeOK, TermsOK
  <2> QED  BY <1>1, <2>1, <2>2 DEF ApplyCollision
<1>17. reason' \in {"running", "off_track", "finished", "time_limit", "no_progress",
                    "slow_progress"}
  BY ScoreIs, ReasonIs
<1>18. RewardTypeOK'
  <2>1. progressHistory' \in Seq(Nat \X Nat) /\ Len(progressHistory') <= SlowWindow + 1
    BY <1>13 DEF HistoryOK
  <2>2. raceTime' \in Nat /\ position' \in Int
    BY <1>1, <1>14
  <2>3. reason' \in {"unset", "running", "off_track", "finished", "time_limit",
                     "no_progress", "slow_progress"}
    BY <1>17
  <2>4. limited' \in BOOLEAN
    BY <1>2, <1>7 DEF RewardTypeOK
  <2> QED  BY <1>8, <1>9, <1>11, <1>15, <1>16, <2>1, <2>2, <2>3, <2>4 DEF RewardTypeOK
<1>19. StartOK'
  BY <1>2, <1>14 DEF StartOK
<1>20. TermsOK'
  <2>1. weight' = <<GammaNum * weight[1], GammaDen * weight[2]>>
    BY ScoreIs
  <2>2. /\ weight[1] \in Int /\ weight[2] \in Int /\ paid \in Int /\ shaped \in Int
        /\ paced \in Int /\ moved \in Nat
    BY <1>2 DEF TermsOK
  <2>3. weight' \in Int \X Int
    BY <2>1, <2>2, RewardConstants
  <2>4. moved' = moved + Distance(place, position)
    BY ScoreIs
  <2>5. moved' \in Nat
    BY <1>6, <2>2, <2>4
  <2>6. /\ index \in Point /\ Travelled[index] \in Int /\ Travelled[index'] \in Int
        /\ Travelled[to] \in Int /\ Travelled[Last] \in Int
        /\ debt \in Int /\ debt' \in Int
    BY <1>2, <1>5, <1>9, <1>15, PointsAre DEF RewardTypeOK
  <2>7. paid' = paid + (Travelled[to] - Travelled[index])
                  + (IF ValidFinish(to, place, ui) THEN Travelled[Last] - Travelled[to] ELSE 0)
    BY ScoreIs
  <2>8. paid' \in Int
    BY <2>2, <2>6, <2>7
  <2>9. \A sum, old, new \in Int : \A ended : DiscountedSum(sum, old, new, ended) \in Int
    BY <2>2, RewardConstants DEF DiscountedSum, Shaping
  <2>10. -debt \in Int /\ -debt' \in Int
    BY <2>6
  <2>11. \E e1, e2 : /\ shaped' = DiscountedSum(shaped, Travelled[index], Travelled[index'], e1)
                    /\ paced' = DiscountedSum(paced, -debt, -debt', e2)
    BY ScoreIs
  <2>12. shaped' \in Int /\ paced' \in Int
    BY <2>2, <2>6, <2>9, <2>10, <2>11
  <2> QED  BY <1>16, <2>3, <2>5, <2>8, <2>12 DEF TermsOK
<1> QED  BY <1>1, <1>5, <1>8, <1>13, <1>18, <1>19, <1>20

\* A scored step pays the progress it makes.
LEMMA ScorePays ==
    ASSUME RewardInv, NEW place \in Position, NEW time \in 1 .. MaxTime,
           NEW ui \in BOOLEAN, NEW collision \in BOOLEAN, Score(place, time, ui, collision)
    PROVE  ProgressIsPaidOnce'
<1> DEFINE to == IndexReached(place, time)
           valid == ValidFinish(to, place, ui)
<1>1. /\ index' = (IF valid THEN Last ELSE to) /\ start' = start
      /\ paid' = paid + (Travelled[to] - Travelled[index])
                  + (IF valid THEN Travelled[Last] - Travelled[to] ELSE 0)
      /\ reason' = StepReason(place, time, ui)
  BY ScoreIs
<1>2. reason' = "finished" <=> valid
  BY <1>1, ReasonIs
<1>3. /\ Travelled[index] \in Int /\ Travelled[to] \in Int /\ Travelled[Last] \in Int
      /\ Travelled[start.index] \in Int /\ paid \in Int
  <2>1. index \in Point /\ start.index \in Point /\ paid \in Int
    BY DEF RewardInv, RewardTypeOK, StartOK, TermsOK
  <2>2. to \in Point /\ Last \in Point
    BY ScoreTypes, PointsAre
  <2> HIDE DEF to
  <2> QED  BY <2>1, <2>2, PointsAre
<1>4. paid = Travelled[index] - Travelled[start.index]
  BY DEF RewardInv, ProgressIsPaidOnce
<1> HIDE DEF to, valid
<1>5. paid' = Travelled[index'] - Travelled[start.index]
  <2>1. CASE valid
    <3>1. index' = Last /\ paid' = paid + (Travelled[to] - Travelled[index])
                                        + (Travelled[Last] - Travelled[to])
      BY <1>1, <2>1
    <3> QED  BY <1>3, <1>4, <3>1
  <2>2. CASE ~valid
    <3>1. index' = to /\ paid' = paid + (Travelled[to] - Travelled[index]) + 0
      BY <1>1, <2>2
    <3> QED  BY <1>3, <1>4, <3>1
  <2> QED  BY <2>1, <2>2
<1>6. reason' = "finished" => index' = Last
  BY <1>1, <1>2
<1> QED  BY <1>1, <1>5, <1>6 DEF ProgressIsPaidOnce

\* A scored step keeps the discounted sums what the start cost.
LEMMA ScoreTelescopes ==
    ASSUME RewardInv, NEW place \in Position, NEW time \in 1 .. MaxTime,
           NEW ui \in BOOLEAN, NEW collision \in BOOLEAN, Score(place, time, ui, collision)
    PROVE  ShapingTelescopes'
<1> DEFINE ended == StepReason(place, time, ui) # "running"
           G == GammaNum
           D == GammaDen
           p == weight[1]
           q == weight[2]
           old == Travelled[index]
           new == Travelled[index']
           first == Travelled[start.index]
           dOld == debt
           dNew == debt'
           dFirst == start.debt
<1>1. /\ p \in Int /\ q \in Int /\ old \in Int /\ new \in Int /\ first \in Int
      /\ dOld \in Int /\ dNew \in Int /\ dFirst \in Int /\ G \in Int /\ D \in Int
  <2>1. /\ index \in Point /\ start.index \in Point /\ debt \in Int /\ start.debt \in Int
        /\ p \in Int /\ q \in Int
    BY RewardConstants DEF RewardInv, RewardTypeOK, StartOK, TermsOK
  <2>2. RewardTypeOK'
    BY ScoreTypes
  <2>3. index' \in Point /\ debt' \in Int
    BY <2>2, RewardConstants DEF RewardTypeOK
  <2>4. old \in Int /\ first \in Int /\ new \in Int
    BY <2>1, <2>3, PointsAre
  <2> QED  BY <2>1, <2>3, <2>4, RewardConstants
<1>2. reason = "running" /\ reason' = StepReason(place, time, ui) /\ start' = start
  BY ScoreIs
<1>3. shaped = p * old - q * first /\ paced = q * dFirst - p * dOld
  BY <1>2 DEF RewardInv, ShapingTelescopes
<1>4. /\ shaped' = DiscountedSum(shaped, old, new, ended)
      /\ paced' = DiscountedSum(paced, -dOld, -dNew, ended)
      /\ weight' = <<G * p, D * q>>
  BY ScoreIs
<1>5. weight'[1] = G * p /\ weight'[2] = D * q
  BY <1>4
<1>6. CASE ended
  <2>1. /\ shaped' = D * (p * old - q * first) + p * (-D * old)
        /\ paced' = D * (q * dFirst - p * dOld) + p * (-D * (-dOld))
    BY <1>3, <1>4, <1>6 DEF DiscountedSum, Shaping
  <2> HIDE DEF p, q, old, new, first, dOld, dNew, dFirst, G, D
  <2>2. shaped' = 0 * new - (D * q) * first /\ paced' = (D * q) * dFirst - 0 * dNew
    BY <1>1, <2>1, Telescopes, TelescopesDown
  <2>3. reason' # "running"
    BY <1>2, <1>6
  <2> QED  BY <1>2, <1>5, <2>2, <2>3 DEF ShapingTelescopes, new, first, dFirst, dNew
<1>7. CASE ~ended
  <2>1. /\ shaped' = D * (p * old - q * first) + p * (G * new - D * old)
        /\ paced' = D * (q * dFirst - p * dOld) + p * (G * (-dNew) - D * (-dOld))
    BY <1>3, <1>4, <1>7 DEF DiscountedSum, Shaping
  <2> HIDE DEF p, q, old, new, first, dOld, dNew, dFirst, G, D
  <2>2. shaped' = (G * p) * new - (D * q) * first /\ paced' = (D * q) * dFirst - (G * p) * dNew
    BY <1>1, <2>1, Telescopes, TelescopesDown
  <2>3. reason' = "running"
    BY <1>2, <1>7
  <2> QED  BY <1>2, <1>5, <2>2, <2>3 DEF ShapingTelescopes, new, first, dFirst, dNew
<1> QED  BY <1>6, <1>7

\* A scored step makes no progress that was not driven.
LEMMA ScoreDrives ==
    ASSUME RewardInv, NEW place \in Position, NEW time \in 1 .. MaxTime,
           NEW ui \in BOOLEAN, NEW collision \in BOOLEAN, Score(place, time, ui, collision)
    PROVE  DrivenInv'
<1> DEFINE to == IndexReached(place, time)
           m == Motion(place, time)
           d == Distance(place, position)
           s == start.time
           t == Travelled[start.index]
<1>1. /\ reason = "running" /\ time >= raceTime /\ start' = start /\ raceTime' = time
      /\ reachable' = (IF limited /\ OnTrack(place) THEN reachable + m ELSE reachable)
      /\ limited' = limited
      /\ moved' = moved + d /\ reason' = StepReason(place, time, ui)
      /\ index' = IF ValidFinish(to, place, ui) THEN Last ELSE to
  BY ScoreIs
<1>2. /\ time \in Nat /\ raceTime \in Nat /\ s \in Nat /\ t \in Nat /\ reachable \in Nat
      /\ moved \in Nat /\ to \in Point /\ Travelled[to] \in Nat /\ Travelled[Last] \in Nat
      /\ limited => Travelled[to] <= reachable'
  BY ScoreTypes, PointsAre DEF RewardInv, RewardTypeOK, StartOK, TermsOK
<1>3. /\ s <= raceTime /\ reachable <= t + moved
      /\ reachable <= t + MaxSpeed * (raceTime - s)
  BY DEF RewardInv, DrivenInv
<1>4. /\ m \in Nat /\ m <= d /\ d \in Nat /\ m <= MaxSpeed * (time - raceTime)
  BY <1>1, <1>2, MotionType DEF RewardInv
<1> HIDE DEF to, m, d, s, t
<1>5. reachable' \in Nat /\ reachable' <= reachable + m
  BY <1>1, <1>2, <1>4
<1>6. s <= time
  BY <1>1, <1>2, <1>3
<1>7. reachable' <= t + moved'
  BY <1>1, <1>2, <1>3, <1>4, <1>5
<1>8. reachable' <= t + MaxSpeed * (time - s)
  <2>1. MaxSpeed \in Nat
    BY RewardConstants
  <2> DEFINE a == raceTime - s
             b == time - raceTime
  <2>2. a \in Int /\ b \in Int /\ time - s = a + b
    BY <1>2
  <2> HIDE DEF a, b
  <2>3. MaxSpeed * (a + b) = MaxSpeed * a + MaxSpeed * b /\ MaxSpeed * a \in Int
        /\ MaxSpeed * b \in Int
    BY <2>1, <2>2
  <2>4. reachable <= t + MaxSpeed * a /\ m <= MaxSpeed * b
    BY <1>3, <1>4 DEF a, b
  <2>5. reachable' <= t + (MaxSpeed * a + MaxSpeed * b)
    BY <1>2, <1>4, <1>5, <2>3, <2>4
  <2> QED  BY <2>2, <2>3, <2>5
<1>9. ASSUME limited
      PROVE  IF reason' = "finished" THEN 100 * reachable' >= FinishPercent * Travelled[Last]
                                     ELSE Travelled[index'] <= reachable'
  <2>1. CASE reason' = "finished"
    <3>1. ValidFinish(to, place, ui)
      BY <1>1, <2>1, ReasonIs DEF to
    <3>2. Travelled[to] * 100 >= FinishPercent * Travelled[Last]
      BY <3>1 DEF ValidFinish
    <3> DEFINE x == FinishPercent * Travelled[Last]
    <3>3. x \in Nat
      BY <1>2, RewardConstants
    <3> HIDE DEF x
    <3>4. 100 * reachable' >= x
      BY <1>2, <1>5, <1>9, <3>2, <3>3 DEF x
    <3> QED  BY <2>1, <3>4 DEF x
  <2>2. CASE reason' # "finished"
    <3>1. ~ValidFinish(to, place, ui)
      BY <1>1, <2>2, ReasonIs DEF to
    <3>2. index' = to
      BY <1>1, <3>1
    <3> QED  BY <1>2, <1>9, <2>2, <3>2
  <2> QED  BY <2>1, <2>2
<1> QED  BY <1>1, <1>6, <1>7, <1>8, <1>9 DEF DrivenInv, s, t

\* A scored step penalizes one collision in each cooldown.
LEMMA ScoreCools ==
    ASSUME RewardInv, NEW place \in Position, NEW time \in 1 .. MaxTime,
           NEW ui \in BOOLEAN, NEW collision \in BOOLEAN, Score(place, time, ui, collision)
    PROVE  CollisionsInv'
<1> DEFINE s == start.time
<1>1. /\ time >= raceTime /\ start' = start /\ raceTime' = time /\ ApplyCollision(collision, time)
  BY ScoreIs
<1>2. /\ time \in Nat /\ raceTime \in Nat /\ s \in Nat /\ penalties \in Nat
      /\ penalizedAt \in Nat \cup {-1} /\ Cooldown \in Nat /\ s <= raceTime
  BY ScoreTypes, RewardConstants DEF RewardInv, RewardTypeOK, StartOK, TermsOK, DrivenInv
<1>3. /\ penalizedAt <= raceTime
      /\ IF penalizedAt < 0 THEN penalties = 0
         ELSE penalties > 0 /\ (penalties - 1) * Cooldown <= penalizedAt - s
  BY DEF RewardInv, CollisionsInv
<1> HIDE DEF s
<1>4. CASE collision /\ Penalized(time)
  <2>1. penalizedAt' = time /\ penalties' = penalties + 1
    BY <1>1, <1>4 DEF ApplyCollision
  <2>2. penalties * Cooldown <= time - s
    <3>1. CASE penalizedAt < 0
      <4>1. penalties = 0 /\ 0 * Cooldown = 0
        BY <1>2, <1>3, <3>1
      <4> QED  BY <1>1, <1>2, <4>1
    <3>2. CASE ~(penalizedAt < 0)
      <4>1. time - penalizedAt >= Cooldown
        BY <1>4, <3>2 DEF Penalized
      <4> DEFINE k == penalties - 1
      <4>2. k \in Int /\ penalties = k + 1 /\ k * Cooldown <= penalizedAt - s
        BY <1>2, <1>3, <3>2
      <4> HIDE DEF k
      <4>3. (k + 1) * Cooldown = k * Cooldown + Cooldown /\ k * Cooldown \in Int
        BY <1>2, <4>2
      <4> DEFINE x == k * Cooldown
      <4>4. x \in Int /\ penalties * Cooldown = x + Cooldown /\ x <= penalizedAt - s
        BY <4>2, <4>3
      <4> HIDE DEF x
      <4>5. x + Cooldown <= time - s
        BY <1>2, <4>1, <4>4
      <4> QED  BY <4>4, <4>5
    <3> QED  BY <3>1, <3>2
  <2>3. (penalties' - 1) * Cooldown = penalties * Cooldown
    BY <1>2, <2>1
  <2>4. ~(penalizedAt' < 0) /\ penalties' > 0 /\ penalizedAt' <= raceTime'
    BY <1>1, <1>2, <2>1
  <2>5. (penalties' - 1) * Cooldown <= penalizedAt' - start'.time
    BY <1>1, <2>1, <2>2, <2>3 DEF s
  <2> QED  BY <2>4, <2>5 DEF CollisionsInv
<1>5. CASE ~(collision /\ Penalized(time))
  <2>1. penalizedAt' = penalizedAt /\ penalties' = penalties
    BY <1>1, <1>5 DEF ApplyCollision
  <2>2. penalizedAt' <= raceTime'
    BY <1>1, <1>2, <1>3, <2>1
  <2> QED  BY <1>1, <1>3, <2>1, <2>2 DEF CollisionsInv, s
<1> QED  BY <1>4, <1>5

\* The initial state.
LEMMA RewardStarts == RewardInit => RewardInv
<1> SUFFICES ASSUME RewardInit PROVE RewardInv
  OBVIOUS
<1>1. /\ limited \in BOOLEAN
      /\ index = 0 /\ step = 0 /\ lastProgress = 0 /\ progressHistory = <<>>
      /\ position = 0 /\ reachable = 0 /\ raceTime = 0 /\ debt = 0 /\ penalizedAt = -1
      /\ reason = "unset" /\ start = [index |-> 0, time |-> 0, debt |-> 0]
      /\ paid = 0 /\ weight = <<1, 1>> /\ shaped = 0 /\ paced = 0 /\ moved = 0 /\ penalties = 0
  BY DEF RewardInit
<1>2. 0 \in Point /\ Travelled[0] = 0 /\ SlowWindow \in Nat /\ DebtClip \in Nat
        /\ MaxSpeed \in Nat
  BY RewardConstants, PointsAre
<1>3. <<>> \in Seq(Nat \X Nat) /\ Len(<<>>) = 0
  OBVIOUS
<1>4. RewardTypeOK /\ StartOK /\ TermsOK
  BY <1>1, <1>2, <1>3 DEF RewardTypeOK, StartOK, TermsOK
<1>5. HistoryOK
  BY <1>1, <1>2, <1>3 DEF HistoryOK
<1>6. start.index = 0 /\ start.time = 0 /\ start.debt = 0 /\ weight[1] = 1 /\ weight[2] = 1
  BY <1>1
<1>7. ProgressIsPaidOnce
  BY <1>1, <1>2, <1>6 DEF ProgressIsPaidOnce
<1>8. ShapingTelescopes
  BY <1>1, <1>2, <1>6 DEF ShapingTelescopes
<1>9. DrivenInv
  BY <1>1, <1>2, <1>6 DEF DrivenInv
<1>10. CollisionsInv
  BY <1>1, <1>6 DEF CollisionsInv
<1> QED  BY <1>4, <1>5, <1>7, <1>8, <1>9, <1>10 DEF RewardInv

\* Every step.
LEMMA RewardSteps == RewardInv /\ [RewardNext]_rewardVars => RewardInv'
<1> SUFFICES ASSUME RewardInv, [RewardNext]_rewardVars PROVE RewardInv'
  OBVIOUS
<1>1. CASE NewEpisode
  BY <1>1, RewardResets DEF NewEpisode
<1>2. ASSUME NEW place \in Position, NEW time \in 1 .. MaxTime,
             NEW ui \in BOOLEAN, NEW collision \in BOOLEAN, Score(place, time, ui, collision)
      PROVE  RewardInv'
  BY <1>2, ScoreTypes, ScorePays, ScoreTelescopes, ScoreDrives, ScoreCools DEF RewardInv
<1>3. CASE UNCHANGED rewardVars
  BY <1>3 DEF rewardVars, RewardInv, RewardTypeOK, StartOK, HistoryOK, TermsOK,
              ProgressIsPaidOnce, ShapingTelescopes, DrivenInv, CollisionsInv
<1> QED  BY <1>1, <1>2, <1>3 DEF RewardNext, RewardedStep

\* The inductive invariant of the reward holds of every behavior.
THEOREM RewardInductive == RewardSpec => []RewardInv
<1> QED  BY RewardStarts, RewardSteps, PTL DEF RewardSpec

\* Progress is driven, and collisions cool down.
LEMMA RewardIsDriven == RewardInv => ProgressIsDriven /\ CollisionsCoolDown
<1> SUFFICES ASSUME RewardInv PROVE ProgressIsDriven /\ CollisionsCoolDown
  OBVIOUS
<1>1. /\ raceTime \in Nat /\ start.time \in Nat /\ Travelled[start.index] \in Nat
           /\ start.index \in Point
      /\ Travelled[index] \in Nat /\ Travelled[Last] \in Nat /\ reachable \in Nat
      /\ moved \in Nat /\ MaxSpeed \in Nat /\ FinishPercent \in Nat /\ penalties \in Nat
      /\ Cooldown \in Nat /\ penalizedAt \in Nat \cup {-1}
  BY PointsAre, RewardConstants DEF RewardInv, RewardTypeOK, StartOK, TermsOK
<1> DEFINE t == Travelled[start.index]
           fast == MaxSpeed * (raceTime - start.time)
           drove == Least(moved, fast)
<1>2. DrivenInv /\ CollisionsInv
  BY DEF RewardInv
<1>3. fast \in Int
  BY <1>1
<1>4. drove \in Int /\ reachable <= t + drove
  <2>1. reachable <= t + moved /\ reachable <= t + fast
    BY <1>2 DEF DrivenInv
  <2> HIDE DEF fast
  <2> QED  BY <1>1, <1>3, <2>1 DEF Least
<1> HIDE DEF drove
<1>5. ASSUME reason = "finished", limited PROVE ProgressIsDriven
  <2> DEFINE x == FinishPercent * Travelled[Last]
  <2>1. 100 * reachable >= x /\ x \in Nat
    BY <1>1, <1>2, <1>5 DEF DrivenInv
  <2> HIDE DEF x
  <2>2. 100 * (t + drove) >= x
    BY <1>1, <1>4, <2>1
  <2> QED  BY <1>5, <2>2 DEF ProgressIsDriven, drove, x
<1>6. ASSUME reason # "finished", limited PROVE ProgressIsDriven
  <2>1. Travelled[index] <= reachable
    BY <1>2, <1>6 DEF DrivenInv
  <2>2. Travelled[index] <= t + drove
    BY <1>1, <1>4, <2>1
  <2> QED  BY <1>6, <2>2 DEF ProgressIsDriven, drove
<1>7. CollisionsCoolDown
  <2> SUFFICES ASSUME penalties > 0
               PROVE  (penalties - 1) * Cooldown <= raceTime - start.time
    BY DEF CollisionsCoolDown
  <2> DEFINE x == (penalties - 1) * Cooldown
  <2>1. x \in Int
    BY <1>1
  <2>2. x <= penalizedAt - start.time /\ penalizedAt <= raceTime
    BY <1>1, <1>2 DEF CollisionsInv
  <2> HIDE DEF x
  <2>3. x <= raceTime - start.time
    BY <1>1, <2>1, <2>2
  <2> QED  BY <2>3 DEF x
<1>8. ASSUME ~limited PROVE ProgressIsDriven
  BY <1>8 DEF ProgressIsDriven
<1> QED  BY <1>5, <1>6, <1>7, <1>8

\* Over an episode progress is paid once, shaping telescopes to what the start cost, progress
\* is driven when it is limited, and collisions are penalized once per cooldown, for any
\* trajectory, discount and limits (trackmania/reward.py).
THEOREM RewardsAddUpHolds == RewardSpec => []RewardsAddUp
<1>1. RewardInv => RewardsAddUp
  BY RewardIsDriven DEF RewardInv, RewardsAddUp
<1> QED  BY <1>1, RewardInductive, PTL

-----------------------------------------------------------------------------
(* The trajectory search.                                                      *)

Schedule == [Inner -> Int]
Entry == [trial : Nat, accepted : BOOLEAN]
SearchShape ==
    /\ saved \in Schedule \cup {<<>>} /\ journal \in Seq(Entry)
    /\ searching \in {"stopped", "baseline", "search", "screen", "confirm", "record", "accept",
                      "done"}
    /\ initial \in Schedule /\ incumbent \in Schedule /\ candidate \in Schedule
    /\ outcomes \in Seq(Nat) /\ trial \in Nat /\ records \in Nat /\ driven \in Nat

BudgetInv ==
    /\ driven <= MaxTrials
    /\ searching = "baseline" =>
         driven = Len(outcomes) /\ trial = 0 /\ records = 0 /\ driven <= BaselineTrials
    /\ searching \in {"search", "screen", "accept", "done"} =>
         driven = trial /\ trial = records + BaselineTrials
    /\ searching = "screen" => outcomes = <<>> /\ trial < MaxTrials
    /\ searching \in {"confirm", "record"} =>
         driven = trial /\ trial = records + BaselineTrials + Len(outcomes) /\ Len(outcomes) > 0

Admitted == \E i \in 1 .. Len(journal) : journal[i].accepted
AdmittedInv ==
    \/ Admitted
    \/ /\ saved \in {<<>>, Unshortened} /\ initial = Unshortened /\ incumbent = Unshortened
       /\ searching # "accept"

ProvedInv ==
    /\ searching = "baseline" => incumbent = initial /\ candidate = initial
    /\ searching \notin {"stopped", "baseline"} => incumbent \in proved
    /\ searching = "accept" => candidate \in proved
    /\ saved # <<>> => saved \in proved

NoSlower(schedule) ==
    /\ Valid(schedule)
    /\ \A i \in Segment : i \notin SlowSegments =>
         Ticks(schedule, i, i + 1) >= Boundaries[i + 1] - Boundaries[i]
Shortening(wish) ==
    /\ wish \in [boundary : Nat, move : Int]
    /\ \/ wish.move > 0 /\ wish.boundary \in SlowSegments
       \/ wish.move < 0 /\ wish.boundary - 1 \in SlowSegments
SchedulesInv ==
    /\ NoSlower(initial) /\ NoSlower(incumbent) /\ NoSlower(candidate)
    /\ saved = <<>> \/ NoSlower(saved)
    /\ requests \in Seq({r \in [boundary : Nat, move : Int] : Shortening(r)})

SearchInv == SearchShape /\ BudgetInv /\ AdmittedInv /\ ProvedInv /\ SchedulesInv

\* What is assumed of the constants of the search.
LEMMA SearchConstants ==
    /\ MinimumWindow \in Nat \ {0} /\ BaselineTrials \in Nat \ {0}
    /\ ConfirmationTrials \in Nat \ {0} /\ MaxTrials \in Nat \ {0} /\ MaxTrials >= BaselineTrials
    /\ LapTimes \cup {0} \subseteq Nat /\ SlowSegments \subseteq Segment
    /\ Shortenings \in Seq(Nat \ {0}) /\ Len(Shortenings) \in Nat
  BY SearchAssumption

\* Boundaries are ticks, and segments lie between them.
LEMMA BoundaryTypes ==
    /\ Len(Boundaries) \in Nat /\ Len(Boundaries) > 1
    /\ \A i \in 1 .. Len(Boundaries) : Boundaries[i] \in Nat
    /\ \A i \in Segment : i \in Nat /\ i \in 1 .. Len(Boundaries)
         /\ i + 1 \in 1 .. Len(Boundaries)
                          /\ Boundaries[i] < Boundaries[i + 1]
    /\ \A b \in Inner : b \in Nat /\ b \in 1 .. Len(Boundaries)
<1>1. Boundaries \in Seq(Nat) /\ Len(Boundaries) > 1 /\ Len(Boundaries) \in Nat
  BY SearchAssumption
<1>2. \A i \in 1 .. Len(Boundaries) : Boundaries[i] \in Nat
  BY <1>1
<1>3. \A i \in Segment : i \in Nat /\ i \in 1 .. Len(Boundaries) /\ i + 1 \in 1 .. Len(Boundaries)
  BY <1>1 DEF Segment
<1>4. \A i \in Segment : Boundaries[i] < Boundaries[i + 1]
  BY SearchAssumption
<1>5. \A b \in Inner : b \in Nat /\ b \in 1 .. Len(Boundaries)
  BY <1>1 DEF Inner
<1> QED  BY <1>1, <1>2, <1>3, <1>4, <1>5

\* A boundary of a schedule is a number.
LEMMA EffectiveTypes ==
    ASSUME NEW s \in Schedule, NEW b \in 1 .. Len(Boundaries)
    PROVE  Effective(s, b) \in Int
  BY BoundaryTypes DEF Schedule, Effective

\* The recorded schedule is no slower than itself.
LEMMA UnshortenedNoSlower == Unshortened \in Schedule /\ NoSlower(Unshortened)
<1>1. Unshortened \in Schedule /\ \A b \in Inner : Unshortened[b] = 0
  BY DEF Unshortened, Schedule
<1>2. \A b \in 1 .. Len(Boundaries) : Effective(Unshortened, b) = Boundaries[b]
  BY <1>1, BoundaryTypes DEF Effective
<1>3. \A i \in Segment : Ticks(Unshortened, i, i + 1) = Boundaries[i + 1] - Boundaries[i]
  BY <1>2, BoundaryTypes DEF Ticks
<1> QED  BY <1>1, <1>3, BoundaryTypes DEF NoSlower, Valid

\* A request that shortens what is slow slows nothing else.
LEMMA ShortenNoSlower ==
    ASSUME NEW s \in Schedule, NoSlower(s), NEW r, Shortening(r), Shortens(s, r)
    PROVE  Shorten(s, r) \in Schedule /\ NoSlower(Shorten(s, r))
<1> DEFINE t == Shorten(s, r)
<1>1. r.boundary \in Nat /\ r.move \in Int /\ r.boundary \in Inner
  BY DEF Shortening, Shortens
<1>2. t \in Schedule
  BY <1>1 DEF Shorten, Schedule
<1>3. \A b \in 1 .. Len(Boundaries) :
        Effective(t, b) = IF b = r.boundary THEN Effective(s, b) + r.move ELSE Effective(s, b)
  BY <1>1, BoundaryTypes DEF Shorten, Schedule, Effective
<1> HIDE DEF t
<1>4. ASSUME NEW i \in Segment, i \notin SlowSegments
      PROVE  Ticks(t, i, i + 1) >= Ticks(s, i, i + 1) /\ Ticks(s, i, i + 1) \in Int
                                                      /\ Ticks(t, i, i + 1) \in Int
  <2>1. i \in Nat /\ i \in 1 .. Len(Boundaries) /\ i + 1 \in 1 .. Len(Boundaries)
    BY BoundaryTypes
  <2>2. Effective(s, i) \in Int /\ Effective(s, i + 1) \in Int
    BY <2>1, EffectiveTypes
  <2>3. CASE r.boundary = i
    <3>1. r.move < 0
      BY <1>4, <2>3 DEF Shortening
    <3>2. Effective(t, i) = Effective(s, i) + r.move /\ Effective(t, i + 1) = Effective(s, i + 1)
      BY <1>3, <2>1, <2>3
    <3> QED  BY <1>1, <2>2, <3>1, <3>2 DEF Ticks
  <2>4. CASE r.boundary = i + 1
    <3>1. r.move > 0
      BY <1>4, <2>1, <2>4 DEF Shortening
    <3>2. Effective(t, i + 1) = Effective(s, i + 1) + r.move /\ Effective(t, i) = Effective(s, i)
      BY <1>3, <2>1, <2>4
    <3> QED  BY <1>1, <2>2, <3>1, <3>2 DEF Ticks
  <2>5. CASE r.boundary # i /\ r.boundary # i + 1
    <3>1. Effective(t, i + 1) = Effective(s, i + 1) /\ Effective(t, i) = Effective(s, i)
      BY <1>3, <2>1, <2>5
    <3> QED  BY <2>2, <3>1 DEF Ticks
  <2> QED  BY <2>3, <2>4, <2>5
<1>5. ASSUME NEW i \in Segment, i \notin SlowSegments
      PROVE  Ticks(t, i, i + 1) >= Boundaries[i + 1] - Boundaries[i]
  <2>1. Ticks(s, i, i + 1) >= Boundaries[i + 1] - Boundaries[i]
    BY <1>5 DEF NoSlower
  <2>2. Boundaries[i + 1] \in Nat /\ Boundaries[i] \in Nat
    BY BoundaryTypes
  <2> QED  BY <1>4, <1>5, <2>1, <2>2
<1>6. Valid(t)
  BY DEF Shortens, t
<1> QED  BY <1>2, <1>5, <1>6 DEF NoSlower, t

\* The requests shorten what is slow.
LEMMA RequestNumbers ==
    ASSUME NEW n \in Nat, NEW m \in Nat, NEW k \in 1 .. 2 * n * m
    PROVE  /\ (((k - 1) \div 2) % n) + 1 \in 1 .. n
           /\ (k - 1) \div (2 * n) + 1 \in 1 .. m
<1>1. n > 0 /\ k - 1 \in Nat /\ k - 1 < 2 * n * m
  <2>1. n = 0 => 2 * n * m = 0
    OBVIOUS
  <2> QED  BY <2>1
<1>2. (k - 1) \div 2 \in Nat
  BY <1>1
<1>3. ((k - 1) \div 2) % n \in 0 .. n - 1
  BY <1>1, <1>2
<1> DEFINE N == 2 * n
           d == (k - 1) \div N
<1>4. N \in Nat \ {0} /\ N * m = 2 * n * m
  BY <1>1
<1> HIDE DEF N
<1>5. d \in Nat /\ N * d <= k - 1
  BY <1>1, <1>4
<1> HIDE DEF d
<1>6. d < m
  <2>1. m <= d => N * m <= N * d
    <3>1. \A a, b, c \in Nat : b <= c => a * b <= a * c
      OBVIOUS
    <3> QED  BY <1>4, <1>5, <3>1
  <2>2. N * d \in Nat /\ N * m \in Nat
    BY <1>4, <1>5
  <2> QED  BY <1>1, <1>4, <1>5, <2>1, <2>2
<1> QED  BY <1>3, <1>5, <1>6, <1>1 DEF d, N

\* Every request of a search shortens what is slow.
LEMMA RequestsShorten ==
    ASSUME NEW s \in Schedule, NEW order \in WindowOrders(s)
    PROVE  SearchRequests(order) \in Seq({r \in [boundary : Nat, move : Int] : Shortening(r)})
<1> DEFINE n == Len(order)
           m == Len(Shortenings)
<1>1. order \in Seq(SlowWindows(s))
  <2>1. IsFiniteSet(Segment) /\ IsFiniteSet(2 .. Len(Boundaries))
    BY BoundaryTypes, FS_Interval DEF Segment
  <2>2. IsFiniteSet(Segment \X (2 .. Len(Boundaries)))
    BY <2>1, FS_Product
  <2>3. SlowWindows(s) \subseteq Segment \X (2 .. Len(Boundaries))
    BY DEF SlowWindows
  <2>4. Cardinality(SlowWindows(s)) \in Nat
    BY <2>2, <2>3, FS_Subset, FS_CardinalityType
  <2>5. order \in [1 .. Cardinality(SlowWindows(s)) -> SlowWindows(s)]
    BY DEF WindowOrders
  <2> QED  BY <2>4, <2>5
<1>2. n \in Nat /\ m \in Nat /\ Shortenings \in Seq(Nat \ {0})
  BY <1>1, SearchConstants
<1>3. ASSUME NEW k \in 1 .. 2 * n * m
      PROVE  /\ SearchRequest(order, k - 1) \in [boundary : Nat, move : Int]
             /\ Shortening(SearchRequest(order, k - 1))
  <2> DEFINE w == order[(((k - 1) \div 2) % Len(order)) + 1]
             ticks == Shortenings[(k - 1) \div (2 * Len(order)) + 1]
  <2>1. (((k - 1) \div 2) % n) + 1 \in 1 .. n /\ (k - 1) \div (2 * n) + 1 \in 1 .. m
    BY <1>2, RequestNumbers
  <2>2. w \in SlowWindows(s) /\ ticks \in Nat \ {0}
    BY <1>1, <1>2, <2>1
  <2>3. SearchRequest(order, k - 1) = IF (k - 1) % 2 = 0 THEN [boundary |-> w[1], move |-> ticks]
                                               ELSE [boundary |-> w[2], move |-> -ticks]
    BY DEF SearchRequest
  <2> HIDE DEF w, ticks
  <2>4. /\ w[1] \in Segment /\ w[2] \in 2 .. Len(Boundaries) /\ w[1] < w[2]
        /\ w[1] .. w[2] - 1 \subseteq SlowSegments
    BY <2>2 DEF SlowWindows
  <2>5. w[1] \in Nat /\ w[2] \in Nat
    BY <2>4, BoundaryTypes
  <2>6. w[1] \in SlowSegments /\ w[2] - 1 \in SlowSegments
    BY <2>4, <2>5
  <2>7. -ticks \in Int /\ -ticks < 0 /\ ticks > 0 /\ ticks \in Int
    BY <2>2
  <2> QED  BY <2>3, <2>5, <2>6, <2>7 DEF Shortening
<1> DEFINE R == {r \in [boundary : Nat, move : Int] : Shortening(r)}
<1>4. 2 * n * m \in Nat
  BY <1>2
<1>5. \A k \in 1 .. 2 * n * m : SearchRequest(order, k - 1) \in R
  BY <1>3
<1> HIDE DEF R
<1>6. [k \in 1 .. 2 * n * m |-> SearchRequest(order, k - 1)] \in Seq(R)
  BY <1>4, <1>5
<1> QED  BY <1>6 DEF SearchRequests, R

SearchMoves(lap) == BaselineLap(lap) \/ Screen(lap) \/ Confirm(lap)

\* What the end of the baseline does, whether it was clean or not.
LEMMA BaselineEndsMoves ==
    ASSUME BaselineEnds
    PROVE  /\ searching = "baseline" /\ Len(outcomes) = BaselineTrials
           /\ UNCHANGED <<journal, initial, incumbent, records, candidate, outcomes, driven>>
           /\ \/ searching' = "stopped" /\ UNCHANGED <<saved, trial, requests>>
                 /\ proved \subseteq proved'
              \/ /\ searching' \in {"search", "done"} /\ saved' = candidate
                      /\ trial' = BaselineTrials
                 /\ \E order \in WindowOrders(initial) : requests' = SearchRequests(order)
                 /\ proved' = proved \cup {candidate}
  BY DEF BaselineEnds, Proved

\* Every step keeps what the state is made of.
LEMMA SearchShapeStep == ASSUME SearchShape, SearchNext, SchedulesInv PROVE SearchShape'
<1>1. CASE BeginSearch
  BY <1>1, UnshortenedNoSlower DEF BeginSearch, SearchShape, files
<1>2. CASE BaselineEnds
  BY <1>2, BaselineEndsMoves, SearchConstants DEF SearchShape
<1>3. CASE NextCandidate
  <2>1. requests # <<>> /\ requests \in Seq({r \in [boundary : Nat, move : Int] : Shortening(r)})
    BY <1>3 DEF NextCandidate, SchedulesInv
  <2>2. Shortening(Head(requests))
    BY <2>1
  <2>3. Shortens(incumbent, Head(requests)) => Shorten(incumbent, Head(requests)) \in Schedule
    BY <2>2, ShortenNoSlower DEF SearchShape, SchedulesInv
  <2>4. /\ UNCHANGED <<files, initial, incumbent, trial, records, driven>>
        /\ \/ searching' = searching /\ UNCHANGED <<candidate, outcomes>>
           \/ searching' = "done" /\ UNCHANGED <<candidate, outcomes>>
           \/ searching' = "screen" /\ candidate' \in Schedule /\ outcomes' = <<>>
    BY <1>3, <2>3 DEF NextCandidate
  <2>5. <<>> \in Seq(Nat)
    OBVIOUS
  <2> QED  BY <2>4, <2>5 DEF SearchShape, files
<1>4. CASE SearchExhausted \/ ConfirmationsEnd \/ FinishSearch \/ KillSearch
  BY <1>4 DEF SearchExhausted, ConfirmationsEnd, FinishSearch, KillSearch, SearchShape, files,
     state
<1>5. CASE RecordEvaluation
  <2>1. JournalEntries \in Seq(Entry)
    <3>1. Len(outcomes) \in Nat /\ Confirmed \in BOOLEAN
      BY DEF SearchShape, Confirmed
    <3>2. \A k \in 1 .. Len(outcomes) :
            [trial |-> records + BaselineTrials + k, accepted |-> Confirmed] \in Entry
      BY <3>1, SearchConstants DEF SearchShape, Entry
    <3> QED  BY <3>1, <3>2 DEF JournalEntries
  <2>2. journal' \in Seq(Entry)
    BY <1>5, <2>1 DEF RecordEvaluation, SearchShape
  <2>3. records' \in Nat
    BY <1>5 DEF RecordEvaluation, SearchShape
  <2>4. searching' \in {"accept", "search"}
          /\ UNCHANGED <<saved, initial, incumbent, trial, candidate, outcomes, driven>>
    BY <1>5 DEF RecordEvaluation
  <2> QED  BY <2>2, <2>3, <2>4 DEF SearchShape
<1>6. CASE AcceptCandidate
  BY <1>6 DEF AcceptCandidate, SearchShape
<1>7. ASSUME NEW lap \in LapTimes \cup {0}, SearchMoves(lap)
      PROVE  SearchShape'
  <2>1. lap \in Nat
    BY SearchConstants
  <2>2. /\ outcomes' = Append(outcomes, lap) /\ driven' = driven + 1
        /\ UNCHANGED <<files, initial, incumbent, records, candidate>>
        /\ searching' \in {searching, "confirm", "record"} /\ trial' \in {trial, trial + 1}
    BY <1>7 DEF SearchMoves, BaselineLap, Screen, Confirm, DriveLap, state
  <2>3. Append(outcomes, lap) \in Seq(Nat)
    BY <2>1 DEF SearchShape
  <2> QED  BY <2>2, <2>3 DEF SearchShape, files
<1> QED  BY <1>1, <1>2, <1>3, <1>4, <1>5, <1>6, <1>7 DEF SearchNext, SearchMoves

\* Every step keeps the count of the laps.
LEMMA SearchBudgetStep == ASSUME SearchShape, BudgetInv, SearchNext PROVE BudgetInv'
<1>1. CASE BeginSearch
  BY <1>1, SearchConstants DEF BeginSearch, BudgetInv
<1>2. CASE BaselineEnds
  BY <1>2, BaselineEndsMoves, SearchConstants DEF BudgetInv, SearchShape
<1>3. CASE NextCandidate
  BY <1>3, SearchConstants DEF NextCandidate, BudgetInv, SearchShape
<1>4. CASE SearchExhausted \/ ConfirmationsEnd \/ FinishSearch \/ KillSearch
  BY <1>4 DEF SearchExhausted, ConfirmationsEnd, FinishSearch, KillSearch, BudgetInv, files, state
<1>5. CASE RecordEvaluation
  <2>1. /\ searching = "record" /\ searching' \in {"accept", "search"}
        /\ records' = records + Len(outcomes) /\ UNCHANGED <<trial, outcomes, driven>>
    BY <1>5 DEF RecordEvaluation
  <2> QED  BY <2>1, SearchConstants DEF BudgetInv, SearchShape
<1>6. CASE AcceptCandidate
  BY <1>6 DEF AcceptCandidate, BudgetInv
<1>7. ASSUME NEW lap \in LapTimes \cup {0}, SearchMoves(lap)
      PROVE  BudgetInv'
  <2>1. lap \in Nat /\ outcomes \in Seq(Nat)
    BY SearchConstants DEF SearchShape
  <2>2. Len(outcomes') = Len(outcomes) + 1 /\ Len(outcomes) \in Nat /\ driven' = driven + 1
    BY <1>7, <2>1 DEF SearchMoves, BaselineLap, Screen, Confirm, DriveLap
  <2>3. CASE BaselineLap(lap)
    <3>1. /\ searching = "baseline" /\ searching' = "baseline" /\ Len(outcomes) < BaselineTrials
          /\ UNCHANGED <<trial, records>>
      BY <2>3 DEF BaselineLap, state
    <3>2. driven = Len(outcomes) /\ trial = 0 /\ records = 0
      BY <3>1 DEF BudgetInv
    <3>3. driven' = Len(outcomes') /\ driven' <= BaselineTrials /\ driven' <= MaxTrials
      BY <2>2, <3>1, <3>2, SearchConstants
    <3> QED  BY <3>1, <3>2, <3>3 DEF BudgetInv
  <2>4. CASE Screen(lap)
    BY <2>2, <2>4, SearchConstants DEF Screen, BudgetInv, SearchShape
  <2>5. CASE Confirm(lap)
    <3>1. Confirmations <= 1 + MaxTrials - (trial - (Len(outcomes) - 1))
      <4> DEFINE x == ConfirmationTrials
                 y == 1 + MaxTrials - (trial - (Len(outcomes) - 1))
      <4>1. x \in Int /\ y \in Int
        BY <2>2, SearchConstants DEF SearchShape
      <4> HIDE DEF x, y
      <4>2. Min({x, y}) <= y
        BY <4>1 DEF Min
      <4> QED  BY <4>2 DEF Confirmations, x, y
    <3>2. Len(outcomes) < Confirmations /\ searching = "confirm" /\ searching' = "confirm"
          /\ trial' = trial + 1 /\ records' = records
      BY <2>5 DEF Confirm
    <3>3. Confirmations \in Int
      <4> DEFINE x == ConfirmationTrials
                 y == 1 + MaxTrials - (trial - (Len(outcomes) - 1))
      <4>1. x \in Int /\ y \in Int
        BY <2>2, SearchConstants DEF SearchShape
      <4> HIDE DEF x, y
      <4>2. Min({x, y}) \in Int
        BY <4>1 DEF Min
      <4> QED  BY <4>2 DEF Confirmations, x, y
    <3>4. trial < MaxTrials
      BY <2>2, <3>1, <3>2, <3>3, SearchConstants DEF SearchShape
    <3> QED  BY <2>2, <3>2, <3>4, SearchConstants DEF BudgetInv, SearchShape
  <2> QED  BY <1>7, <2>3, <2>4, <2>5 DEF SearchMoves
<1> QED  BY <1>1, <1>2, <1>3, <1>4, <1>5, <1>6, <1>7 DEF SearchNext, SearchMoves

\* Nothing but an accepted candidate is saved over the recording.
LEMMA SearchAdmittedStep ==
    ASSUME SearchShape, BudgetInv, ProvedInv, AdmittedInv, SearchNext PROVE AdmittedInv'
<1>1. ASSUME Admitted, UNCHANGED journal
      PROVE  AdmittedInv'
  BY <1>1 DEF AdmittedInv, Admitted
<1>2. CASE RecordEvaluation
  <2>1. journal' = journal \o JournalEntries
          /\ searching' = (IF Confirmed THEN "accept" ELSE "search")
        /\ UNCHANGED <<saved, initial, incumbent>> /\ searching = "record"
    BY <1>2 DEF RecordEvaluation
  <2>2. journal \in Seq(Entry) /\ Len(outcomes) \in Nat
    BY DEF SearchShape
  <2>3. JournalEntries \in Seq([trial : {records + BaselineTrials + k : k \in Nat},
          accepted : {Confirmed}])
        /\ Len(JournalEntries) = Len(outcomes)
    BY <2>2 DEF JournalEntries
  <2>4. CASE Admitted
    <3>1. PICK i \in 1 .. Len(journal) : journal[i].accepted
      BY <2>4 DEF Admitted
    <3>2. i \in 1 .. Len(journal') /\ journal'[i] = journal[i]
      BY <2>1, <2>2, <2>3, <3>1
    <3> QED  BY <3>1, <3>2 DEF AdmittedInv, Admitted
  <2>5. CASE Confirmed
    <3>1. Len(outcomes) > 0
      BY <2>1 DEF BudgetInv
    <3>2. 1 \in 1 .. Len(JournalEntries) /\ JournalEntries[1].accepted
      BY <2>2, <2>3, <2>5, <3>1 DEF JournalEntries
    <3>3. Len(journal) + 1 \in 1 .. Len(journal')
            /\ journal'[Len(journal) + 1] = JournalEntries[1]
      BY <2>1, <2>2, <2>3, <3>2
    <3> QED  BY <3>2, <3>3 DEF AdmittedInv, Admitted
  <2>6. CASE ~Admitted /\ ~Confirmed
    BY <2>1, <2>6 DEF AdmittedInv
  <2> QED  BY <2>4, <2>5, <2>6
<1>3. CASE ~Admitted /\ ~RecordEvaluation
  <2>1. CASE BeginSearch
    BY <1>3, <2>1 DEF BeginSearch, AdmittedInv, Admitted, files
  <2>2. CASE BaselineEnds
    BY <1>3, <2>2, BaselineEndsMoves DEF AdmittedInv, Admitted, ProvedInv
  <2>3. CASE NextCandidate
    BY <1>3, <2>3 DEF NextCandidate, AdmittedInv, files
  <2>4. CASE SearchExhausted \/ ConfirmationsEnd \/ FinishSearch \/ KillSearch
    BY <1>3, <2>4 DEF SearchExhausted, ConfirmationsEnd, FinishSearch, KillSearch, AdmittedInv,
       files, state
  <2>5. CASE AcceptCandidate
    BY <1>3, <2>5 DEF AcceptCandidate, AdmittedInv
  <2>6. ASSUME NEW lap \in LapTimes \cup {0}, SearchMoves(lap)
        PROVE  AdmittedInv'
    BY <1>3, <2>6 DEF SearchMoves, BaselineLap, Screen, Confirm, AdmittedInv, files, state
  <2> QED  BY <1>3, <2>1, <2>2, <2>3, <2>4, <2>5, <2>6 DEF SearchNext, SearchMoves
<1>4. ~RecordEvaluation => UNCHANGED journal
  BY DEF SearchNext, BeginSearch, BaselineEnds, NextCandidate, SearchExhausted, ConfirmationsEnd,
         AcceptCandidate, FinishSearch, KillSearch, BaselineLap, Screen, Confirm, files
<1> QED  BY <1>1, <1>2, <1>3, <1>4

\* Nothing is saved before its laps finished.
LEMMA SearchProvedStep == ASSUME ProvedInv, SearchNext PROVE ProvedInv'
<1>1. CASE BeginSearch
  BY <1>1 DEF BeginSearch, ProvedInv, files
<1>2. CASE BaselineEnds
  BY <1>2, BaselineEndsMoves DEF ProvedInv
<1>3. CASE NextCandidate
  BY <1>3 DEF NextCandidate, ProvedInv, files
<1>4. CASE SearchExhausted \/ ConfirmationsEnd \/ FinishSearch \/ KillSearch
  BY <1>4 DEF SearchExhausted, ConfirmationsEnd, FinishSearch, KillSearch, ProvedInv, files, state
<1>5. CASE RecordEvaluation
  <2>1. proved \subseteq proved' /\ (Confirmed => candidate \in proved')
    BY <1>5 DEF RecordEvaluation, Proved, Confirmed
  <2>2. searching = "record" /\ searching' = (IF Confirmed THEN "accept" ELSE "search")
        /\ UNCHANGED <<saved, initial, incumbent, candidate>>
    BY <1>5 DEF RecordEvaluation
  <2> QED  BY <2>1, <2>2 DEF ProvedInv
<1>6. CASE AcceptCandidate
  BY <1>6 DEF AcceptCandidate, ProvedInv
<1>7. ASSUME NEW lap \in LapTimes \cup {0}, SearchMoves(lap)
      PROVE  ProvedInv'
  BY <1>7 DEF SearchMoves, BaselineLap, Screen, Confirm, ProvedInv, files, state
<1> QED  BY <1>1, <1>2, <1>3, <1>4, <1>5, <1>6, <1>7 DEF SearchNext, SearchMoves

\* No schedule gets slower where the recording is not.
LEMMA SearchSchedulesStep == ASSUME SearchShape, SchedulesInv, SearchNext PROVE SchedulesInv'
<1> DEFINE R == {r \in [boundary : Nat, move : Int] : Shortening(r)}
<1>0. ASSUME NEW s, NEW t, s = t
      PROVE  NoSlower(s) <=> NoSlower(t)
  BY <1>0
<1>1. CASE BeginSearch
  <2>1. NoSlower(initial') /\ incumbent' = initial' /\ candidate' = initial' /\ saved' = saved
        /\ requests' = <<>>
    BY <1>1, UnshortenedNoSlower DEF BeginSearch, SchedulesInv, files
  <2>2. <<>> \in Seq(R)
    OBVIOUS
  <2> QED  BY <2>1, <2>2 DEF SchedulesInv, NoSlower, Valid, Ticks, Effective
<1>2. CASE BaselineEnds
  <2>1. CASE searching' = "stopped" /\ UNCHANGED <<saved, trial, requests>>
    BY <1>2, <2>1, BaselineEndsMoves DEF SchedulesInv, NoSlower, Valid, Ticks, Effective
  <2>2. ASSUME NEW order \in WindowOrders(initial), requests' = SearchRequests(order),
               saved' = candidate
        PROVE  SchedulesInv'
    <3>1. requests' \in Seq(R)
      BY <2>2, RequestsShorten DEF SearchShape
    <3>2. UNCHANGED <<initial, incumbent, candidate>>
      BY <1>2, BaselineEndsMoves
    <3> QED  BY <2>2, <3>1, <3>2 DEF SchedulesInv, NoSlower, Valid, Ticks, Effective
  <2> QED  BY <1>2, <2>1, <2>2, BaselineEndsMoves
<1>3. CASE NextCandidate
  <2>1. requests # <<>> /\ requests \in Seq(R) /\ requests' = Tail(requests)
    BY <1>3 DEF NextCandidate, SchedulesInv
  <2> HIDE DEF R
  <2>2. Head(requests) \in R /\ Tail(requests) \in Seq(R)
    BY <2>1
  <2>3. Shortens(incumbent, Head(requests)) => NoSlower(Shorten(incumbent, Head(requests)))
    BY <2>2, ShortenNoSlower DEF SearchShape, SchedulesInv, R
  <2>4. candidate' = candidate \/ NoSlower(candidate')
    BY <1>3, <2>3 DEF NextCandidate
  <2>5. UNCHANGED <<initial, incumbent, saved>>
    BY <1>3 DEF NextCandidate, files
  <2> QED  BY <2>1, <2>2, <2>4, <2>5 DEF SchedulesInv, R, NoSlower, Valid, Ticks, Effective
<1>4. CASE SearchExhausted \/ ConfirmationsEnd \/ FinishSearch \/ KillSearch
  BY <1>4 DEF SearchExhausted, ConfirmationsEnd, FinishSearch, KillSearch, SchedulesInv, files,
     state,
     NoSlower, Valid, Ticks, Effective
<1>5. CASE RecordEvaluation
  BY <1>5 DEF RecordEvaluation, SchedulesInv, NoSlower, Valid, Ticks, Effective
<1>6. CASE AcceptCandidate
  BY <1>6 DEF AcceptCandidate, SchedulesInv, NoSlower, Valid, Ticks, Effective
<1>7. ASSUME NEW lap \in LapTimes \cup {0}, SearchMoves(lap)
      PROVE  SchedulesInv'
  BY <1>7 DEF SearchMoves, BaselineLap, Screen, Confirm, SchedulesInv, files, state,
     NoSlower, Valid, Ticks, Effective
<1> QED  BY <1>1, <1>2, <1>3, <1>4, <1>5, <1>6, <1>7 DEF SearchNext, SearchMoves

\* The inductive invariant of the search holds of every behavior.
THEOREM SearchInductive == SearchSpec => []SearchInv
<1>1. SearchInit => SearchInv
  <2> SUFFICES ASSUME SearchInit PROVE SearchInv
    OBVIOUS
  <2>1. <<>> \in Seq(Nat) /\ <<>> \in Seq(Entry) /\ Len(<<>>) = 0
        /\ <<>> \in Seq({r \in [boundary : Nat, move : Int] : Shortening(r)})
    OBVIOUS
  <2>2. SearchShape /\ BudgetInv
    BY <2>1, UnshortenedNoSlower, SearchConstants DEF SearchInit, SearchShape, BudgetInv
  <2>3. AdmittedInv /\ ProvedInv
    BY DEF SearchInit, AdmittedInv, ProvedInv
  <2>4. SchedulesInv
    BY <2>1, UnshortenedNoSlower DEF SearchInit, SchedulesInv
  <2> QED  BY <2>2, <2>3, <2>4 DEF SearchInv
<1>2. SearchInv /\ [SearchNext]_searchVars => SearchInv'
  <2> SUFFICES ASSUME SearchInv, [SearchNext]_searchVars PROVE SearchInv'
    OBVIOUS
  <2>1. CASE SearchNext
    BY <2>1, SearchShapeStep, SearchBudgetStep, SearchAdmittedStep, SearchProvedStep,
       SearchSchedulesStep DEF SearchInv
  <2>2. CASE UNCHANGED searchVars
    BY <2>2 DEF SearchInv, searchVars, SearchShape, BudgetInv, AdmittedInv, Admitted, ProvedInv,
       SchedulesInv, NoSlower, Valid, Ticks, Effective
  <2> QED  BY <2>1, <2>2
<1> QED  BY <1>1, <1>2, PTL DEF SearchSpec

\* A search keeps its budget and saves only what was driven, for any laps, times and budgets
\* (trackmania/trajectory_optimization.py).
THEOREM SearchSafe == SearchSpec => []SearchIsSafe
<1>1. SearchInv => SearchIsSafe
  BY DEF SearchInv, SearchIsSafe, BudgetInv, AdmittedInv, Admitted, ProvedInv, SchedulesInv,
     NoSlower
<1> QED  BY <1>1, SearchInductive, PTL

\* Among the first laps one is the longest.
LEMMA LongestLap ==
    ASSUME NEW times \in Seq(Nat), Len(times) > 0
    PROVE  \E j \in 1 .. Len(times) : \A m \in 1 .. Len(times) : times[m] <= times[j]
<1> DEFINE LongestOf(k) == \E j \in 1 .. k : \A m \in 1 .. k : times[m] <= times[j]
           S == {n \in Nat : n + 1 > Len(times) \/ LongestOf(n + 1)}
<1>1. Len(times) \in Nat /\ \A m \in 1 .. Len(times) : times[m] \in Nat
  OBVIOUS
<1>2. LongestOf(1)
  <2>1. \A m \in 1 .. 1 : times[m] <= times[1]
    BY <1>1
  <2> QED  BY <2>1
<1>3. ASSUME NEW k \in 1 .. Len(times), LongestOf(k), k + 1 <= Len(times)
      PROVE  LongestOf(k + 1)
  <2>1. PICK j \in 1 .. k : \A m \in 1 .. k : times[m] <= times[j]
    BY <1>3
  <2> DEFINE l == k + 1
  <2>2. l \in 1 .. Len(times) /\ j \in 1 .. l /\ l \in 1 .. l
    BY <1>1, <1>3
  <2>3. \A m \in 1 .. l : m \in 1 .. Len(times) /\ (m \in 1 .. k \/ m = l)
    BY <1>1, <1>3
  <2>4. times[l] \in Nat /\ times[j] \in Nat
    BY <1>1, <2>2
  <2> HIDE DEF l
  <2>5. CASE times[l] <= times[j]
    <3>1. \A m \in 1 .. l : times[m] <= times[j]
      BY <2>1, <2>3, <2>5
    <3> QED  BY <2>2, <3>1 DEF l
  <2>6. CASE times[j] <= times[l]
    <3>1. ASSUME NEW m \in 1 .. l PROVE times[m] <= times[l]
      <4>1. times[m] \in Nat
        BY <1>1, <2>3
      <4>2. CASE m = l
        BY <2>4, <4>2
      <4>3. CASE m \in 1 .. k
        <5>1. times[m] <= times[j]
          BY <2>1, <4>3
        <5> QED  BY <2>4, <2>6, <4>1, <5>1
      <4> QED  BY <2>3, <4>2, <4>3
    <3> QED  BY <2>2, <3>1 DEF l
  <2>7. times[l] <= times[j] \/ times[j] <= times[l]
    BY <2>4
  <2> QED  BY <2>5, <2>6, <2>7
<1> HIDE DEF LongestOf
<1>4. 0 \in S
  BY <1>2
<1>5. ASSUME NEW n \in Nat, n \in S
      PROVE  n + 1 \in S
  <2>1. CASE (n + 1) + 1 > Len(times)
    BY <2>1
  <2>2. CASE ~((n + 1) + 1 > Len(times))
    <3>1. n + 1 \in 1 .. Len(times) /\ (n + 1) + 1 <= Len(times) /\ LongestOf(n + 1)
      BY <1>1, <1>5, <2>2
    <3>2. LongestOf((n + 1) + 1)
      BY <1>3, <3>1
    <3> QED  BY <3>2
  <2> QED  BY <2>1, <2>2
<1>6. Nat \subseteq S
  <2> HIDE DEF S
  <2> QED  BY <1>4, <1>5, SetInduction
<1> DEFINE n == Len(times) - 1
<1>7. n \in Nat /\ n + 1 = Len(times)
  BY <1>1
<1> HIDE DEF n
<1>8. LongestOf(n + 1)
  BY <1>1, <1>6, <1>7
<1>9. LongestOf(Len(times))
  BY <1>7, <1>8
<1> QED  BY <1>9 DEF LongestOf

\* A rank among some laps is one of their times.
LEMMA RankedType ==
    ASSUME NEW times \in Seq(Nat), NEW k \in 1 .. Len(times)
    PROVE  Ranked(times, k) \in Nat
<1> DEFINE below(j) == {m \in DOMAIN times : times[m] <= times[j]}
           J == {j \in DOMAIN times : Cardinality(below(j)) >= k}
           T == {times[i] : i \in J}
<1>1. Len(times) \in Nat /\ DOMAIN times = 1 .. Len(times)
        /\ \A m \in DOMAIN times : times[m] \in Nat
  OBVIOUS
<1>2. PICK j \in 1 .. Len(times) : \A m \in 1 .. Len(times) : times[m] <= times[j]
  <2>1. Len(times) > 0
    BY <1>1
  <2> QED  BY <2>1, LongestLap
<1>3. below(j) = 1 .. Len(times)
  BY <1>1, <1>2
<1>4. Cardinality(1 .. Len(times)) = Len(times)
  <2>1. 1 \in Int /\ Len(times) \in Int /\ Len(times) >= 1
    BY <1>1
  <2>2. Cardinality(1 .. Len(times)) = IF 1 > Len(times) THEN 0 ELSE Len(times) - 1 + 1
    BY <2>1, FS_Interval
  <2> QED  BY <2>1, <2>2
<1>5. j \in J
  <2> HIDE DEF below
  <2> QED  BY <1>1, <1>3, <1>4
<1>6. T \in SUBSET Nat /\ T # {}
  <2> HIDE DEF below
  <2> QED  BY <1>1, <1>5
<1> HIDE DEF T, J
<1>7. \E x \in T : \A y \in T : x <= y
  BY <1>6, LeastExists
<1>8. Min(T) \in T
  BY <1>7 DEF Min
<1>9. Ranked(times, k) = Min(T)
  BY DEF Ranked, T, J
<1> QED  BY <1>6, <1>8, <1>9

\* The median of clean laps is a number.
LEMMA MedianType ==
    ASSUME NEW timed \in Seq(Nat), Len(timed) > 0, Clean(timed)
    PROVE  MedianOf(timed) \in Nat
<1>1. Finished(timed) = timed /\ Len(timed) \in Nat
  BY DEF Clean
<1>2. (Len(timed) + 1) \div 2 \in 1 .. Len(timed) /\ Len(timed) \div 2 + 1 \in 1 .. Len(timed)
  BY <1>1
<1>3. MedianOf(timed) = Ranked(timed, (Len(timed) + 1) \div 2)
                          + Ranked(timed, Len(timed) \div 2 + 1)
  BY <1>1 DEF MedianOf
<1> DEFINE a == (Len(timed) + 1) \div 2
           b == Len(timed) \div 2 + 1
<1>4. a \in 1 .. Len(timed) /\ b \in 1 .. Len(timed)
        /\ MedianOf(timed) = Ranked(timed, a) + Ranked(timed, b)
  BY <1>2, <1>3
<1> HIDE DEF a, b
<1>5. Ranked(timed, a) \in Nat /\ Ranked(timed, b) \in Nat
  BY <1>4, RankedType
<1> QED  BY <1>4, <1>5

\* What is accepted finished every lap, so its median is known.
MedianInv ==
    /\ median \in Nat /\ runs \in 0 .. MaxRuns
    /\ searching = "accept" => Clean(outcomes) /\ Len(outcomes) > 0

LEMMA MedianStep == ASSUME SearchShape, MedianInv, SearchNext PROVE MedianInv'
<1>1. outcomes \in Seq(Nat) /\ MaxRuns \in Nat
  BY SearchAssumption DEF SearchShape
<1>2. CASE BeginSearch
  BY <1>1, <1>2 DEF BeginSearch, MedianInv
<1>3. CASE BaselineEnds
  <2>1. /\ UNCHANGED runs /\ searching' # "accept" /\ Len(outcomes) = BaselineTrials
        /\ \/ median' = median
           \/ Clean(outcomes) /\ median' = MedianOf(outcomes)
    BY <1>3 DEF BaselineEnds
  <2>2. median' \in Nat
    BY <1>1, <2>1, MedianType, SearchConstants DEF MedianInv
  <2> QED  BY <2>1, <2>2 DEF MedianInv
<1>4. CASE NextCandidate \/ SearchExhausted \/ ConfirmationsEnd \/ FinishSearch \/ KillSearch
  BY <1>4 DEF NextCandidate, SearchExhausted, ConfirmationsEnd, FinishSearch, KillSearch,
              MedianInv, state
<1>5. CASE RecordEvaluation
  <2>1. /\ UNCHANGED <<runs, median, outcomes>>
             /\ searching' = IF Confirmed THEN "accept" ELSE "search"
    BY <1>5 DEF RecordEvaluation
  <2>2. Confirmed => Clean(outcomes) /\ Len(outcomes) > 0
    BY SearchConstants DEF Confirmed
  <2>3. searching' = "accept" => Confirmed
    BY <2>1
  <2>4. Clean(outcomes') <=> Clean(outcomes)
    BY <2>1
  <2> QED  BY <2>1, <2>2, <2>3, <2>4 DEF MedianInv
<1>6. CASE AcceptCandidate
  <2>1. /\ searching = "accept" /\ median' = MedianOf(outcomes) /\ UNCHANGED runs
        /\ searching' # "accept"
    BY <1>6 DEF AcceptCandidate
  <2>2. median' \in Nat
    BY <1>1, <2>1, MedianType DEF MedianInv
  <2> QED  BY <2>1, <2>2 DEF MedianInv
<1>7. ASSUME NEW lap \in LapTimes \cup {0}, SearchMoves(lap)
      PROVE  MedianInv'
  BY <1>7 DEF SearchMoves, BaselineLap, Screen, Confirm, state, MedianInv
<1> QED  BY <1>2, <1>3, <1>4, <1>5, <1>6, <1>7 DEF SearchNext, SearchMoves

\* The types of the search hold of every behavior.
THEOREM SearchTypeCorrect == SearchSpec => []SearchTypeOK
<1>1. SearchInit => MedianInv
  BY SearchAssumption DEF SearchInit, MedianInv
<1>2. SearchInv /\ MedianInv /\ [SearchNext]_searchVars => MedianInv'
  <2> SUFFICES ASSUME SearchInv, MedianInv, [SearchNext]_searchVars PROVE MedianInv'
    OBVIOUS
  <2>1. CASE UNCHANGED searchVars
    <3>1. UNCHANGED <<runs, median, searching, outcomes>>
      BY <2>1 DEF searchVars, state
    <3>2. Clean(outcomes') <=> Clean(outcomes)
      BY <3>1
    <3> QED  BY <3>1, <3>2 DEF MedianInv
  <2> QED  BY <2>1, MedianStep DEF SearchInv
<1>3. SearchInv /\ MedianInv => SearchTypeOK
  BY DEF SearchInv, SearchShape, MedianInv, SearchTypeOK, Schedule
<1> QED  BY <1>1, <1>2, <1>3, SearchInductive, PTL DEF SearchSpec

-----------------------------------------------------------------------------
(* The summaries of an actor.                                              *)

\* The parameters of an actor's episodes.
LEMMA SummaryParameters ==
    /\ MaxEpisodeSteps \in Nat \ {0} /\ ChunkTransitions \in Nat \ {0}
    /\ EvaluationTrials \in Nat \ {0} /\ StepLimit \in Nat \ {0}
    /\ MaxEpisodes \in Nat /\ MaxEvaluations \in Nat /\ MaxPolicies \in Nat
    /\ RequiredFinishes \in Nat
    /\ "none" \notin Reasons /\ "max_steps" \notin Reasons /\ "telemetry_error" \notin Reasons
    /\ "capture_interruption" \notin Reasons
    /\ Took \subseteq Nat /\ SkippedFrames \subseteq Nat
  BY SummariesAssumption

\* The greatest of bounded numbers, and 0.
LEMMA LongestIs ==
    ASSUME NEW S \in SUBSET Nat, NEW b \in Nat, \A n \in S : n <= b
    PROVE  Longest(S) \in S \cup {0} /\ Longest(S) \in Nat /\ \A n \in S : n <= Longest(S)
  <1> DEFINE U == S \cup {0}
  <1>1. U \in SUBSET Nat /\ U # {} /\ \A n \in U : n <= b
    OBVIOUS
  <1>2. Max(U) \in U /\ \A n \in U : n <= Max(U)
    BY <1>1, MaxExists
  <1> QED BY <1>1, <1>2 DEF Longest

\* Numbers of a sequence are bounded by their sum.
LEMMA BoundedBySum ==
    ASSUME NEW n \in Nat, NEW f, \A k \in 1 .. n : f[k] \in Nat
    PROVE  /\ IsFiniteSet(1 .. n) /\ SumFunctionOnSet(f, 1 .. n) \in Nat
           /\ \A k \in 1 .. n : f[k] <= SumFunctionOnSet(f, 1 .. n)
  <1>1. IsFiniteSet(1 .. n)
    BY FS_Interval
  <1> QED BY <1>1, SumNat, SumBound

\* How many steps of a lap have something.
LEMMA SomeOf ==
    ASSUME NEW n \in Nat, NEW S \in SUBSET (1 .. n)
    PROVE  /\ IsFiniteSet(S) /\ Cardinality(S) \in Nat /\ Cardinality(S) <= n
           /\ Cardinality(S) = n => S = 1 .. n
           /\ n = 0 => Cardinality(S) = 0
  <1>1. IsFiniteSet(1 .. n) /\ Cardinality(1 .. n) = n
    BY FS_Interval
  <1>2. IsFiniteSet(S) /\ Cardinality(S) <= n /\ (Cardinality(S) = n => S = 1 .. n)
    BY <1>1, FS_Subset
  <1>3. Cardinality(S) \in Nat
    BY <1>2, FS_CardinalityType
  <1> QED BY <1>2, <1>3

\* The steps of a lap.
LEMMA StepsOf ==
    ASSUME NEW walk \in Seq(GameStep)
    PROVE  /\ Len(walk) \in Nat /\ DOMAIN walk = 1 .. Len(walk)
           /\ walk # <<>> <=> Len(walk) > 0
           /\ \A k \in 1 .. Len(walk) :
                /\ walk[k] \in GameStep /\ walk[k].took \in Nat /\ walk[k].skipped \in Nat
                /\ walk[k].time \in Nat \ {0} /\ walk[k].reason \in Reasons \cup {"none"}
           /\ Measured(walk) \in SUBSET (1 .. Len(walk))
  <1>1. Len(walk) \in Nat /\ DOMAIN walk = 1 .. Len(walk)
    OBVIOUS
  <1>2. \A k \in 1 .. Len(walk) : walk[k] \in GameStep
    OBVIOUS
  <1>3. \A s \in GameStep : /\ s.took \in Nat /\ s.skipped \in Nat /\ s.time \in Nat \ {0}
                            /\ s.reason \in Reasons \cup {"none"}
    BY SummaryParameters DEF GameStep
  <1>4. walk # <<>> <=> Len(walk) > 0
    BY <1>1
  <1>5. Measured(walk) \in SUBSET (1 .. Len(walk))
    BY <1>1 DEF Measured
  <1> QED BY <1>1, <1>2, <1>3, <1>4, <1>5

\* The longest step of a lap, and the time that 99 of 100 do not exceed.
LEMMA TimesOf ==
    ASSUME NEW walk \in Seq(GameStep)
    PROVE  /\ Longest(Times(walk)) \in Nat
           /\ \A k \in Measured(walk) : walk[k].took <= Longest(Times(walk))
           /\ Percentile99(walk) \in Nat /\ Percentile99(walk) <= Longest(Times(walk))
           /\ walk = <<>> => Longest(Times(walk)) = 0 /\ Percentile99(walk) = 0
  <1> DEFINE n == Len(walk)
             took == [k \in 1 .. n |-> walk[k].took]
             b == SumFunctionOnSet(took, 1 .. n)
             T == Times(walk)
             L == Longest(T)
             M == Measured(walk)
  <1>1. n \in Nat /\ M \in SUBSET (1 .. n) /\ \A k \in 1 .. n : walk[k].took \in Nat
    BY StepsOf
  <1>2. \A k \in 1 .. n : took[k] \in Nat /\ took[k] = walk[k].took
    BY <1>1
  <1>3. b \in Nat /\ \A k \in 1 .. n : took[k] <= b
    <2> HIDE DEF took, n
    <2> QED BY <1>1, <1>2, BoundedBySum
  <1>4. T \in SUBSET Nat /\ \A t \in T : t <= b
    BY <1>1, <1>2, <1>3 DEF Times
  <1>5. L \in T \cup {0} /\ L \in Nat /\ \A t \in T : t <= L
    <2> HIDE DEF T, b
    <2> QED BY <1>3, <1>4, LongestIs
  <1>6. \A k \in M : walk[k].took \in T /\ walk[k].took > 0 /\ walk[k].took <= L
    BY <1>5 DEF Times, Measured
  <1>7. CASE M = {}
    <2>1. T = {}
      BY <1>7 DEF Times
    <2>2. L = 0
      BY <2>1, <1>5
    <2>3. Percentile99(walk) = 0
      BY <1>7 DEF Percentile99
    <2> QED BY <1>7, <2>2, <2>3
  <1>8. CASE M # {}
    <2>1. L \in T
      BY <1>5, <1>6, <1>8, <1>4
    <2>2. NoLonger(walk, L) = M
      BY <1>6 DEF NoLonger
    <2>3. Cardinality(M) \in Nat
      BY <1>1, SomeOf
    <2> DEFINE C == {t \in T : 100 * Cardinality(NoLonger(walk, t)) >= 99 * Cardinality(M)}
    <2>4. L \in C
      BY <2>1, <2>2, <2>3
    <2>5. C \in SUBSET Nat /\ C # {}
      BY <2>4, <1>4
    <2>6. \E x \in C : \A y \in C : x <= y
      <3> HIDE DEF C
      <3> QED BY <2>5, LeastExists
    <2>7. Min(C) \in C /\ \A y \in C : Min(C) <= y
      <3> HIDE DEF C
      <3> QED BY <2>6 DEF Min
    <2>8. Percentile99(walk) = Min(C)
      BY <1>8 DEF Percentile99
    <2>9. Percentile99(walk) \in Nat /\ Percentile99(walk) <= L
      <3> HIDE DEF C
      <3> QED BY <2>4, <2>5, <2>7, <2>8
    <2>10. walk # <<>>
      BY <1>8 DEF Measured
    <2> QED BY <2>9, <2>10, <1>5, <1>6
  <1> QED BY <1>7, <1>8

\* The skipped frames of a lap.
LEMMA SkippedOf ==
    ASSUME NEW walk \in Seq(GameStep)
    PROVE  LET most == Longest({walk[k].skipped : k \in DOMAIN walk}) IN
           /\ SkippedTotal(walk) \in Nat /\ most \in Nat /\ most <= SkippedTotal(walk)
           /\ walk = <<>> => SkippedTotal(walk) = 0
  <1> DEFINE n == Len(walk)
             f == Skipped(walk)
             b == SumFunctionOnSet(f, 1 .. n)
             S == {walk[k].skipped : k \in DOMAIN walk}
             most == Longest(S)
  <1>1. n \in Nat /\ DOMAIN walk = 1 .. n /\ \A k \in 1 .. n : walk[k].skipped \in Nat
    BY StepsOf
  <1>2. \A k \in 1 .. n : f[k] \in Nat /\ f[k] = walk[k].skipped
    BY <1>1 DEF Skipped
  <1>3. b \in Nat /\ \A k \in 1 .. n : f[k] <= b
    <2> HIDE DEF f, n
    <2> QED BY <1>1, <1>2, BoundedBySum
  <1>4. S \in SUBSET Nat /\ \A t \in S : t <= b
    <2> HIDE DEF b, f, n
    <2> QED BY <1>1, <1>2, <1>3
  <1>5. most \in S \cup {0} /\ most \in Nat
    <2> HIDE DEF S, b
    <2> QED BY <1>3, <1>4, LongestIs
  <1>6. SkippedTotal(walk) = b
    BY <1>1 DEF SkippedTotal
  <1>7. most <= b
    <2> HIDE DEF S, b, most
    <2> QED BY <1>3, <1>4, <1>5
  <1>8. walk = <<>> => SkippedTotal(walk) = 0
    <2> SUFFICES ASSUME walk = <<>> PROVE SkippedTotal(walk) = 0
      OBVIOUS
    <2>1. DOMAIN walk = {}
      OBVIOUS
    <2> QED BY <2>1, SumEmpty DEF SkippedTotal
  <1> QED BY <1>3, <1>5, <1>6, <1>7, <1>8

\* How an episode ends by itself.
LEMMA EndOf ==
    ASSUME NEW walk \in Seq(GameStep)
    PROVE  /\ NaturalEnd(walk) \in Endings /\ NaturalEnd(walk) # "telemetry_error"
           /\ NaturalEnd(walk) = "finished" =>
                walk # <<>> /\ FinalInfo(walk).reason = "finished"
           /\ NaturalEnd(walk) = "max_steps" <=> FinalInfo(walk).reason = "none"
           /\ FinalInfo(walk).reason \in Reasons \cup {"none"} /\ FinalInfo(walk).time \in Nat
           /\ walk # <<>> => FinalInfo(walk) = walk[Len(walk)] /\ FinalInfo(walk).time > 0
  <1>1. CASE walk = <<>>
    BY <1>1 DEF FinalInfo, NaturalEnd, Endings
  <1>2. CASE walk # <<>>
    <2>1. /\ FinalInfo(walk) = walk[Len(walk)]
          /\ FinalInfo(walk).reason \in Reasons \cup {"none"}
          /\ FinalInfo(walk).time \in Nat \ {0}
      BY <1>2, StepsOf DEF FinalInfo
    <2> QED BY <1>2, <2>1, SummaryParameters DEF NaturalEnd, Endings
  <1> QED BY <1>1, <1>2

\* What a summary says, and that it makes sense.
LEMMA SummaryIs ==
    ASSUME NEW walk \in Seq(GameStep), NEW id \in Nat, NEW version \in 0 .. MaxPolicies,
           NEW why \in Endings
    PROVE  LET s == Summary(id, walk, why, version) IN
           /\ s \in EpisodeSummary
           /\ s.id = id /\ s.version = version /\ s.termination = why
           /\ s.finished = (why = "finished") /\ s.steps = Len(walk)
           /\ s.raceTime = FinalInfo(walk).time
           /\ s.finishTime = IF why = "finished" THEN FinalInfo(walk).time ELSE 0
           /\ s.measured = Cardinality(Measured(walk)) /\ s.longest = Longest(Times(walk))
           /\ ObservabilityMakesSense(s)
  <1> DEFINE s == Summary(id, walk, why, version)
             measured == Cardinality(Measured(walk))
             bumps == {k \in DOMAIN walk : walk[k].skipped > 0}
             most == Longest({walk[k].skipped : k \in DOMAIN walk})
  <1>1. /\ Len(walk) \in Nat /\ DOMAIN walk = 1 .. Len(walk) /\ (walk # <<>> <=> Len(walk) > 0)
        /\ Measured(walk) \in SUBSET (1 .. Len(walk))
    BY StepsOf
  <1>2. measured \in Nat /\ measured <= Len(walk) /\ (walk = <<>> => measured = 0)
    BY <1>1, SomeOf
  <1>3. bumps \in SUBSET (1 .. Len(walk))
    BY <1>1
  <1>4. /\ Cardinality(bumps) \in Nat /\ Cardinality(bumps) <= Len(walk)
        /\ walk = <<>> => Cardinality(bumps) = 0
    <2> HIDE DEF bumps
    <2> QED BY <1>1, <1>3, SomeOf
  <1>5. /\ Longest(Times(walk)) \in Nat /\ Percentile99(walk) \in Nat
        /\ Percentile99(walk) <= Longest(Times(walk))
        /\ walk = <<>> => Longest(Times(walk)) = 0 /\ Percentile99(walk) = 0
    BY TimesOf
  <1>6. SkippedTotal(walk) \in Nat /\ most \in Nat /\ most <= SkippedTotal(walk)
        /\ (walk = <<>> => SkippedTotal(walk) = 0)
    BY SkippedOf
  <1>7. FinalInfo(walk).time \in Nat
    BY EndOf
  <1>8. s = [id |-> id, steps |-> Len(walk), version |-> version,
             termination |-> why, finished |-> (why = "finished"),
             raceTime |-> FinalInfo(walk).time,
             finishTime |-> IF why = "finished" THEN FinalInfo(walk).time ELSE 0,
             measured |-> measured, valid |-> (walk # <<>> /\ measured = Len(walk)),
             p99 |-> Percentile99(walk), longest |-> Longest(Times(walk)),
             skippedTotal |-> SkippedTotal(walk), skippedMax |-> most,
             skippedSteps |-> Cardinality(bumps)]
    BY DEF Summary
  <1> HIDE DEF s, measured, bumps, most
  <1>9. s \in EpisodeSummary
    BY <1>1, <1>2, <1>4, <1>5, <1>6, <1>7, <1>8 DEF EpisodeSummary
  <1>10. /\ s.id = id /\ s.version = version /\ s.termination = why
         /\ s.finished = (why = "finished") /\ s.steps = Len(walk)
         /\ s.raceTime = FinalInfo(walk).time
         /\ s.finishTime = IF why = "finished" THEN FinalInfo(walk).time ELSE 0
         /\ s.measured = measured /\ s.longest = Longest(Times(walk))
         /\ s.valid = (walk # <<>> /\ measured = Len(walk))
         /\ s.p99 = Percentile99(walk)
         /\ s.skippedTotal = SkippedTotal(walk) /\ s.skippedMax = most
         /\ s.skippedSteps = Cardinality(bumps)
    BY <1>8
  <1>11. ObservabilityMakesSense(s)
    <2>1. s.steps = 0 => walk = <<>>
      BY <1>1, <1>10
    <2>2. s.steps = 0 => /\ s.p99 = 0 /\ s.longest = 0 /\ s.measured = 0
                         /\ s.skippedTotal = 0 /\ s.skippedMax = 0 /\ s.skippedSteps = 0
      BY <2>1, <1>2, <1>4, <1>5, <1>6, <1>10
    <2>3. s.skippedSteps <= s.steps /\ s.skippedMax <= s.skippedTotal
      BY <1>4, <1>6, <1>10
    <2>4. s.p99 <= s.longest /\ s.measured <= s.steps
      BY <1>2, <1>5, <1>10
    <2>5. s.valid => s.measured = s.steps /\ s.steps # 0
      <3> SUFFICES ASSUME s.valid PROVE s.measured = s.steps /\ s.steps # 0
        OBVIOUS
      <3>1. walk # <<>> /\ measured = Len(walk)
        BY <1>10
      <3> QED BY <3>1, <1>1, <1>10
    <2> QED BY <2>2, <2>3, <2>4, <2>5 DEF ObservabilityMakesSense
  <1> QED BY <1>9, <1>10, <1>11 DEF s, measured

\* What the learner accepts of them.
LEMMA SummaryAccepted ==
    ASSUME NEW walk \in Seq(GameStep), NEW id \in Nat, NEW version \in 0 .. MaxPolicies,
           NEW why \in Endings, why = "finished" => walk # <<>>
    PROVE  /\ ValidEvaluation(Summary(id, walk, why, version))
           /\ walk # <<>> => ValidEpisode(Summary(id, walk, why, version))
  <1> DEFINE s == Summary(id, walk, why, version)
  <1>1. /\ s.termination = why /\ s.finished = (why = "finished") /\ s.steps = Len(walk)
        /\ s.raceTime = FinalInfo(walk).time
        /\ s.finishTime = IF why = "finished" THEN FinalInfo(walk).time ELSE 0
        /\ ObservabilityMakesSense(s)
    BY SummaryIs
  <1>2. /\ Len(walk) \in Nat /\ (walk # <<>> => Len(walk) >= 1)
        /\ walk # <<>> => FinalInfo(walk).time > 0
    BY StepsOf, EndOf
  <1> HIDE DEF s
  <1>3. ValidEvaluation(s)
    BY <1>1, <1>2 DEF ValidEvaluation
  <1>4. walk # <<>> => ValidEpisode(s)
    BY <1>1, <1>2, <1>3 DEF ValidEpisode
  <1> QED BY <1>3, <1>4 DEF s

-----------------------------------------------------------------------------
(* The inductive invariant.                                                *)

\* The steps driven so far: the episode ended with none but the last of them, and with the last
\* only where it is over, or the actor stops.
DriveInv ==
    /\ \A k \in 1 .. Len(stepsDriven) - 1 : stepsDriven[k].reason = "none"
    /\ thread.at \in {"training", "evaluating"} =>
         /\ Len(stepsDriven) < MaxEpisodeSteps
         /\ \A k \in 1 .. Len(stepsDriven) : stepsDriven[k].reason = "none"
    /\ thread.at \in {"finish", "trialEnds"} =>
         /\ stepsDriven # <<>>
         /\ stopped \/ FinalInfo(stepsDriven).reason # "none" \/ Len(stepsDriven) = MaxEpisodeSteps

\* What is recorded of the k-th step, and the record of the steps so far: what was spooled of it
\* and what is buffered.
IsRecorded(t, k, s) ==
    /\ t.index = k - 1 /\ ~t.interrupted
    /\ t.terminated <=> s.reason # "none"
    /\ t.truncated <=> s.reason = "none" /\ k = MaxEpisodeSteps
TrueRecord(ts, walk) ==
    Len(ts) = Len(walk) /\ \A k \in 1 .. Len(ts) : IsRecorded(ts[k], k, walk[k])
RecordsInv ==
    /\ thread.at \notin {"training", "finish"} => buffers.transitions = <<>>
    /\ thread.at \in {"training", "finish"} =>
         stopped \/ TrueRecord(sentSteps \o buffers.transitions, stepsDriven)

\* The summaries of an evaluation are of its laps; what ended a trial otherwise than the race.
IsTrial(s, lap, version) ==
    \E why \in Endings :
        /\ s = Summary(Evaluation, lap, why, version)
        /\ why = "finished" => lap # <<>> /\ FinalInfo(lap).reason = "finished"
TrialsAre(ts, ls, version) ==
    /\ Len(ls) = Len(ts)
    /\ \A k \in 1 .. Len(ts) : IsTrial(ts[k], ls[k], version)
    /\ \A k \in 1 .. Len(ts) : ts[k].termination = "telemetry_error" =>
         \A j \in k + 1 .. Len(ts) : ts[j].steps = 0
NoneFailed(ts) == \A k \in 1 .. Len(ts) : ts[k].termination # "telemetry_error"
DrivenOut(ts) ==
    \A k \in 1 .. Len(ts) : ts[k].termination = "max_steps" => ts[k].steps = MaxEpisodeSteps
TrialsInv ==
    /\ thread.at \in {"trial", "evaluating", "trialEnds", "report"} =>
         /\ chunk.evaluations = <<>>
         /\ TrialsAre(trials, laps, thread.version)
         /\ stopped \/ DrivenOut(trials)
    /\ thread.at \in {"trial", "evaluating", "trialEnds"} =>
         Len(trials) < EvaluationTrials /\ NoneFailed(trials)
    /\ thread.at = "report" => Len(trials) = EvaluationTrials

ReportInv == SummariesTypeOK /\ DriveInv /\ RecordsInv /\ TrialsInv /\ SummariesAreTrue

\* What a rollout that is spooled leaves behind; nothing is, of nothing or once the actor stops.
LEMMA SpoolFacts ==
    ASSUME SummariesTypeOK, NEW t \in Seq(Driven), NEW e \in Seq(EpisodeSummary),
           NEW v \in Seq(EpisodeSummary), NEW version \in 0 .. MaxPolicies,
           SpoolRollout(t, e, v, version)
    PROVE  /\ chunk' \in [version : 0 .. MaxPolicies, transitions : Seq(Driven),
                          episodes : Seq(EpisodeSummary), evaluations : Seq(EpisodeSummary),
                          snapshot : BOOLEAN]
           /\ sentSteps' \in Seq(Driven)
           /\ stopped \/ (t = <<>> /\ e = <<>> /\ v = <<>>)
                => chunk' = chunk /\ sentSteps' = sentSteps
           /\ ~stopped => sentSteps' = sentSteps \o t
           /\ ~stopped /\ ~(t = <<>> /\ e = <<>> /\ v = <<>>)
                => chunk'.episodes = e /\ chunk'.evaluations = v /\ (chunk'.snapshot <=> v # <<>>)
  <1>1. sentSteps \in Seq(Driven) /\ sentSteps \o t \in Seq(Driven) /\ sentSteps \o <<>> = sentSteps
    BY DEF SummariesTypeOK
  <1>2. CASE stopped \/ (t = <<>> /\ e = <<>> /\ v = <<>>)
    <2>1. chunk' = chunk /\ sentSteps' = sentSteps
      BY <1>2 DEF SpoolRollout
    <2>2. ~stopped => sentSteps = sentSteps \o t
      BY <1>1, <1>2
    <2> QED BY <2>1, <2>2, <1>1, <1>2 DEF SummariesTypeOK
  <1>3. CASE ~(stopped \/ (t = <<>> /\ e = <<>> /\ v = <<>>))
    <2> DEFINE V == {t[k].version : k \in DOMAIN t}
               w == Min(IF t = <<>> THEN {version} ELSE V)
    <2>1. /\ chunk' = [version |-> w, transitions |-> t, episodes |-> e, evaluations |-> v,
                       snapshot |-> v # <<>>]
          /\ sentSteps' = sentSteps \o t
      BY <1>3 DEF SpoolRollout
    <2>2. MaxPolicies \in Nat
      BY SummaryParameters
    <2>3. w \in 0 .. MaxPolicies
      <3>1. CASE t = <<>>
        <4>1. Min({version}) = version
          BY <2>2 DEF Min
        <4> QED BY <3>1, <4>1
      <3>2. CASE t # <<>>
        <4>1. \A k \in DOMAIN t : t[k] \in Driven
          OBVIOUS
        <4>2. \A s \in Driven : s.version \in 0 .. MaxPolicies
          BY DEF Driven
        <4>3. V \subseteq 0 .. MaxPolicies
          BY <4>1, <4>2
        <4>4. 1 \in DOMAIN t
          BY <3>2
        <4>5. V \in SUBSET Nat /\ V # {}
          BY <4>3, <4>4, <2>2
        <4>6. w = Min(V)
          BY <3>2
        <4> HIDE DEF V, w
        <4>7. \E x \in V : \A y \in V : x <= y
          BY <4>5, LeastExists
        <4>8. Min(V) \in V
          BY <4>7 DEF Min
        <4> QED BY <4>3, <4>6, <4>8
      <3> QED BY <3>1, <3>2
    <2> HIDE DEF w
    <2> QED BY <2>1, <2>3, <1>1, <1>3
  <1> QED BY <1>2, <1>3

\* A record of steps that went on is in order, and only its last step may end anything.
InSequence(ts) ==
    \A k \in DOMAIN ts :
        /\ ts[k].index = k - 1
        /\ ts[k].terminated \/ ts[k].truncated => k = Len(ts)
LEMMA RecordsInSequence ==
    ASSUME NEW walk \in Seq(GameStep), NEW ts \in Seq(Driven), TrueRecord(ts, walk),
           Len(walk) <= MaxEpisodeSteps, \A k \in 1 .. Len(walk) - 1 : walk[k].reason = "none"
    PROVE  InSequence(ts)
  <1> SUFFICES ASSUME NEW k \in DOMAIN ts
               PROVE  /\ ts[k].index = k - 1
                      /\ ts[k].terminated \/ ts[k].truncated => k = Len(ts)
    BY DEF InSequence
  <1>1. /\ k \in 1 .. Len(ts) /\ Len(ts) \in Nat /\ Len(ts) = Len(walk)
        /\ MaxEpisodeSteps \in Nat
    BY SummaryParameters DEF TrueRecord
  <1>2. IsRecorded(ts[k], k, walk[k])
    BY <1>1 DEF TrueRecord
  <1>3. ASSUME k # Len(ts) PROVE ~ts[k].terminated /\ ~ts[k].truncated
    <2>1. k \in 1 .. Len(walk) - 1 /\ k # MaxEpisodeSteps
      BY <1>1, <1>3
    <2> QED BY <1>2, <2>1 DEF IsRecorded
  <1> QED BY <1>2, <1>3 DEF IsRecorded

\* Appending after concatenating.
LEMMA AppendedAtTheEnd ==
    ASSUME NEW S, NEW a \in Seq(S), NEW b \in Seq(S), NEW x \in S
    PROVE  a \o Append(b, x) = Append(a \o b, x)
  OBVIOUS

\* One step more.
LEMMA RecordGrows ==
    ASSUME NEW walk \in Seq(GameStep), NEW ts \in Seq(Driven), TrueRecord(ts, walk),
           NEW s \in GameStep, NEW t \in Driven, IsRecorded(t, Len(walk) + 1, s)
    PROVE  TrueRecord(Append(ts, t), Append(walk, s))
  <1>1. Len(ts) \in Nat /\ Len(ts) = Len(walk)
    BY DEF TrueRecord
  <1>2. Len(Append(ts, t)) = Len(ts) + 1 /\ Len(Append(walk, s)) = Len(ts) + 1
    BY <1>1
  <1>3. ASSUME NEW k \in 1 .. Len(ts) + 1
        PROVE  IsRecorded(Append(ts, t)[k], k, Append(walk, s)[k])
    <2>1. CASE k = Len(ts) + 1
      <3>1. Append(ts, t)[k] = t /\ Append(walk, s)[k] = s
        BY <1>1, <2>1
      <3> QED BY <3>1, <2>1, <1>1
    <2>2. CASE k # Len(ts) + 1
      <3>1. Append(ts, t)[k] = ts[k] /\ Append(walk, s)[k] = walk[k] /\ k \in 1 .. Len(ts)
        BY <1>1, <1>3, <2>2
      <3> QED BY <3>1 DEF TrueRecord
    <2> QED BY <2>1, <2>2
  <1> QED BY <1>2, <1>3 DEF TrueRecord

\* A rollout without summaries is accepted, whatever the record of the steps.
LEMMA NothingSummarized ==
    ASSUME NEW c, c.episodes = <<>>, c.evaluations = <<>>, ~c.snapshot
    PROVE  ValidSubmit(c)
  <1>1. DOMAIN c.episodes = {} /\ DOMAIN c.evaluations = {}
    OBVIOUS
  <1>2. {c.evaluations[k].version : k \in DOMAIN c.evaluations} = {}
    BY <1>1
  <1>3. Cardinality({c.evaluations[k].version : k \in DOMAIN c.evaluations}) = 0
    BY <1>2, FS_EmptySet
  <1>4. \A k \in DOMAIN c.episodes : ValidEpisode(c.episodes[k])
    BY <1>1
  <1>5. \A k \in DOMAIN c.evaluations : ValidEvaluation(c.evaluations[k])
    BY <1>1
  <1>6. c.snapshot <=> c.evaluations # <<>>
    OBVIOUS
  <1>7. Cardinality({c.evaluations[k].version : k \in DOMAIN c.evaluations}) <= 1
    BY <1>3
  <1> QED BY <1>4, <1>5, <1>6, <1>7 DEF ValidSubmit

\* What was said stays true while it is not replaced.
LEMMA SaidStays ==
    ASSUME SummariesAreTrue, UNCHANGED <<chunk, sentSteps, episode, laps>>
    PROVE  SummariesAreTrue'
  <1>1. RolloutsAreAccepted'
    BY DEF SummariesAreTrue, RolloutsAreAccepted
  <1>2. SummariesFollowTheirSteps'
    BY DEF SummariesAreTrue, SummariesFollowTheirSteps
  <1>3. EvaluationsAreWhole'
    BY DEF SummariesAreTrue, EvaluationsAreWhole
  <1> QED BY <1>1, <1>2, <1>3 DEF SummariesAreTrue

\* Nothing is said of an episode or of an evaluation yet.
LEMMA NothingSaid ==
    ASSUME chunk'.episodes = <<>>, chunk'.evaluations = <<>>, ~chunk'.snapshot,
           InSequence(sentSteps')
    PROVE  SummariesAreTrue'
  <1>1. RolloutsAreAccepted'
    BY NothingSummarized DEF RolloutsAreAccepted
  <1>2. DOMAIN chunk'.episodes = {}
    OBVIOUS
  <1>3. SummariesFollowTheirSteps'
    BY <1>2 DEF SummariesFollowTheirSteps, InSequence
  <1>4. EvaluationsAreWhole'
    BY DEF EvaluationsAreWhole
  <1> QED BY <1>1, <1>3, <1>4 DEF SummariesAreTrue

LEMMA ReportInit == SummariesInit => ReportInv
  <1> SUFFICES ASSUME SummariesInit PROVE ReportInv
    OBVIOUS
  <1> USE SummaryParameters
  <1>1. SummariesTypeOK
    <2>1. /\ <<>> \in Seq(Driven) /\ <<>> \in Seq(EpisodeSummary) /\ <<>> \in Seq(GameStep)
          /\ <<>> \in Seq(Seq(GameStep)) /\ Len(<<>>) = 0
      OBVIOUS
    <2>2. /\ thread = [at |-> "loop", version |-> 0] /\ stopped = FALSE /\ held = 0
          /\ begun = 0 /\ episode = 0 /\ stepsDriven = <<>>
          /\ buffers = [transitions |-> <<>>, summaries |-> <<>>] /\ trials = <<>>
          /\ chunk = [version |-> 0, transitions |-> <<>>, episodes |-> <<>>,
                      evaluations |-> <<>>, snapshot |-> FALSE]
          /\ sentSteps = <<>> /\ laps = <<>>
      BY DEF SummariesInit, EmptyBuffers, NoChunk
    <2>3. /\ buffers \in [transitions : Seq(Driven), summaries : {<<>>}]
          /\ buffers.transitions = <<>>
      BY <2>1, <2>2
    <2>4. chunk \in [version : 0 .. MaxPolicies, transitions : Seq(Driven),
                     episodes : Seq(EpisodeSummary), evaluations : Seq(EpisodeSummary),
                     snapshot : BOOLEAN]
      BY <2>1, <2>2
    <2>5. thread \in [at : {"loop", "start", "training", "finish", "trial", "evaluating",
                            "trialEnds", "report", "ended"}, version : 0 .. held]
      BY <2>2
    <2>6. /\ stopped \in BOOLEAN /\ held \in 0 .. MaxPolicies
          /\ begun \in 0 .. MaxEvaluations /\ episode \in 0 .. MaxEpisodes
          /\ Len(buffers.transitions) < ChunkTransitions
      <3>1. Len(buffers.transitions) = 0
        BY <2>1, <2>3
      <3>2. Len(buffers.transitions) < ChunkTransitions
        BY <3>1
      <3>3. stopped = FALSE /\ held = 0 /\ begun = 0 /\ episode = 0
        BY <2>2
      <3>4. MaxPolicies \in Nat /\ MaxEvaluations \in Nat /\ MaxEpisodes \in Nat
        OBVIOUS
      <3>5. stopped \in BOOLEAN
        BY <3>3
      <3>6. held \in 0 .. MaxPolicies /\ begun \in 0 .. MaxEvaluations
        BY <3>3, <3>4
      <3>7. episode \in 0 .. MaxEpisodes
        BY <3>3, <3>4
      <3> QED BY <3>2, <3>5, <3>6, <3>7
    <2>7. /\ stepsDriven \in Seq(GameStep) /\ Len(stepsDriven) <= MaxEpisodeSteps
          /\ trials \in Seq(EpisodeSummary) /\ laps \in Seq(Seq(GameStep))
          /\ Len(trials) <= EvaluationTrials /\ Len(laps) = Len(trials)
          /\ sentSteps \in Seq(Driven)
      BY <2>1, <2>2
    <2> QED BY <2>3, <2>4, <2>5, <2>6, <2>7 DEF SummariesTypeOK
  <1>2. DriveInv /\ RecordsInv /\ TrialsInv
    BY DEF SummariesInit, DriveInv, RecordsInv, TrialsInv, EmptyBuffers
  <1>3. SummariesAreTrue
    <2>1. /\ chunk.episodes = <<>> /\ chunk.evaluations = <<>> /\ ~chunk.snapshot
          /\ sentSteps = <<>>
      BY DEF SummariesInit, NoChunk
    <2>2. ValidSubmit(chunk)
      BY <2>1, NothingSummarized
    <2>3. DOMAIN chunk.episodes = {} /\ DOMAIN sentSteps = {}
      BY <2>1
    <2> QED BY <2>1, <2>2, <2>3
        DEF SummariesAreTrue, RolloutsAreAccepted, SummariesFollowTheirSteps, EvaluationsAreWhole
  <1> QED BY <1>1, <1>2, <1>3 DEF ReportInv

\* A sequence with one element more.
LEMMA AppendedIs ==
    ASSUME NEW S, NEW a \in Seq(S), NEW x \in S
    PROVE  /\ Append(a, x) \in Seq(S) /\ Len(Append(a, x)) = Len(a) + 1
           /\ Append(a, x) # <<>> /\ Append(a, x)[Len(Append(a, x))] = x
           /\ \A k \in 1 .. Len(a) : Append(a, x)[k] = a[k]
  OBVIOUS

\* A step of the environment is a step of the game.
LEMMA StepIsGame ==
    ASSUME NEW walk \in Seq(GameStep), NEW s \in StepsAfter(walk)
    PROVE  s \in GameStep
  <1>1. FinalInfo(walk).time \in Nat /\ (walk # <<>> => FinalInfo(walk).time > 0)
    BY EndOf
  <1> QED BY <1>1, SummaryParameters DEF StepsAfter, GameStep, RaceStart

\* The other threads, and a start that fails.
LEMMA QuietReport ==
    ASSUME ReportInv, RefreshPolicy \/ StopActor \/ StartFails \/ StartTrial
    PROVE  ReportInv'
  <1> USE DEF ReportInv
  <1> USE SummaryParameters
  <1>1. SummariesAreTrue'
    BY SaidStays DEF RefreshPolicy, StopActor, StartFails, StartTrial
  <1>2. SummariesTypeOK'
    <2>1. CASE RefreshPolicy
      <3>1. /\ held' = held + 1 /\ held < MaxPolicies
            /\ UNCHANGED <<thread, stopped, begun, episode, stepsDriven, buffers, trials, chunk,
                           sentSteps, laps>>
        BY <2>1 DEF RefreshPolicy
      <3>2. held' \in 0 .. MaxPolicies /\ 0 .. held \subseteq 0 .. held'
        BY <3>1 DEF SummariesTypeOK
      <3>3. thread' \in [at : {"loop", "start", "training", "finish", "trial", "evaluating",
                               "trialEnds", "report", "ended"}, version : 0 .. held']
        BY <3>1, <3>2 DEF SummariesTypeOK
      <3> QED BY <3>1, <3>2, <3>3 DEF SummariesTypeOK
    <2>2. CASE StopActor
      BY <2>2 DEF StopActor, SummariesTypeOK
    <2>3. CASE StartFails
      BY <2>3 DEF StartFails, SummariesTypeOK
    <2>4. CASE StartTrial
      <3>1. stepsDriven' \in Seq(GameStep) /\ Len(stepsDriven') = 0
        BY <2>4 DEF StartTrial
      <3>2. /\ thread' = [thread EXCEPT !.at = "evaluating"]
            /\ UNCHANGED <<stopped, held, begun, episode, buffers, trials, chunk, sentSteps, laps>>
        BY <2>4 DEF StartTrial
      <3>3. thread' \in [at : {"loop", "start", "training", "finish", "trial", "evaluating",
                               "trialEnds", "report", "ended"}, version : 0 .. held]
        BY <3>2 DEF SummariesTypeOK
      <3>4. Len(stepsDriven') <= MaxEpisodeSteps
        BY <3>1
      <3> QED BY <3>1, <3>2, <3>3, <3>4 DEF SummariesTypeOK
    <2> QED BY <2>1, <2>2, <2>3, <2>4
  <1>3. DriveInv' /\ RecordsInv' /\ TrialsInv'
    <2>1. CASE RefreshPolicy \/ StopActor
      <3>1. /\ UNCHANGED <<thread, stepsDriven, buffers, trials, chunk, sentSteps, laps>>
            /\ stopped => stopped'
        BY <2>1 DEF RefreshPolicy, StopActor
      <3>2. DriveInv'
        BY <3>1 DEF DriveInv
      <3>3. RecordsInv' /\ TrialsInv'
        BY <3>1 DEF RecordsInv, TrialsInv
      <3> QED BY <3>2, <3>3
    <2>2. CASE StartFails
      <3>1. /\ thread.at \in {"loop", "start"} /\ thread'.at = "ended"
            /\ UNCHANGED <<stepsDriven, buffers, trials, chunk, sentSteps, laps>>
        BY <2>2 DEF StartFails, SummariesTypeOK
      <3> QED BY <3>1 DEF DriveInv, RecordsInv, TrialsInv
    <2>3. CASE StartTrial
      <3>1. /\ thread.at = "trial" /\ thread'.at = "evaluating"
            /\ thread'.version = thread.version /\ stepsDriven' = <<>>
            /\ UNCHANGED <<stopped, buffers, trials, chunk, sentSteps, laps>>
        BY <2>3 DEF StartTrial, SummariesTypeOK
      <3>2. Len(stepsDriven') = 0
        BY <3>1
      <3>3. DriveInv'
        BY <3>1, <3>2 DEF DriveInv
      <3>4. RecordsInv' /\ TrialsInv'
        BY <3>1 DEF RecordsInv, TrialsInv
      <3> QED BY <3>3, <3>4
    <2> QED BY <2>1, <2>2, <2>3
  <1> QED BY <1>1, <1>2, <1>3

\* An episode begins.
LEMMA StartTrainingReport ==
    ASSUME ReportInv, StartTraining
    PROVE  ReportInv'
  <1> USE DEF ReportInv
  <1> USE SummaryParameters
  <1>0. /\ thread' = [at |-> "training", version |-> held] /\ episode' = episode + 1
        /\ stepsDriven' = <<>> /\ chunk' = NoChunk /\ sentSteps' = <<>> /\ trials' = <<>>
        /\ laps' = <<>> /\ UNCHANGED <<stopped, held, begun, buffers>>
        /\ thread.at \in {"loop", "start"} /\ episode < MaxEpisodes
    BY DEF StartTraining
  <1>1. SummariesAreTrue'
    <2>1. chunk'.episodes = <<>> /\ chunk'.evaluations = <<>> /\ ~chunk'.snapshot
      BY <1>0 DEF NoChunk
    <2>2. InSequence(sentSteps')
      BY <1>0 DEF InSequence
    <2> QED BY <2>1, <2>2, NothingSaid
  <1>2. SummariesTypeOK'
    BY <1>0 DEF SummariesTypeOK, NoChunk
  <1>3. DriveInv'
    BY <1>0 DEF DriveInv
  <1>4. RecordsInv'
    <2>1. buffers.transitions = <<>>
      BY <1>0 DEF RecordsInv
    <2>2. sentSteps' \o buffers'.transitions = <<>>
      BY <2>1, <1>0
    <2>3. TrueRecord(sentSteps' \o buffers'.transitions, stepsDriven')
      BY <2>2, <1>0 DEF TrueRecord
    <2> QED BY <2>1, <2>3, <1>0 DEF RecordsInv
  <1>5. TrialsInv'
    BY <1>0 DEF TrialsInv
  <1> QED BY <1>1, <1>2, <1>3, <1>4, <1>5

\* A step of a lap.
LEMMA EvaluationStepReport ==
    ASSUME ReportInv, NEW s \in StepsAfter(stepsDriven), EvaluationStep(s)
    PROVE  ReportInv'
  <1> USE DEF ReportInv
  <1> USE SummaryParameters
  <1>0. /\ stepsDriven \in Seq(GameStep) /\ s \in GameStep /\ Len(stepsDriven) \in Nat
        /\ stepsDriven' = Append(stepsDriven, s) /\ thread.at = "evaluating"
        /\ thread'.at = IF s.reason # "none" \/ stopped \/ Len(stepsDriven') = MaxEpisodeSteps
                          THEN "trialEnds" ELSE "evaluating"
        /\ thread' = [thread EXCEPT !.at = thread'.at]
        /\ UNCHANGED <<stopped, held, begun, episode, buffers, trials, chunk, sentSteps, laps>>
    <2>1. stepsDriven \in Seq(GameStep) /\ Len(stepsDriven) \in Nat
      BY DEF SummariesTypeOK
    <2>2. s \in GameStep
      BY <2>1, StepIsGame
    <2> DEFINE ends == s.reason # "none" \/ stopped \/ Len(stepsDriven') = MaxEpisodeSteps
    <2>3. /\ thread.at = "evaluating" /\ stepsDriven' = Append(stepsDriven, s)
          /\ thread' = [thread EXCEPT !.at = IF ends THEN "trialEnds" ELSE "evaluating"]
          /\ UNCHANGED <<stopped, held, begun, episode, buffers, trials, chunk, sentSteps, laps>>
      BY DEF EvaluationStep
    <2> HIDE DEF ends
    <2>4. thread'.at = IF ends THEN "trialEnds" ELSE "evaluating"
      BY <2>3 DEF SummariesTypeOK
    <2> QED BY <2>1, <2>2, <2>3, <2>4 DEF ends
  <1>1. SummariesAreTrue'
    BY <1>0, SaidStays
  <1>2. /\ Len(stepsDriven) < MaxEpisodeSteps
        /\ \A k \in 1 .. Len(stepsDriven) : stepsDriven[k].reason = "none"
    BY <1>0 DEF DriveInv
  <1>3. /\ stepsDriven' \in Seq(GameStep) /\ Len(stepsDriven') = Len(stepsDriven) + 1
        /\ stepsDriven' # <<>> /\ stepsDriven'[Len(stepsDriven')] = s
        /\ \A k \in 1 .. Len(stepsDriven) : stepsDriven'[k] = stepsDriven[k]
    BY <1>0, AppendedIs
  <1>4. FinalInfo(stepsDriven') = s
    BY <1>3 DEF FinalInfo
  <1>5. thread'.at \in {"evaluating", "trialEnds"} /\ thread'.version = thread.version
    BY <1>0 DEF SummariesTypeOK
  <1>6. SummariesTypeOK'
    <2>1. thread' \in [at : {"loop", "start", "training", "finish", "trial", "evaluating",
                             "trialEnds", "report", "ended"}, version : 0 .. held]
      BY <1>0, <1>5 DEF SummariesTypeOK
    <2>2. Len(stepsDriven') <= MaxEpisodeSteps
      BY <1>0, <1>2, <1>3
    <2> QED BY <2>1, <2>2, <1>0, <1>3 DEF SummariesTypeOK
  <1>7. DriveInv'
    <2>1. \A k \in 1 .. Len(stepsDriven') - 1 : stepsDriven'[k].reason = "none"
      BY <1>0, <1>2, <1>3
    <2>2. thread'.at = "evaluating" =>
            /\ Len(stepsDriven') < MaxEpisodeSteps
            /\ \A k \in 1 .. Len(stepsDriven') : stepsDriven'[k].reason = "none"
      BY <1>0, <1>2, <1>3
    <2>3. thread'.at = "trialEnds" =>
            \/ stopped' \/ FinalInfo(stepsDriven').reason # "none"
            \/ Len(stepsDriven') = MaxEpisodeSteps
      BY <1>0, <1>4
    <2> QED BY <2>1, <2>2, <2>3, <1>3, <1>5 DEF DriveInv
  <1>8. RecordsInv'
    BY <1>0, <1>5 DEF RecordsInv
  <1>9. TrialsInv'
    BY <1>0, <1>5 DEF TrialsInv
  <1> QED BY <1>1, <1>6, <1>7, <1>8, <1>9


\* A step of an episode.
LEMMA TrainingStepReport ==
    ASSUME ReportInv, NEW s \in StepsAfter(stepsDriven), NEW late \in BOOLEAN,
           TrainingStep(s, late)
    PROVE  ReportInv'
  <1> USE DEF ReportInv
  <1> USE SummaryParameters
  <1> DEFINE terminated == s.reason # "none"
             truncated == ~terminated /\ Len(stepsDriven) + 1 = MaxEpisodeSteps
             t == [index |-> Len(stepsDriven), version |-> thread.version, interrupted |-> FALSE,
                   terminated |-> terminated, truncated |-> truncated]
             recorded == Append(buffers.transitions, t)
             flushes == Len(recorded) >= ChunkTransitions \/ late
  <1>0. /\ stepsDriven \in Seq(GameStep) /\ Len(stepsDriven) \in Nat /\ s \in GameStep
        /\ stepsDriven' = Append(stepsDriven, s) /\ thread.at = "training"
        /\ thread' = [thread EXCEPT
             !.at = IF terminated \/ truncated \/ stopped THEN "finish" ELSE "training"]
        /\ UNCHANGED <<stopped, held, begun, episode, trials, laps>>
        /\ thread.version \in 0 .. MaxPolicies
        /\ buffers \in [transitions : Seq(Driven), summaries : {<<>>}]
        /\ sentSteps \in Seq(Driven)
    <2>1. /\ stepsDriven \in Seq(GameStep) /\ thread.version \in 0 .. held
          /\ held \in 0 .. MaxPolicies /\ sentSteps \in Seq(Driven)
          /\ buffers \in [transitions : Seq(Driven), summaries : {<<>>}]
      BY DEF SummariesTypeOK
    <2>2. s \in GameStep /\ Len(stepsDriven) \in Nat /\ thread.version \in 0 .. MaxPolicies
      BY <2>1, StepIsGame
    <2>3. /\ stepsDriven' = Append(stepsDriven, s) /\ thread.at = "training"
          /\ thread' = [thread EXCEPT
               !.at = IF terminated \/ truncated \/ stopped THEN "finish" ELSE "training"]
          /\ UNCHANGED <<stopped, held, begun, episode, trials, laps>>
      BY DEF TrainingStep
    <2> QED BY <2>1, <2>2, <2>3
  <1>1. t \in Driven
    BY <1>0 DEF Driven
  <1>2. /\ recorded \in Seq(Driven) /\ Len(recorded) = Len(buffers.transitions) + 1
        /\ Len(buffers.transitions) \in Nat
    <2> HIDE DEF t
    <2> QED BY <1>0, <1>1
  <1>3. /\ flushes => /\ SpoolRollout(recorded, <<>>, <<>>, thread.version)
                      /\ buffers' = [transitions |-> <<>>, summaries |-> <<>>]
        /\ ~flushes => /\ buffers' = [buffers EXCEPT !.transitions = recorded]
                       /\ UNCHANGED <<chunk, sentSteps>>
    <2>1. buffers.summaries = <<>>
      BY <1>0
    <2>2. IF flushes
            THEN FlushBuffers(recorded, buffers.summaries, thread.version)
            ELSE /\ buffers' = [buffers EXCEPT !.transitions = recorded]
                 /\ UNCHANGED <<chunk, sentSteps>>
      BY DEF TrainingStep
    <2> HIDE DEF recorded, flushes
    <2> QED BY <2>1, <2>2 DEF FlushBuffers, EmptyBuffers
  <1>4. flushes =>
           /\ chunk' \in [version : 0 .. MaxPolicies, transitions : Seq(Driven),
                          episodes : Seq(EpisodeSummary), evaluations : Seq(EpisodeSummary),
                          snapshot : BOOLEAN]
           /\ sentSteps' \in Seq(Driven)
           /\ stopped => chunk' = chunk /\ sentSteps' = sentSteps
           /\ ~stopped => /\ sentSteps' = sentSteps \o recorded
                          /\ chunk'.episodes = <<>> /\ chunk'.evaluations = <<>>
                          /\ ~chunk'.snapshot
    <2>1. recorded # <<>>
      <3> HIDE DEF recorded
      <3> QED BY <1>2
    <2> DEFINE none == <<>>
    <2> HIDE DEF recorded, flushes
    <2>2. none \in Seq(EpisodeSummary) /\ recorded \in Seq(Driven)
      BY <1>2
    <2>3. thread.version \in 0 .. MaxPolicies /\ SummariesTypeOK
      BY <1>0
    <2> SUFFICES ASSUME flushes
                 PROVE  /\ chunk' \in [version : 0 .. MaxPolicies, transitions : Seq(Driven),
                                       episodes : Seq(EpisodeSummary),
                                       evaluations : Seq(EpisodeSummary), snapshot : BOOLEAN]
                        /\ sentSteps' \in Seq(Driven)
                        /\ stopped => chunk' = chunk /\ sentSteps' = sentSteps
                        /\ ~stopped => /\ sentSteps' = sentSteps \o recorded
                                       /\ chunk'.episodes = <<>> /\ chunk'.evaluations = <<>>
                                       /\ ~chunk'.snapshot
      OBVIOUS
    <2>4. SpoolRollout(recorded, none, none, thread.version)
      BY <1>3
    <2> HIDE DEF none
    <2>5. /\ chunk' \in [version : 0 .. MaxPolicies, transitions : Seq(Driven),
                         episodes : Seq(EpisodeSummary), evaluations : Seq(EpisodeSummary),
                         snapshot : BOOLEAN]
          /\ sentSteps' \in Seq(Driven)
          /\ stopped \/ (recorded = <<>> /\ none = <<>> /\ none = <<>>)
               => chunk' = chunk /\ sentSteps' = sentSteps
          /\ ~stopped => sentSteps' = sentSteps \o recorded
          /\ ~stopped /\ ~(recorded = <<>> /\ none = <<>> /\ none = <<>>)
               => /\ chunk'.episodes = none /\ chunk'.evaluations = none
                  /\ (chunk'.snapshot <=> none # <<>>)
      BY ONLY <2>2, <2>3, <2>4, SpoolFacts
    <2> QED BY <2>1, <2>5 DEF none
  <1> HIDE DEF t
  <1>5. /\ Len(stepsDriven) < MaxEpisodeSteps
        /\ \A k \in 1 .. Len(stepsDriven) : stepsDriven[k].reason = "none"
    BY <1>0 DEF DriveInv
  <1>6. /\ stepsDriven' \in Seq(GameStep) /\ Len(stepsDriven') = Len(stepsDriven) + 1
        /\ stepsDriven' # <<>> /\ stepsDriven'[Len(stepsDriven')] = s
        /\ \A k \in 1 .. Len(stepsDriven) : stepsDriven'[k] = stepsDriven[k]
    BY <1>0, AppendedIs
  <1>7. \A k \in 1 .. Len(stepsDriven') - 1 : stepsDriven'[k].reason = "none"
    BY <1>0, <1>5, <1>6
  <1>8. ~stopped => TrueRecord(sentSteps \o recorded, stepsDriven')
    <2> SUFFICES ASSUME ~stopped PROVE TrueRecord(sentSteps \o recorded, stepsDriven')
      OBVIOUS
    <2> DEFINE sofar == sentSteps \o buffers.transitions
    <2>1. TrueRecord(sofar, stepsDriven) /\ sofar \in Seq(Driven)
      BY <1>0 DEF RecordsInv
    <2>2. IsRecorded(t, Len(stepsDriven) + 1, s)
      <3>1. /\ t.index = Len(stepsDriven) /\ t.interrupted = FALSE
            /\ t.terminated = terminated /\ t.truncated = truncated
        BY DEF t
      <3>2. Len(stepsDriven) = (Len(stepsDriven) + 1) - 1
        BY <1>0
      <3>3. t.terminated <=> s.reason # "none"
        BY <3>1
      <3>4. t.truncated <=> s.reason = "none" /\ Len(stepsDriven) + 1 = MaxEpisodeSteps
        BY <3>1
      <3> QED BY <3>1, <3>2, <3>3, <3>4 DEF IsRecorded
    <2>3. TrueRecord(Append(sofar, t), Append(stepsDriven, s))
      <3> HIDE DEF sofar
      <3> QED BY <1>0, <1>1, <2>1, <2>2, RecordGrows
    <2>4. sentSteps \o recorded = Append(sofar, t)
      <3>1. buffers.transitions \in Seq(Driven)
        BY <1>0
      <3>2. sentSteps \in Seq(Driven)
        BY <1>0
      <3>3. sentSteps \o Append(buffers.transitions, t)
              = Append(sentSteps \o buffers.transitions, t)
        BY <3>1, <3>2, <1>1, AppendedAtTheEnd
      <3> QED BY <3>3
    <2> HIDE DEF sofar, recorded
    <2> QED BY <2>3, <2>4, <1>0
  <1>9. thread'.at \in {"finish", "training"} /\ thread'.version = thread.version
    BY <1>0 DEF SummariesTypeOK
  <1> HIDE DEF recorded
  <1>10. SummariesAreTrue'
    <2>1. CASE flushes /\ ~stopped
      <3>1. sentSteps \o recorded \in Seq(Driven)
        BY <1>0, <1>2
      <3>2. InSequence(sentSteps \o recorded)
        <4>1. Len(stepsDriven') <= MaxEpisodeSteps
          BY <1>0, <1>5, <1>6
        <4> QED BY <1>6, <1>7, <1>8, <2>1, <3>1, <4>1, RecordsInSequence
      <3>3. InSequence(sentSteps')
        BY <3>2, <2>1, <1>4
      <3> QED BY <2>1, <3>3, <1>4, NothingSaid
    <2>2. CASE ~(flushes /\ ~stopped)
      <3>1. UNCHANGED <<chunk, sentSteps, episode, laps>>
        BY <2>2, <1>0, <1>3, <1>4
      <3> QED BY <3>1, SaidStays
    <2> QED BY <2>1, <2>2
  <1>11. /\ buffers' \in [transitions : Seq(Driven), summaries : {<<>>}]
         /\ Len(buffers'.transitions) < ChunkTransitions
    <2>1. CASE flushes
      <3>1. Len(<<>>) = 0 /\ <<>> \in Seq(Driven) /\ 0 < ChunkTransitions
        OBVIOUS
      <3>2. buffers'.transitions = <<>> /\ buffers'.summaries = <<>>
        BY <1>3, <2>1
      <3>3. Len(buffers'.transitions) < ChunkTransitions
        BY <3>1, <3>2
      <3>4. buffers' = [transitions |-> <<>>, summaries |-> <<>>]
        BY <1>3, <2>1
      <3>5. [transitions |-> <<>>, summaries |-> <<>>]
              \in [transitions : Seq(Driven), summaries : {<<>>}]
        BY <3>1
      <3> QED BY <3>3, <3>4, <3>5
    <2>2. CASE ~flushes
      <3>1. Len(recorded) < ChunkTransitions
        BY <1>2, <2>2
      <3> QED BY <1>0, <1>2, <1>3, <2>2, <3>1
    <2> QED BY <2>1, <2>2
  <1>12. SummariesTypeOK'
    <2>1. thread' \in [at : {"loop", "start", "training", "finish", "trial", "evaluating",
                             "trialEnds", "report", "ended"}, version : 0 .. held]
      BY <1>0, <1>9 DEF SummariesTypeOK
    <2>2. Len(stepsDriven') <= MaxEpisodeSteps
      BY <1>0, <1>5, <1>6
    <2>3. /\ chunk' \in [version : 0 .. MaxPolicies, transitions : Seq(Driven),
                          episodes : Seq(EpisodeSummary), evaluations : Seq(EpisodeSummary),
                          snapshot : BOOLEAN]
          /\ sentSteps' \in Seq(Driven)
      BY <1>3, <1>4 DEF SummariesTypeOK
    <2> QED BY <2>1, <2>2, <2>3, <1>0, <1>6, <1>11 DEF SummariesTypeOK
  <1>13. DriveInv'
    <2>1. thread'.at = "training" =>
            /\ Len(stepsDriven') < MaxEpisodeSteps
            /\ \A k \in 1 .. Len(stepsDriven') : stepsDriven'[k].reason = "none"
      <3>1. thread'.at = "training" => ~terminated /\ ~truncated
        BY <1>0 DEF SummariesTypeOK
      <3> QED BY <3>1, <1>0, <1>5, <1>6
    <2>2. thread'.at = "finish" =>
            \/ stopped' \/ FinalInfo(stepsDriven').reason # "none"
            \/ Len(stepsDriven') = MaxEpisodeSteps
      <3>1. FinalInfo(stepsDriven') = s
        BY <1>6 DEF FinalInfo
      <3>2. thread'.at = "finish" => terminated \/ truncated \/ stopped
        BY <1>0 DEF SummariesTypeOK
      <3> QED BY <3>1, <3>2, <1>0, <1>6
    <2> QED BY <2>1, <2>2, <1>6, <1>7, <1>9 DEF DriveInv
  <1>14. RecordsInv'
    <2>1. ~stopped => sentSteps' \o buffers'.transitions = sentSteps \o recorded
      <3>1. CASE flushes
        <4>1. sentSteps \o recorded \in Seq(Driven)
          BY <1>0, <1>2
        <4>2. (sentSteps \o recorded) \o <<>> = sentSteps \o recorded
          BY <4>1
        <4>3. buffers'.transitions = <<>>
          BY <3>1, <1>3
        <4> QED BY <4>2, <4>3, <3>1, <1>4
      <3>2. CASE ~flushes
        BY <3>2, <1>0, <1>3
      <3> QED BY <3>1, <3>2
    <2> QED BY <2>1, <1>0, <1>8, <1>9 DEF RecordsInv
  <1>15. TrialsInv'
    BY <1>9 DEF TrialsInv
  <1> QED BY <1>10, <1>12, <1>13, <1>14, <1>15


\* The record of steps that went on, the last of them turned into a truncation.
CutOff(ts) ==
    IF ts = <<>> THEN ts
    ELSE [ts EXCEPT ![Len(ts)].terminated = FALSE, ![Len(ts)].truncated = TRUE,
                    ![Len(ts)].interrupted = TRUE]
LEMMA CutOffIs ==
    ASSUME NEW ts \in Seq(Driven)
    PROVE  /\ CutOff(ts) \in Seq(Driven) /\ Len(CutOff(ts)) = Len(ts)
           /\ \A k \in 1 .. Len(ts) : /\ CutOff(ts)[k].index = ts[k].index
                                      /\ k # Len(ts) => CutOff(ts)[k] = ts[k]
  <1>1. CASE ts = <<>>
    BY <1>1 DEF CutOff
  <1>2. CASE ts # <<>>
    <2> DEFINE n == Len(ts)
               c == [ts[n] EXCEPT !.terminated = FALSE, !.truncated = TRUE, !.interrupted = TRUE]
    <2>1. n \in Nat /\ n > 0 /\ DOMAIN ts = 1 .. n /\ ts[n] \in Driven
      BY <1>2
    <2>2. c \in Driven /\ c.index = ts[n].index
      <3> HIDE DEF n
      <3> QED BY <2>1 DEF Driven
    <2>3. CutOff(ts) = [ts EXCEPT ![n] = c]
      <3>1. CutOff(ts) = [ts EXCEPT ![Len(ts)].terminated = FALSE, ![Len(ts)].truncated = TRUE,
                                    ![Len(ts)].interrupted = TRUE]
        BY <1>2 DEF CutOff
      <3> QED BY <3>1, <2>1
    <2> HIDE DEF c
    <2>4. CutOff(ts) \in Seq(Driven) /\ Len(CutOff(ts)) = n
      BY <2>1, <2>2, <2>3
    <2>5. \A k \in 1 .. n : CutOff(ts)[k] = IF k = n THEN c ELSE ts[k]
      BY <2>1, <2>3
    <2> QED BY <2>2, <2>4, <2>5
  <1> QED BY <1>1, <1>2

\* The elements of two sequences put together.
LEMMA Together ==
    ASSUME NEW S, NEW a \in Seq(S), NEW b \in Seq(S)
    PROVE  /\ a \o b \in Seq(S) /\ Len(a \o b) = Len(a) + Len(b)
           /\ Len(a) \in Nat /\ Len(b) \in Nat
           /\ \A k \in 1 .. Len(a) : (a \o b)[k] = a[k]
           /\ \A k \in 1 .. Len(b) : (a \o b)[Len(a) + k] = b[k]
  OBVIOUS

LEMMA CutInSequence ==
    ASSUME NEW a \in Seq(Driven), NEW b \in Seq(Driven), NEW walk \in Seq(GameStep),
           TrueRecord(a \o b, walk), Len(walk) < MaxEpisodeSteps,
           \A k \in 1 .. Len(walk) : walk[k].reason = "none"
    PROVE  InSequence(a \o CutOff(b))
  <1> DEFINE w == a \o b
             c == CutOff(b)
             u == a \o c
  <1>1. c \in Seq(Driven) /\ Len(c) = Len(b)
    BY CutOffIs
  <1>2. /\ Len(w) = Len(a) + Len(b) /\ Len(a) \in Nat /\ Len(b) \in Nat
        /\ \A k \in 1 .. Len(a) : w[k] = a[k]
        /\ \A k \in 1 .. Len(b) : w[Len(a) + k] = b[k]
    BY Together
  <1>3. /\ u \in Seq(Driven) /\ Len(u) = Len(a) + Len(c)
        /\ \A k \in 1 .. Len(a) : u[k] = a[k]
        /\ \A k \in 1 .. Len(c) : u[Len(a) + k] = c[k]
    <2> HIDE DEF c
    <2>1. c \in Seq(Driven) /\ a \in Seq(Driven)
      BY <1>1
    <2>2. /\ a \o c \in Seq(Driven) /\ Len(a \o c) = Len(a) + Len(c)
          /\ \A k \in 1 .. Len(a) : (a \o c)[k] = a[k]
          /\ \A k \in 1 .. Len(c) : (a \o c)[Len(a) + k] = c[k]
      BY ONLY <2>1, Together
    <2> QED BY <2>2
  <1>4. Len(w) = Len(walk) /\ \A k \in 1 .. Len(w) : IsRecorded(w[k], k, walk[k])
    BY DEF TrueRecord
  <1>5. \A k \in 1 .. Len(b) : c[k].index = b[k].index /\ (k # Len(b) => c[k] = b[k])
    BY CutOffIs
  <1>6. MaxEpisodeSteps \in Nat
    BY SummaryParameters
  <1> HIDE DEF u, w, c
  <1>7. \A k \in 1 .. Len(w) : w[k].index = k - 1 /\ ~w[k].terminated /\ ~w[k].truncated
    <2> SUFFICES ASSUME NEW k \in 1 .. Len(w)
                 PROVE  w[k].index = k - 1 /\ ~w[k].terminated /\ ~w[k].truncated
      OBVIOUS
    <2>1. IsRecorded(w[k], k, walk[k]) /\ walk[k].reason = "none" /\ k # MaxEpisodeSteps
      BY <1>2, <1>4, <1>6
    <2> QED BY <2>1 DEF IsRecorded
  <1> SUFFICES ASSUME NEW k \in DOMAIN u
               PROVE  /\ u[k].index = k - 1
                      /\ u[k].terminated \/ u[k].truncated => k = Len(u)
    BY DEF InSequence, u, c
  <1>8. k \in 1 .. Len(w) /\ Len(u) = Len(w)
    BY <1>1, <1>2, <1>3
  <1>9. CASE k <= Len(a)
    <2>1. u[k] = a[k] /\ w[k] = a[k]
      BY <1>2, <1>3, <1>8, <1>9
    <2> QED BY <2>1, <1>7, <1>8
  <1>10. CASE k > Len(a)
    <2> DEFINE j == k - Len(a)
    <2>1. j \in 1 .. Len(b) /\ k = Len(a) + j
      BY <1>2, <1>8, <1>10
    <2> HIDE DEF j
    <2>2. u[k] = c[j] /\ w[k] = b[j]
      BY <2>1, <1>1, <1>2, <1>3
    <2>3. u[k].index = k - 1
      BY <2>1, <2>2, <1>5, <1>7, <1>8
    <2>4. k # Len(u) => u[k] = w[k]
      BY <2>1, <2>2, <1>2, <1>5, <1>8
    <2> QED BY <2>3, <2>4, <1>7, <1>8
  <1> QED BY <1>2, <1>8, <1>9, <1>10

\* An episode that is cut short.
LEMMA TrainingInterruptedReport ==
    ASSUME ReportInv, TrainingInterrupted
    PROVE  ReportInv'
  <1> USE DEF ReportInv
  <1> USE SummaryParameters
  <1> DEFINE open == buffers.transitions
  <1>0. /\ SpoolRollout(CutOff(open), <<>>, <<>>, held)
        /\ buffers' = [transitions |-> <<>>, summaries |-> <<>>]
        /\ thread' = [thread EXCEPT !.at = "loop"] /\ thread.at = "training"
        /\ UNCHANGED <<stopped, held, begun, episode, stepsDriven, trials, laps>>
    <2>1. buffers.summaries = <<>>
      BY DEF SummariesTypeOK
    <2>2. FlushBuffers(CutOff(open), buffers.summaries, held)
      BY DEF TrainingInterrupted, CutOff
    <2>3. /\ thread' = [thread EXCEPT !.at = "loop"] /\ thread.at = "training"
          /\ UNCHANGED <<stopped, held, begun, episode, stepsDriven, trials, laps>>
      BY DEF TrainingInterrupted
    <2> HIDE DEF open
    <2> QED BY <2>1, <2>2, <2>3 DEF FlushBuffers, EmptyBuffers
  <1>1. /\ open \in Seq(Driven) /\ sentSteps \in Seq(Driven) /\ held \in 0 .. MaxPolicies
        /\ stepsDriven \in Seq(GameStep) /\ <<>> \in Seq(EpisodeSummary)
        /\ CutOff(open) \in Seq(Driven)
    <2>1. /\ open \in Seq(Driven) /\ sentSteps \in Seq(Driven) /\ held \in 0 .. MaxPolicies
          /\ stepsDriven \in Seq(GameStep) /\ <<>> \in Seq(EpisodeSummary)
      BY DEF SummariesTypeOK
    <2> HIDE DEF open
    <2> QED BY <2>1, CutOffIs
  <1>2. /\ chunk' \in [version : 0 .. MaxPolicies, transitions : Seq(Driven),
                       episodes : Seq(EpisodeSummary), evaluations : Seq(EpisodeSummary),
                       snapshot : BOOLEAN]
        /\ sentSteps' \in Seq(Driven)
        /\ stopped \/ CutOff(open) = <<>> => chunk' = chunk /\ sentSteps' = sentSteps
        /\ ~stopped => sentSteps' = sentSteps \o CutOff(open)
        /\ ~stopped /\ CutOff(open) # <<>> => /\ chunk'.episodes = <<>> /\ chunk'.evaluations = <<>>
                                              /\ ~chunk'.snapshot
    <2> HIDE DEF open
    <2> QED BY <1>0, <1>1, SpoolFacts
  <1>3. /\ Len(stepsDriven) < MaxEpisodeSteps
        /\ \A k \in 1 .. Len(stepsDriven) : stepsDriven[k].reason = "none"
    BY <1>0 DEF DriveInv
  <1>4. ~stopped => TrueRecord(sentSteps \o open, stepsDriven)
    BY <1>0 DEF RecordsInv
  <1> HIDE DEF open
  <1>5. SummariesAreTrue'
    <2>1. CASE stopped \/ CutOff(open) = <<>>
      BY <2>1, <1>0, <1>2, SaidStays
    <2>2. CASE ~(stopped \/ CutOff(open) = <<>>)
      <3>1. InSequence(sentSteps \o CutOff(open))
        BY <2>2, <1>1, <1>3, <1>4, CutInSequence
      <3>2. InSequence(sentSteps')
        BY <2>2, <3>1, <1>2
      <3> QED BY <2>2, <3>2, <1>2, NothingSaid
    <2> QED BY <2>1, <2>2
  <1>6. /\ thread'.at = "loop"
        /\ thread' \in [at : {"loop", "start", "training", "finish", "trial", "evaluating",
                             "trialEnds", "report", "ended"}, version : 0 .. held]
    BY <1>0 DEF SummariesTypeOK
  <1>7. /\ buffers' \in [transitions : Seq(Driven), summaries : {<<>>}]
        /\ buffers'.transitions = <<>> /\ Len(buffers'.transitions) < ChunkTransitions
    BY <1>0
  <1>8. SummariesTypeOK'
    BY <1>0, <1>2, <1>6, <1>7 DEF SummariesTypeOK
  <1>9. DriveInv' /\ RecordsInv' /\ TrialsInv'
    BY <1>0, <1>6, <1>7 DEF DriveInv, RecordsInv, TrialsInv
  <1> QED BY <1>5, <1>8, <1>9


\* An episode that ends, with its summary.
LEMMA FinishTrainingReport ==
    ASSUME ReportInv, FinishTraining
    PROVE  ReportInv'
  <1> USE DEF ReportInv
  <1> USE SummaryParameters
  <1> DEFINE open == buffers.transitions
             why == NaturalEnd(stepsDriven)
             s == Summary(episode, stepsDriven, why, thread.version)
             all == sentSteps \o open
  <1>0. /\ SpoolRollout(open, <<s>>, <<>>, held)
        /\ buffers' = [transitions |-> <<>>, summaries |-> <<>>]
        /\ thread' = [thread EXCEPT !.at = "loop"] /\ thread.at = "finish"
        /\ UNCHANGED <<stopped, held, begun, episode, stepsDriven, trials, laps>>
    <2>1. buffers.summaries = <<>>
      BY DEF SummariesTypeOK
    <2>2. FlushBuffers(open, Append(buffers.summaries, s), held)
      BY DEF FinishTraining
    <2>3. /\ thread' = [thread EXCEPT !.at = "loop"] /\ thread.at = "finish"
          /\ UNCHANGED <<stopped, held, begun, episode, stepsDriven, trials, laps>>
      BY DEF FinishTraining
    <2> HIDE DEF open, s
    <2>4. Append(<<>>, s) = <<s>>
      OBVIOUS
    <2> QED BY <2>1, <2>2, <2>3, <2>4 DEF FlushBuffers, EmptyBuffers
  <1>1. /\ open \in Seq(Driven) /\ sentSteps \in Seq(Driven) /\ held \in 0 .. MaxPolicies
        /\ stepsDriven \in Seq(GameStep) /\ <<>> \in Seq(EpisodeSummary)
        /\ Len(stepsDriven) <= MaxEpisodeSteps /\ episode \in Nat
        /\ thread.version \in 0 .. held
    BY DEF SummariesTypeOK
  <1>2. thread.version \in 0 .. MaxPolicies
    BY <1>1
  <1>3. /\ stepsDriven # <<>>
        /\ stopped \/ FinalInfo(stepsDriven).reason # "none" \/ Len(stepsDriven) = MaxEpisodeSteps
        /\ \A k \in 1 .. Len(stepsDriven) - 1 : stepsDriven[k].reason = "none"
    BY <1>0 DEF DriveInv
  <1>4. /\ why \in Endings /\ (why = "finished" => stepsDriven # <<>>)
        /\ why = "max_steps" <=> FinalInfo(stepsDriven).reason = "none"
        /\ FinalInfo(stepsDriven) = stepsDriven[Len(stepsDriven)]
    BY <1>1, <1>3, EndOf
  <1> HIDE DEF why
  <1>5. /\ s \in EpisodeSummary /\ s.id = episode /\ s.termination = why
        /\ s.steps = Len(stepsDriven) /\ ValidEpisode(s)
    BY <1>1, <1>2, <1>3, <1>4, SummaryIs, SummaryAccepted
  <1> HIDE DEF s, open
  <1>6. <<s>> \in Seq(EpisodeSummary) /\ <<s>> # <<>> /\ DOMAIN <<s>> = {1} /\ <<s>>[1] = s
    BY <1>5
  <1>7. /\ chunk' \in [version : 0 .. MaxPolicies, transitions : Seq(Driven),
                       episodes : Seq(EpisodeSummary), evaluations : Seq(EpisodeSummary),
                       snapshot : BOOLEAN]
        /\ sentSteps' \in Seq(Driven)
        /\ stopped => chunk' = chunk /\ sentSteps' = sentSteps
        /\ ~stopped => /\ sentSteps' = all /\ chunk'.episodes = <<s>>
                       /\ chunk'.evaluations = <<>> /\ ~chunk'.snapshot
    BY <1>0, <1>1, <1>6, SpoolFacts
  <1>8. ~stopped => TrueRecord(all, stepsDriven) /\ all \in Seq(Driven)
    BY <1>0, <1>1 DEF RecordsInv, open
  <1> HIDE DEF all
  <1>9. SummariesAreTrue'
    <2>1. CASE stopped
      BY <2>1, <1>0, <1>7, SaidStays
    <2>2. CASE ~stopped
      <3>1. RolloutsAreAccepted'
        <4>1. DOMAIN chunk'.evaluations = {}
          BY <2>2, <1>7
        <4>2. {chunk'.evaluations[k].version : k \in DOMAIN chunk'.evaluations} = {}
          BY <4>1
        <4>3. Cardinality({chunk'.evaluations[k].version : k \in DOMAIN chunk'.evaluations}) <= 1
          <5>1. Cardinality({chunk'.evaluations[k].version : k \in DOMAIN chunk'.evaluations}) = 0
            BY <4>2, FS_EmptySet
          <5> QED BY <5>1
        <4>4. \A k \in DOMAIN chunk'.episodes : ValidEpisode(chunk'.episodes[k])
          BY <2>2, <1>5, <1>6, <1>7
        <4>5. \A k \in DOMAIN chunk'.evaluations : ValidEvaluation(chunk'.evaluations[k])
          BY <4>1
        <4>6. chunk'.snapshot <=> chunk'.evaluations # <<>>
          BY <2>2, <1>7
        <4> QED BY <4>3, <4>4, <4>5, <4>6 DEF RolloutsAreAccepted, ValidSubmit
      <3>2. SummariesFollowTheirSteps'
        <4> DEFINE n == Len(stepsDriven)
                   final == all[n]
        <4>1. n \in Nat /\ n > 0 /\ Len(all) = n /\ IsRecorded(all[n], n, stepsDriven[n])
          <5>1. n \in Nat /\ n > 0 /\ Len(all) = n
            BY <2>2, <1>1, <1>3, <1>8 DEF TrueRecord
          <5> QED BY <5>1, <2>2, <1>8 DEF TrueRecord
        <4>2. stepsDriven[n].reason # "none" \/ n = MaxEpisodeSteps
          BY <2>2, <1>3, <1>4
        <4>3. /\ final.terminated <=> why # "max_steps"
              /\ final.truncated <=> why = "max_steps"
              /\ ~final.interrupted
              /\ why = "max_steps" => n = MaxEpisodeSteps
          BY <4>1, <4>2, <1>4 DEF IsRecorded
        <4>4. \A k \in DOMAIN chunk'.episodes : chunk'.episodes[k] = s
          BY <2>2, <1>6, <1>7
        <4>5. InSequence(sentSteps')
          BY <2>2, <1>1, <1>3, <1>7, <1>8, RecordsInSequence
        <4>6. sentSteps' = all /\ s.steps = n /\ s.termination = why /\ Len(all) = n
          BY <2>2, <1>5, <1>7, <4>1
        <4> HIDE DEF n
        <4>7. \A k \in DOMAIN chunk'.episodes :
                LET summary == chunk'.episodes[k]
                    ended == sentSteps'[Len(sentSteps')]
                IN summary.id = episode' =>
                    /\ summary.steps = Len(sentSteps')
                    /\ ended.terminated <=> summary.termination # "max_steps"
                    /\ ended.truncated <=> summary.termination = "max_steps"
                    /\ summary.termination = "max_steps" => summary.steps = MaxEpisodeSteps
                    /\ ~ended.interrupted
          BY <4>3, <4>4, <4>6
        <4> QED BY <4>5, <4>7 DEF SummariesFollowTheirSteps, InSequence
      <3>3. EvaluationsAreWhole'
        BY <2>2, <1>7 DEF EvaluationsAreWhole
      <3> QED BY <3>1, <3>2, <3>3 DEF SummariesAreTrue
    <2> QED BY <2>1, <2>2
  <1>10. /\ thread'.at = "loop"
         /\ thread' \in [at : {"loop", "start", "training", "finish", "trial", "evaluating",
                              "trialEnds", "report", "ended"}, version : 0 .. held]
    BY <1>0 DEF SummariesTypeOK
  <1>11. /\ buffers' \in [transitions : Seq(Driven), summaries : {<<>>}]
         /\ buffers'.transitions = <<>> /\ Len(buffers'.transitions) < ChunkTransitions
    BY <1>0
  <1>12. SummariesTypeOK'
    BY <1>0, <1>7, <1>10, <1>11 DEF SummariesTypeOK
  <1>13. DriveInv'
    BY <1>0, <1>10 DEF DriveInv
  <1>14. RecordsInv' /\ TrialsInv'
    BY <1>0, <1>10, <1>11 DEF RecordsInv, TrialsInv
  <1> QED BY <1>9, <1>12, <1>13, <1>14


-----------------------------------------------------------------------------
(* The trials of an evaluation.                                            *)

\* A trial more.
LEMMA TrialMore ==
    ASSUME NEW ts \in Seq(EpisodeSummary), NEW ls \in Seq(Seq(GameStep)), NEW version,
           TrialsAre(ts, ls, version), NoneFailed(ts),
           NEW s \in EpisodeSummary, NEW lap \in Seq(GameStep), IsTrial(s, lap, version)
    PROVE  /\ Append(ts, s) \in Seq(EpisodeSummary) /\ Append(ls, lap) \in Seq(Seq(GameStep))
           /\ Len(Append(ts, s)) = Len(ts) + 1
           /\ TrialsAre(Append(ts, s), Append(ls, lap), version)
           /\ DrivenOut(ts) /\ (s.termination = "max_steps" => s.steps = MaxEpisodeSteps)
                => DrivenOut(Append(ts, s))
           /\ s.termination # "telemetry_error" => NoneFailed(Append(ts, s))
  <1> DEFINE n == Len(ts)
             u == Append(ts, s)
             w == Append(ls, lap)
  <1>1. n \in Nat /\ Len(ls) = n
    BY DEF TrialsAre
  <1>2. /\ u \in Seq(EpisodeSummary) /\ w \in Seq(Seq(GameStep)) /\ Len(u) = n + 1
        /\ Len(w) = n + 1 /\ u[n + 1] = s /\ w[n + 1] = lap
        /\ \A k \in 1 .. n : u[k] = ts[k] /\ w[k] = ls[k]
    BY <1>1
  <1> HIDE DEF u, w, n
  <1>3. TrialsAre(u, w, version)
    <2>1. \A k \in 1 .. Len(u) : IsTrial(u[k], w[k], version)
      <3> SUFFICES ASSUME NEW k \in 1 .. Len(u) PROVE IsTrial(u[k], w[k], version)
        OBVIOUS
      <3>1. CASE k = n + 1
        BY <3>1, <1>2
      <3>2. CASE k # n + 1
        <4>1. k \in 1 .. n
          BY <3>2, <1>1, <1>2
        <4> QED BY <4>1, <1>2 DEF TrialsAre, n
      <3> QED BY <3>1, <3>2
    <2>2. ASSUME NEW k \in 1 .. Len(u), u[k].termination = "telemetry_error",
                 NEW j \in k + 1 .. Len(u)
          PROVE  u[j].steps = 0
      <3>1. k \in 1 .. n
        BY <2>2, <1>1, <1>2
      <3> QED BY <3>1, <2>2, <1>2 DEF NoneFailed, n
    <2> QED BY <2>1, <2>2, <1>2 DEF TrialsAre
  <1>4. ASSUME DrivenOut(ts), s.termination = "max_steps" => s.steps = MaxEpisodeSteps
        PROVE  DrivenOut(u)
    <2> SUFFICES ASSUME NEW k \in 1 .. Len(u), u[k].termination = "max_steps"
                 PROVE  u[k].steps = MaxEpisodeSteps
      BY DEF DrivenOut
    <2>1. CASE k = n + 1
      BY <2>1, <1>2, <1>4
    <2>2. CASE k # n + 1
      <3>1. k \in 1 .. n
        BY <2>2, <1>1, <1>2
      <3> QED BY <3>1, <1>2, <1>4 DEF DrivenOut, n
    <2> QED BY <2>1, <2>2
  <1>5. ASSUME s.termination # "telemetry_error" PROVE NoneFailed(u)
    <2> SUFFICES ASSUME NEW k \in 1 .. Len(u) PROVE u[k].termination # "telemetry_error"
      BY DEF NoneFailed
    <2>1. CASE k = n + 1
      BY <2>1, <1>2, <1>5
    <2>2. CASE k # n + 1
      <3>1. k \in 1 .. n
        BY <2>2, <1>1, <1>2
      <3> QED BY <3>1, <1>2 DEF NoneFailed, n
    <2> QED BY <2>1, <2>2
  <1> QED BY <1>2, <1>3, <1>4, <1>5 DEF u, w, n

\* The trials that are left, failed without a step.
LostTrials(n, version) == [k \in 1 .. n |-> Summary(Evaluation, <<>>, "telemetry_error", version)]
LEMMA LostAre ==
    ASSUME NEW n \in Nat, NEW version \in 0 .. MaxPolicies
    PROVE  /\ LostTrials(n, version) \in Seq(EpisodeSummary) /\ Len(LostTrials(n, version)) = n
           /\ NoLaps(n) \in Seq(Seq(GameStep)) /\ Len(NoLaps(n)) = n
           /\ \A k \in 1 .. n :
                /\ NoLaps(n)[k] = <<>> /\ IsTrial(LostTrials(n, version)[k], <<>>, version)
                /\ LostTrials(n, version)[k].steps = 0
                /\ LostTrials(n, version)[k].termination = "telemetry_error"
  <1> DEFINE s == Summary(Evaluation, <<>>, "telemetry_error", version)
  <1>1. <<>> \in Seq(GameStep) /\ "telemetry_error" \in Endings /\ Evaluation \in Nat
    BY DEF Endings, Evaluation
  <1>2. s \in EpisodeSummary /\ s.steps = Len(<<>>) /\ s.termination = "telemetry_error"
    <2>1. \A walk \in Seq(GameStep), id \in Nat, why \in Endings :
            LET t == Summary(id, walk, why, version) IN
            t \in EpisodeSummary /\ t.steps = Len(walk) /\ t.termination = why
      BY SummaryIs
    <2> QED BY <1>1, <2>1
  <1>3. IsTrial(s, <<>>, version)
    BY <1>1 DEF IsTrial
  <1>4. Len(<<>>) = 0
    OBVIOUS
  <1>5. LostTrials(n, version) = [k \in 1 .. n |-> s] /\ NoLaps(n) = [k \in 1 .. n |-> <<>>]
    BY DEF LostTrials, NoLaps
  <1> HIDE DEF s
  <1>6. LostTrials(n, version) \in Seq(EpisodeSummary) /\ Len(LostTrials(n, version)) = n
    BY <1>2, <1>5
  <1>7. NoLaps(n) \in Seq(Seq(GameStep)) /\ Len(NoLaps(n)) = n
    BY <1>1, <1>5
  <1>8. \A k \in 1 .. n : LostTrials(n, version)[k] = s /\ NoLaps(n)[k] = <<>>
    BY <1>5
  <1> QED BY <1>2, <1>3, <1>4, <1>6, <1>7, <1>8

LEMMA TrialsLost ==
    ASSUME NEW ts \in Seq(EpisodeSummary), NEW ls \in Seq(Seq(GameStep)),
           NEW version \in 0 .. MaxPolicies, NEW n \in Nat, TrialsAre(ts, ls, version)
    PROVE  /\ ts \o LostTrials(n, version) \in Seq(EpisodeSummary)
           /\ ls \o NoLaps(n) \in Seq(Seq(GameStep))
           /\ Len(ts \o LostTrials(n, version)) = Len(ts) + n
           /\ TrialsAre(ts \o LostTrials(n, version), ls \o NoLaps(n), version)
           /\ DrivenOut(ts) => DrivenOut(ts \o LostTrials(n, version))
  <1> DEFINE m == Len(ts)
             fs == LostTrials(n, version)
             ns == NoLaps(n)
             u == ts \o fs
             w == ls \o ns
  <1>1. m \in Nat /\ Len(ls) = m
    BY DEF TrialsAre
  <1>2. /\ fs \in Seq(EpisodeSummary) /\ Len(fs) = n /\ ns \in Seq(Seq(GameStep)) /\ Len(ns) = n
        /\ \A k \in 1 .. n : /\ ns[k] = <<>> /\ IsTrial(fs[k], <<>>, version)
                             /\ fs[k].steps = 0 /\ fs[k].termination = "telemetry_error"
    BY LostAre
  <1> HIDE DEF fs, ns
  <1>3. /\ u \in Seq(EpisodeSummary) /\ Len(u) = m + n
        /\ \A k \in 1 .. m : u[k] = ts[k]
        /\ \A k \in 1 .. n : u[m + k] = fs[k]
    <2>1. ts \in Seq(EpisodeSummary) /\ fs \in Seq(EpisodeSummary)
      BY <1>2
    <2>2. /\ u \in Seq(EpisodeSummary) /\ Len(u) = Len(ts) + Len(fs)
          /\ \A k \in 1 .. Len(ts) : u[k] = ts[k]
          /\ \A k \in 1 .. Len(fs) : u[Len(ts) + k] = fs[k]
      BY ONLY <2>1, Together
    <2> QED BY <2>2, <1>2
  <1>4. /\ w \in Seq(Seq(GameStep)) /\ Len(w) = m + n
        /\ \A k \in 1 .. m : w[k] = ls[k]
        /\ \A k \in 1 .. n : w[m + k] = ns[k]
    <2>1. ls \in Seq(Seq(GameStep)) /\ ns \in Seq(Seq(GameStep))
      BY <1>2
    <2>2. /\ w \in Seq(Seq(GameStep)) /\ Len(w) = Len(ls) + Len(ns)
          /\ \A k \in 1 .. Len(ls) : w[k] = ls[k]
          /\ \A k \in 1 .. Len(ns) : w[Len(ls) + k] = ns[k]
      BY ONLY <2>1, Together
    <2> QED BY <2>2, <1>1, <1>2
  <1> HIDE DEF u, w, m
  <1>5. ASSUME NEW k \in 1 .. m + n, k > m
        PROVE  /\ u[k] = fs[k - m] /\ w[k] = <<>> /\ IsTrial(u[k], w[k], version)
               /\ u[k].steps = 0 /\ u[k].termination = "telemetry_error"
    <2>1. k - m \in 1 .. n /\ k = m + (k - m)
      BY <1>1, <1>5
    <2>2. u[m + (k - m)] = fs[k - m] /\ w[m + (k - m)] = ns[k - m]
      BY <2>1, <1>3, <1>4
    <2> QED BY <2>1, <2>2, <1>2
  <1>6. TrialsAre(u, w, version)
    <2>1. ASSUME NEW k \in 1 .. Len(u) PROVE IsTrial(u[k], w[k], version)
      <3>1. CASE k <= m
        <4>1. k \in 1 .. m
          BY <3>1, <1>1, <1>3
        <4> QED BY <4>1, <1>3, <1>4 DEF TrialsAre, m
      <3>2. CASE k > m
        BY <3>2, <1>3, <1>5
      <3> QED BY <3>1, <3>2, <1>1, <1>3
    <2>2. ASSUME NEW k \in 1 .. Len(u), u[k].termination = "telemetry_error",
                 NEW j \in k + 1 .. Len(u)
          PROVE  u[j].steps = 0
      <3>1. CASE j <= m
        <4>1. k \in 1 .. m /\ j \in k + 1 .. m
          BY <3>1, <1>1, <1>3
        <4> QED BY <4>1, <2>2, <1>3 DEF TrialsAre, m
      <3>2. CASE j > m
        <4>1. j \in 1 .. m + n
          BY <3>2, <1>1, <1>3
        <4> QED BY <4>1, <3>2, <1>5
      <3> QED BY <3>1, <3>2, <1>1, <1>3
    <2> QED BY <2>1, <2>2, <1>3, <1>4 DEF TrialsAre
  <1>7. ASSUME DrivenOut(ts) PROVE DrivenOut(u)
    <2> SUFFICES ASSUME NEW k \in 1 .. Len(u), u[k].termination = "max_steps"
                 PROVE  u[k].steps = MaxEpisodeSteps
      BY DEF DrivenOut
    <2>1. k <= m
      BY <1>1, <1>3, <1>5
    <2>2. k \in 1 .. m
      BY <2>1, <1>1, <1>3
    <2> QED BY <2>2, <1>3, <1>7 DEF DrivenOut, m
  <1> QED BY <1>3, <1>4, <1>6, <1>7 DEF u, w, fs, ns, m


\* A sequence without elements.
LEMMA NoElements ==
    ASSUME NEW S, NEW a \in Seq(S), Len(a) = 0
    PROVE  a = <<>>
  OBVIOUS

\* An evaluation begins, or could not be prepared.
LEMMA BeginEvaluationReport ==
    ASSUME ReportInv, NEW version \in 0 .. held, NEW prewarmed \in BOOLEAN,
           BeginEvaluation(version, prewarmed)
    PROVE  ReportInv'
  <1> USE DEF ReportInv
  <1> USE SummaryParameters
  <1> DEFINE n == IF prewarmed THEN 0 ELSE EvaluationTrials
  <1>0. /\ thread.at = "loop" /\ begun < MaxEvaluations /\ begun' = begun + 1
        /\ thread' = [at |-> IF prewarmed THEN "trial" ELSE "report", version |-> version]
        /\ trials' = LostTrials(n, version)
        /\ laps' = IF prewarmed THEN <<>> ELSE NoLaps(EvaluationTrials)
        /\ stepsDriven' = <<>> /\ chunk' = NoChunk /\ sentSteps' = <<>>
        /\ UNCHANGED <<stopped, held, episode, buffers>>
    BY DEF BeginEvaluation, LostTrials
  <1>1. n \in Nat /\ n <= EvaluationTrials
    OBVIOUS
  <1>2. held \in 0 .. MaxPolicies
    BY DEF SummariesTypeOK
  <1>3. version \in 0 .. MaxPolicies
    BY <1>2
  <1>4. /\ trials' \in Seq(EpisodeSummary) /\ Len(trials') = n
        /\ NoLaps(n) \in Seq(Seq(GameStep)) /\ Len(NoLaps(n)) = n
        /\ \A k \in 1 .. n :
             /\ NoLaps(n)[k] = <<>> /\ IsTrial(trials'[k], <<>>, version)
             /\ trials'[k].steps = 0 /\ trials'[k].termination = "telemetry_error"
    <2> HIDE DEF n
    <2> DEFINE ts == LostTrials(n, version)
    <2>1. /\ ts \in Seq(EpisodeSummary) /\ Len(ts) = n
          /\ NoLaps(n) \in Seq(Seq(GameStep)) /\ Len(NoLaps(n)) = n
          /\ \A k \in 1 .. n :
               /\ NoLaps(n)[k] = <<>> /\ IsTrial(ts[k], <<>>, version)
               /\ ts[k].steps = 0 /\ ts[k].termination = "telemetry_error"
      BY ONLY <1>1, <1>3, LostAre
    <2>2. trials' = ts
      BY <1>0
    <2> HIDE DEF ts
    <2> QED BY <2>1, <2>2
  <1>5. laps' = NoLaps(n)
    <2>1. CASE prewarmed
      <3>1. Len(NoLaps(n)) = 0
        BY <2>1, <1>4
      <3>2. NoLaps(n) = <<>>
        BY <3>1, <1>4, NoElements
      <3> QED BY <2>1, <3>2, <1>0
    <2>2. CASE ~prewarmed
      BY <2>2, <1>0
    <2> QED BY <2>1, <2>2
  <1> HIDE DEF n
  <1>6. TrialsAre(trials', laps', version) /\ DrivenOut(trials')
    BY <1>4, <1>5 DEF TrialsAre, DrivenOut
  <1>7. SummariesAreTrue'
    <2>1. chunk'.episodes = <<>> /\ chunk'.evaluations = <<>> /\ ~chunk'.snapshot
      BY <1>0 DEF NoChunk
    <2>2. InSequence(sentSteps')
      BY <1>0 DEF InSequence
    <2> QED BY <2>1, <2>2, NothingSaid
  <1>8. thread'.at = (IF prewarmed THEN "trial" ELSE "report") /\ thread'.version = version
    BY <1>0
  <1>9. SummariesTypeOK'
    <2>1. thread' \in [at : {"loop", "start", "training", "finish", "trial", "evaluating",
                             "trialEnds", "report", "ended"}, version : 0 .. held]
      BY <1>0
    <2>2. chunk' \in [version : 0 .. MaxPolicies, transitions : Seq(Driven),
                      episodes : Seq(EpisodeSummary), evaluations : Seq(EpisodeSummary),
                      snapshot : BOOLEAN]
      BY <1>0 DEF NoChunk
    <2>3. /\ stepsDriven' \in Seq(GameStep) /\ Len(stepsDriven') <= MaxEpisodeSteps
          /\ sentSteps' \in Seq(Driven)
      BY <1>0
    <2>4. /\ laps' \in Seq(Seq(GameStep)) /\ Len(laps') = Len(trials')
          /\ Len(trials') <= EvaluationTrials
      BY <1>1, <1>4, <1>5
    <2>5. begun' \in 0 .. MaxEvaluations
      BY <1>0 DEF SummariesTypeOK
    <2> QED BY <2>1, <2>2, <2>3, <2>4, <2>5, <1>0, <1>4 DEF SummariesTypeOK
  <1>10. DriveInv'
    BY <1>0, <1>8 DEF DriveInv
  <1>11. RecordsInv'
    BY <1>0, <1>8 DEF RecordsInv
  <1>12. TrialsInv'
    <2>1. chunk'.evaluations = <<>>
      BY <1>0 DEF NoChunk
    <2>2. prewarmed => Len(trials') = 0
      BY <1>4 DEF n
    <2>3. ~prewarmed => Len(trials') = EvaluationTrials
      BY <1>4 DEF n
    <2>4. prewarmed => NoneFailed(trials')
      BY <2>2 DEF NoneFailed
    <2> QED BY <2>1, <2>2, <2>3, <2>4, <1>6, <1>8 DEF TrialsInv
  <1> QED BY <1>7, <1>9, <1>10, <1>11, <1>12

\* A trial is reported, and those that are left with it if it lost telemetry.
LEMMA ReportTrial ==
    ASSUME ReportInv, thread.at \in {"evaluating", "trialEnds"}, NEW why \in Endings,
           NEW failing \in BOOLEAN,
           why = "finished" => stepsDriven # <<>> /\ FinalInfo(stepsDriven).reason = "finished",
           failing <=> why = "telemetry_error",
           stopped \/ (why = "max_steps" => Len(stepsDriven) = MaxEpisodeSteps),
           Report(Summary(Evaluation, stepsDriven, why, thread.version), failing),
           UNCHANGED <<stopped, held, begun, episode, stepsDriven, buffers, chunk, sentSteps>>
    PROVE  ReportInv'
  <1> USE DEF ReportInv
  <1> USE SummaryParameters
  <1> DEFINE s == Summary(Evaluation, stepsDriven, why, thread.version)
             rest == IF failing THEN EvaluationTrials - Len(trials) - 1 ELSE 0
             ts == Append(trials, s)
             ls == Append(laps, stepsDriven)
  <1>0. /\ trials' = ts \o LostTrials(rest, thread.version)
        /\ laps' = ls \o NoLaps(rest)
        /\ thread' = [thread EXCEPT !.at =
             IF Len(trials') = EvaluationTrials THEN "report" ELSE "trial"]
    BY DEF Report, Failures, Failed, LostTrials
  <1>1. /\ thread.version \in 0 .. held /\ held \in 0 .. MaxPolicies
        /\ stepsDriven \in Seq(GameStep) /\ trials \in Seq(EpisodeSummary)
        /\ laps \in Seq(Seq(GameStep))
    BY DEF SummariesTypeOK
  <1>2. thread.version \in 0 .. MaxPolicies /\ Evaluation \in Nat
    BY <1>1 DEF Evaluation
  <1>3. /\ chunk.evaluations = <<>> /\ TrialsAre(trials, laps, thread.version)
        /\ stopped \/ DrivenOut(trials)
        /\ Len(trials) < EvaluationTrials /\ NoneFailed(trials) /\ Len(trials) \in Nat
    BY <1>1 DEF TrialsInv
  <1>4. /\ s \in EpisodeSummary /\ s.termination = why /\ s.steps = Len(stepsDriven)
        /\ IsTrial(s, stepsDriven, thread.version)
    <2>1. s \in EpisodeSummary /\ s.termination = why /\ s.steps = Len(stepsDriven)
      BY <1>1, <1>2, SummaryIs
    <2>2. IsTrial(s, stepsDriven, thread.version)
      BY DEF IsTrial
    <2> QED BY <2>1, <2>2
  <1> HIDE DEF s
  <1>5. /\ ts \in Seq(EpisodeSummary) /\ ls \in Seq(Seq(GameStep))
        /\ Len(ts) = Len(trials) + 1 /\ TrialsAre(ts, ls, thread.version)
        /\ stopped \/ DrivenOut(ts)
        /\ ~failing => NoneFailed(ts)
    BY <1>1, <1>3, <1>4, TrialMore
  <1>6. rest \in Nat
    BY <1>3
  <1> HIDE DEF ts, ls
  <1>7. /\ trials' \in Seq(EpisodeSummary) /\ laps' \in Seq(Seq(GameStep))
        /\ Len(trials') = Len(ts) + rest
        /\ TrialsAre(trials', laps', thread.version)
        /\ stopped \/ DrivenOut(trials')
    <2> HIDE DEF rest
    <2> DEFINE fs == LostTrials(rest, thread.version)
    <2>1. /\ ts \in Seq(EpisodeSummary) /\ ls \in Seq(Seq(GameStep))
          /\ thread.version \in 0 .. MaxPolicies /\ rest \in Nat
          /\ TrialsAre(ts, ls, thread.version)
      BY <1>2, <1>5, <1>6
    <2>2. /\ ts \o fs \in Seq(EpisodeSummary) /\ ls \o NoLaps(rest) \in Seq(Seq(GameStep))
          /\ Len(ts \o fs) = Len(ts) + rest
          /\ TrialsAre(ts \o fs, ls \o NoLaps(rest), thread.version)
          /\ DrivenOut(ts) => DrivenOut(ts \o fs)
      BY ONLY <2>1, TrialsLost
    <2> HIDE DEF fs
    <2>3. trials' = ts \o fs /\ laps' = ls \o NoLaps(rest)
      BY <1>0 DEF fs
    <2> QED BY <2>2, <2>3, <1>5
  <1>8. ~failing => NoneFailed(trials')
    <2> SUFFICES ASSUME ~failing PROVE NoneFailed(trials')
      OBVIOUS
    <2>1. /\ LostTrials(0, thread.version) \in Seq(EpisodeSummary)
          /\ Len(LostTrials(0, thread.version)) = 0
      BY <1>2, LostAre
    <2>2. LostTrials(0, thread.version) = <<>>
      BY <2>1, NoElements
    <2>3. ts \o <<>> = ts
      BY <1>5
    <2>4. trials' = ts
      BY <2>2, <2>3, <1>0
    <2> QED BY <2>4, <1>5
  <1>9. Len(trials') <= EvaluationTrials /\ (failing => Len(trials') = EvaluationTrials)
    <2>1. CASE failing
      <3>1. rest = EvaluationTrials - Len(trials) - 1
        BY <2>1
      <3>2. Len(trials') = (Len(trials) + 1) + rest
        BY <1>5, <1>7
      <3> HIDE DEF rest
      <3>3. Len(trials') = EvaluationTrials
        BY <3>1, <3>2, <1>3
      <3> QED BY <3>3
    <2>2. CASE ~failing
      <3>1. rest = 0
        BY <2>2
      <3> QED BY <3>1, <2>2, <1>3, <1>5, <1>7
    <2> QED BY <2>1, <2>2
  <1> HIDE DEF rest
  <1>10. /\ thread'.at = (IF Len(trials') = EvaluationTrials THEN "report" ELSE "trial")
         /\ thread'.version = thread.version
         /\ thread' \in [at : {"loop", "start", "training", "finish", "trial", "evaluating",
                              "trialEnds", "report", "ended"}, version : 0 .. held]
    BY <1>0 DEF SummariesTypeOK
  <1>11. SummariesAreTrue'
    <2>1. RolloutsAreAccepted' /\ SummariesFollowTheirSteps'
      BY DEF SummariesAreTrue, RolloutsAreAccepted, SummariesFollowTheirSteps
    <2>2. EvaluationsAreWhole'
      BY <1>3 DEF EvaluationsAreWhole
    <2> QED BY <2>1, <2>2 DEF SummariesAreTrue
  <1>12. SummariesTypeOK'
    <2>1. Len(laps') = Len(trials')
      BY <1>7 DEF TrialsAre
    <2> QED BY <2>1, <1>7, <1>9, <1>10 DEF SummariesTypeOK
  <1>13. DriveInv' /\ RecordsInv'
    BY <1>10 DEF DriveInv, RecordsInv
  <1>14. TrialsInv'
    <2>1. Len(trials') \in Nat
      BY <1>7
    <2> QED BY <2>1, <1>3, <1>7, <1>8, <1>9, <1>10 DEF TrialsInv
  <1> QED BY <1>11, <1>12, <1>13, <1>14

\* How a trial is reported.
LEMMA TrialReports ==
    ASSUME ReportInv, TrialEnds \/ TrialPaused \/ TrialLosesTelemetry
    PROVE  ReportInv'
  <1>1. stepsDriven \in Seq(GameStep)
    BY DEF ReportInv, SummariesTypeOK
  <1>2. CASE TrialEnds
    <2> DEFINE why == NaturalEnd(stepsDriven)
    <2>1. /\ why \in Endings /\ why # "telemetry_error"
          /\ why = "finished" => stepsDriven # <<>> /\ FinalInfo(stepsDriven).reason = "finished"
          /\ why = "max_steps" <=> FinalInfo(stepsDriven).reason = "none"
      BY <1>1, EndOf
    <2>2. /\ thread.at = "trialEnds"
          /\ Report(Summary(Evaluation, stepsDriven, why, thread.version), FALSE)
          /\ UNCHANGED <<stopped, held, begun, episode, stepsDriven, buffers, chunk, sentSteps>>
      BY <1>2 DEF TrialEnds
    <2>3. stopped \/ (why = "max_steps" => Len(stepsDriven) = MaxEpisodeSteps)
      BY <2>1, <2>2 DEF ReportInv, DriveInv
    <2> HIDE DEF why
    <2> QED BY <2>1, <2>2, <2>3, ReportTrial
  <1>3. CASE TrialPaused
    <2>1. "capture_interruption" \in Endings
      BY DEF Endings
    <2>2. /\ thread.at = "evaluating"
          /\ Report(Summary(Evaluation, stepsDriven, "capture_interruption", thread.version), FALSE)
          /\ UNCHANGED <<stopped, held, begun, episode, stepsDriven, buffers, chunk, sentSteps>>
      BY <1>3 DEF TrialPaused
    <2> QED BY <2>1, <2>2, ReportTrial
  <1>4. CASE TrialLosesTelemetry
    <2>1. "telemetry_error" \in Endings
      BY DEF Endings
    <2>2. /\ thread.at = "evaluating"
          /\ Report(Summary(Evaluation, stepsDriven, "telemetry_error", thread.version), TRUE)
          /\ UNCHANGED <<stopped, held, begun, episode, stepsDriven, buffers, chunk, sentSteps>>
      BY <1>4 DEF TrialLosesTelemetry, Failed
    <2> QED BY <2>1, <2>2, ReportTrial
  <1> QED BY <1>2, <1>3, <1>4


\* No trial can begin any more.
LEMMA TrialCannotStartReport ==
    ASSUME ReportInv, TrialCannotStart
    PROVE  ReportInv'
  <1> USE DEF ReportInv
  <1> USE SummaryParameters
  <1> DEFINE rest == EvaluationTrials - Len(trials)
             fs == LostTrials(rest, thread.version)
  <1>0. /\ thread.at = "trial" /\ Len(laps) = Len(trials)
        /\ trials' = trials \o fs /\ laps' = laps \o NoLaps(rest)
        /\ thread' = [thread EXCEPT !.at = "report"]
        /\ UNCHANGED <<stopped, held, begun, episode, stepsDriven, buffers, chunk, sentSteps>>
    BY DEF TrialCannotStart, Failures, Failed, LostTrials, SummariesTypeOK
  <1>1. /\ thread.version \in 0 .. held /\ held \in 0 .. MaxPolicies
        /\ trials \in Seq(EpisodeSummary) /\ laps \in Seq(Seq(GameStep))
    BY DEF SummariesTypeOK
  <1>2. /\ chunk.evaluations = <<>> /\ TrialsAre(trials, laps, thread.version)
        /\ stopped \/ DrivenOut(trials)
        /\ Len(trials) < EvaluationTrials /\ Len(trials) \in Nat
    BY <1>0, <1>1 DEF TrialsInv
  <1>3. rest \in Nat /\ Len(trials) + rest = EvaluationTrials /\ thread.version \in 0 .. MaxPolicies
    BY <1>1, <1>2
  <1> HIDE DEF rest
  <1>4. /\ trials \o fs \in Seq(EpisodeSummary) /\ laps \o NoLaps(rest) \in Seq(Seq(GameStep))
        /\ Len(trials \o fs) = Len(trials) + rest
        /\ TrialsAre(trials \o fs, laps \o NoLaps(rest), thread.version)
        /\ DrivenOut(trials) => DrivenOut(trials \o fs)
    BY ONLY <1>1, <1>2, <1>3, TrialsLost
  <1> HIDE DEF fs
  <1>5. /\ trials' \in Seq(EpisodeSummary) /\ laps' \in Seq(Seq(GameStep))
        /\ Len(trials') = EvaluationTrials
        /\ TrialsAre(trials', laps', thread.version)
        /\ stopped \/ DrivenOut(trials')
    BY <1>0, <1>2, <1>3, <1>4
  <1>6. /\ thread'.at = "report" /\ thread'.version = thread.version
        /\ thread' \in [at : {"loop", "start", "training", "finish", "trial", "evaluating",
                             "trialEnds", "report", "ended"}, version : 0 .. held]
    BY <1>0 DEF SummariesTypeOK
  <1>7. SummariesAreTrue'
    <2>1. RolloutsAreAccepted' /\ SummariesFollowTheirSteps'
      BY <1>0 DEF SummariesAreTrue, RolloutsAreAccepted, SummariesFollowTheirSteps
    <2>2. EvaluationsAreWhole'
      BY <1>0, <1>2 DEF EvaluationsAreWhole
    <2> QED BY <2>1, <2>2 DEF SummariesAreTrue
  <1>8. SummariesTypeOK'
    <2>1. Len(laps') = Len(trials')
      BY <1>5 DEF TrialsAre
    <2> QED BY <2>1, <1>0, <1>5, <1>6 DEF SummariesTypeOK
  <1>9. DriveInv' /\ RecordsInv'
    BY <1>0, <1>6 DEF DriveInv, RecordsInv
  <1>10. TrialsInv'
    BY <1>0, <1>2, <1>5, <1>6 DEF TrialsInv
  <1> QED BY <1>7, <1>8, <1>9, <1>10

\* What the leader of the learner may conclude from summaries that are of these laps: it qualifies
\* the policy only if enough of them finished, and each was driven with every step measured and
\* within the limit.
LEMMA QualifiedLaps ==
    ASSUME NEW batch \in Seq(EpisodeSummary), NEW ls \in Seq(Seq(GameStep)),
           NEW version \in 0 .. MaxPolicies, TrialsAre(batch, ls, version),
           Qualifies(BatchStats(batch))
    PROVE  /\ Cardinality({k \in DOMAIN ls : FinalInfo(ls[k]).reason = "finished"})
                >= RequiredFinishes
           /\ \A k \in DOMAIN ls : ls[k] # <<>> /\
                \A j \in DOMAIN ls[k] : ls[k][j].took \in 1 .. StepLimit
  <1> USE SummaryParameters
  <1> DEFINE n == Len(batch)
             F == {k \in DOMAIN batch : batch[k].finished}
             G == {k \in DOMAIN ls : FinalInfo(ls[k]).reason = "finished"}
             f == [k \in DOMAIN batch |-> batch[k].longest]
             b == SumFunctionOnSet(f, 1 .. n)
             S == {batch[k].longest : k \in DOMAIN batch}
  <1>1. /\ n \in Nat /\ DOMAIN batch = 1 .. n /\ DOMAIN ls = 1 .. n
        /\ \A k \in 1 .. n : batch[k] \in EpisodeSummary /\ ls[k] \in Seq(GameStep)
    BY DEF TrialsAre
  <1>2. /\ Cardinality(F) >= RequiredFinishes
        /\ \A k \in DOMAIN batch : /\ batch[k].steps > 0 /\ batch[k].measured = batch[k].steps
                                   /\ batch[k].valid /\ batch[k].longest > 0
        /\ Longest(S) \in 1 .. StepLimit
    BY DEF Qualifies, BatchStats
  <1>3. \A k \in 1 .. n : f[k] = batch[k].longest /\ f[k] \in Nat
    BY <1>1 DEF EpisodeSummary
  <1>4. b \in Nat /\ \A k \in 1 .. n : f[k] <= b
    <2> HIDE DEF f, n
    <2> QED BY <1>1, <1>3, BoundedBySum
  <1>5. S \in SUBSET Nat /\ \A l \in S : l <= b
    <2> HIDE DEF f, b, n
    <2> QED BY <1>1, <1>3, <1>4
  <1>6. \A l \in S : l <= Longest(S)
    <2> HIDE DEF S, b
    <2> QED BY <1>4, <1>5, LongestIs
  <1>7. ASSUME NEW k \in 1 .. n
        PROVE  /\ batch[k].finished => FinalInfo(ls[k]).reason = "finished"
               /\ batch[k].steps = Len(ls[k])
               /\ batch[k].measured = Cardinality(Measured(ls[k]))
               /\ batch[k].longest = Longest(Times(ls[k]))
    <2>1. IsTrial(batch[k], ls[k], version) /\ ls[k] \in Seq(GameStep)
      BY <1>1 DEF TrialsAre
    <2>2. PICK why \in Endings :
            /\ batch[k] = Summary(Evaluation, ls[k], why, version)
            /\ why = "finished" => ls[k] # <<>> /\ FinalInfo(ls[k]).reason = "finished"
      BY <2>1 DEF IsTrial
    <2>3. Evaluation \in Nat
      BY DEF Evaluation
    <2> DEFINE s == Summary(Evaluation, ls[k], why, version)
    <2>4. /\ s.finished = (why = "finished") /\ s.steps = Len(ls[k])
          /\ s.measured = Cardinality(Measured(ls[k])) /\ s.longest = Longest(Times(ls[k]))
      BY <2>1, <2>3, SummaryIs
    <2> HIDE DEF s
    <2>5. batch[k] = s
      BY <2>2 DEF s
    <2> QED BY <2>2, <2>4, <2>5
  <1>8. Cardinality(G) >= RequiredFinishes
    <2>1. F \subseteq G /\ G \subseteq 1 .. n
      BY <1>1, <1>7
    <2> HIDE DEF F, G, n
    <2>2. IsFiniteSet(1 .. n)
      BY <1>1, FS_Interval
    <2>3. IsFiniteSet(G)
      BY <2>1, <2>2, FS_Subset
    <2>4. IsFiniteSet(F) /\ Cardinality(F) <= Cardinality(G)
      BY <2>1, <2>3, FS_Subset
    <2>5. Cardinality(F) \in Nat /\ Cardinality(G) \in Nat
      BY <2>3, <2>4, FS_CardinalityType
    <2> QED BY <2>4, <2>5, <1>2
  <1>9. ASSUME NEW k \in DOMAIN ls
        PROVE  ls[k] # <<>> /\ \A j \in DOMAIN ls[k] : ls[k][j].took \in 1 .. StepLimit
    <2> DEFINE lap == ls[k]
    <2>1. k \in 1 .. n /\ lap \in Seq(GameStep)
      BY <1>1
    <2>2. /\ Len(lap) > 0 /\ Cardinality(Measured(lap)) = Len(lap)
          /\ Longest(Times(lap)) <= Longest(S)
      BY <2>1, <1>1, <1>2, <1>6, <1>7
    <2> HIDE DEF lap
    <2>3. /\ Len(lap) \in Nat /\ DOMAIN lap = 1 .. Len(lap) /\ (lap # <<>> <=> Len(lap) > 0)
          /\ \A j \in 1 .. Len(lap) : lap[j].took \in Nat
          /\ Measured(lap) \in SUBSET (1 .. Len(lap))
      BY <2>1, StepsOf
    <2>4. Measured(lap) = 1 .. Len(lap)
      BY <2>2, <2>3, SomeOf
    <2>5. /\ Longest(Times(lap)) \in Nat
          /\ \A j \in Measured(lap) : lap[j].took <= Longest(Times(lap))
      BY <2>1, TimesOf
    <2>6. Longest(S) \in Nat /\ Longest(S) <= StepLimit
      BY <1>2
    <2>7. \A j \in DOMAIN lap : lap[j].took \in 1 .. StepLimit
      <3> SUFFICES ASSUME NEW j \in DOMAIN lap PROVE lap[j].took \in 1 .. StepLimit
        OBVIOUS
      <3>1. j \in Measured(lap) /\ lap[j].took \in Nat /\ lap[j].took > 0
        BY <2>3, <2>4 DEF Measured
      <3> HIDE DEF S
      <3> QED BY <3>1, <2>2, <2>5, <2>6
    <2> QED BY <2>2, <2>3, <2>7 DEF lap
  <1> QED BY <1>8, <1>9


\* The summaries of an evaluation are accepted together.
LEMMA TrialsAccepted ==
    ASSUME NEW c, c.episodes = <<>>, c.evaluations \in Seq(EpisodeSummary),
           c.evaluations # <<>>, c.snapshot, NEW ls \in Seq(Seq(GameStep)),
           NEW version \in 0 .. MaxPolicies, TrialsAre(c.evaluations, ls, version)
    PROVE  ValidSubmit(c)
  <1> DEFINE batch == c.evaluations
             V == {batch[k].version : k \in DOMAIN batch}
  <1>1. DOMAIN batch = 1 .. Len(batch) /\ Len(batch) \in Nat /\ DOMAIN ls = 1 .. Len(batch)
    BY DEF TrialsAre
  <1>2. ASSUME NEW k \in DOMAIN batch
        PROVE  ValidEvaluation(batch[k]) /\ batch[k].version = version
    <2>1. IsTrial(batch[k], ls[k], version) /\ ls[k] \in Seq(GameStep)
      BY <1>1 DEF TrialsAre
    <2>2. PICK why \in Endings :
            /\ batch[k] = Summary(Evaluation, ls[k], why, version)
            /\ why = "finished" => ls[k] # <<>> /\ FinalInfo(ls[k]).reason = "finished"
      BY <2>1 DEF IsTrial
    <2>3. Evaluation \in Nat
      BY DEF Evaluation
    <2> DEFINE s == Summary(Evaluation, ls[k], why, version)
    <2>4. s.version = version /\ ValidEvaluation(s)
      BY <2>1, <2>2, <2>3, SummaryIs, SummaryAccepted
    <2> HIDE DEF s
    <2>5. batch[k] = s
      BY <2>2 DEF s
    <2> QED BY <2>4, <2>5
  <1>3. Cardinality(V) <= 1
    <2>1. V \subseteq {version}
      BY <1>2
    <2> HIDE DEF V
    <2>2. IsFiniteSet({version}) /\ Cardinality({version}) = 1
      BY FS_Singleton
    <2>3. IsFiniteSet(V) /\ Cardinality(V) <= Cardinality({version})
      BY <2>1, <2>2, FS_Subset
    <2> QED BY <2>2, <2>3
  <1>4. \A k \in DOMAIN c.episodes : ValidEpisode(c.episodes[k])
    OBVIOUS
  <1>5. c.snapshot <=> c.evaluations # <<>>
    OBVIOUS
  <1> QED BY <1>2, <1>3, <1>4, <1>5 DEF ValidSubmit

\* An evaluation is spooled.
LEMMA SpoolEvaluationReport ==
    ASSUME ReportInv, SpoolEvaluation
    PROVE  ReportInv'
  <1> USE DEF ReportInv
  <1> USE SummaryParameters
  <1>0. /\ SpoolRollout(<<>>, <<>>, trials, thread.version) /\ thread.at = "report"
        /\ thread' = [thread EXCEPT !.at = "start"]
        /\ UNCHANGED <<stopped, held, begun, episode, stepsDriven, buffers, trials, laps>>
    BY DEF SpoolEvaluation
  <1>1. /\ thread.version \in 0 .. held /\ held \in 0 .. MaxPolicies
        /\ trials \in Seq(EpisodeSummary) /\ laps \in Seq(Seq(GameStep))
        /\ sentSteps \in Seq(Driven) /\ <<>> \in Seq(Driven) /\ <<>> \in Seq(EpisodeSummary)
    BY DEF SummariesTypeOK
  <1>2. /\ TrialsAre(trials, laps, thread.version) /\ (stopped \/ DrivenOut(trials))
        /\ Len(trials) = EvaluationTrials /\ thread.version \in 0 .. MaxPolicies
    BY <1>0, <1>1 DEF TrialsInv
  <1>3. trials # <<>> /\ DOMAIN trials = 1 .. EvaluationTrials
    BY <1>1, <1>2
  <1>4. /\ chunk' \in [version : 0 .. MaxPolicies, transitions : Seq(Driven),
                       episodes : Seq(EpisodeSummary), evaluations : Seq(EpisodeSummary),
                       snapshot : BOOLEAN]
        /\ sentSteps' \in Seq(Driven)
        /\ stopped => chunk' = chunk /\ sentSteps' = sentSteps
        /\ ~stopped => /\ sentSteps' = sentSteps \o <<>> /\ chunk'.episodes = <<>>
                       /\ chunk'.evaluations = trials /\ chunk'.snapshot
    <2> DEFINE none == <<>>
    <2>1. none \in Seq(Driven) /\ none \in Seq(EpisodeSummary)
      BY <1>1
    <2>2. SpoolRollout(none, none, trials, thread.version)
      BY <1>0
    <2>3. SummariesTypeOK
      OBVIOUS
    <2> HIDE DEF none
    <2>4. /\ chunk' \in [version : 0 .. MaxPolicies, transitions : Seq(Driven),
                         episodes : Seq(EpisodeSummary), evaluations : Seq(EpisodeSummary),
                         snapshot : BOOLEAN]
          /\ sentSteps' \in Seq(Driven)
          /\ stopped \/ (none = <<>> /\ none = <<>> /\ trials = <<>>)
               => chunk' = chunk /\ sentSteps' = sentSteps
          /\ ~stopped => sentSteps' = sentSteps \o none
          /\ ~stopped /\ ~(none = <<>> /\ none = <<>> /\ trials = <<>>)
               => /\ chunk'.episodes = none /\ chunk'.evaluations = trials
                  /\ (chunk'.snapshot <=> trials # <<>>)
      BY <1>1, <1>2, <2>1, <2>2, <2>3, SpoolFacts
    <2> QED BY <2>4, <1>3 DEF none
  <1>5. SummariesAreTrue'
    <2>1. CASE stopped
      BY <2>1, <1>0, <1>4, SaidStays
    <2>2. CASE ~stopped
      <3>1. RolloutsAreAccepted'
        <4>1. ValidSubmit(chunk')
          BY <2>2, <1>1, <1>2, <1>3, <1>4, TrialsAccepted
        <4> QED BY <4>1 DEF RolloutsAreAccepted
      <3>2. SummariesFollowTheirSteps'
        <4>1. sentSteps' = sentSteps
          BY <2>2, <1>1, <1>4
        <4>2. DOMAIN chunk'.episodes = {}
          BY <2>2, <1>4
        <4>3. InSequence(sentSteps')
          BY <4>1 DEF SummariesAreTrue, SummariesFollowTheirSteps, InSequence
        <4> QED BY <4>2, <4>3 DEF SummariesFollowTheirSteps, InSequence
      <3>3. EvaluationsAreWhole'
        <4> DEFINE batch == chunk'.evaluations
        <4>1. batch = trials /\ laps' = laps
          BY <2>2, <1>0, <1>4
        <4>2. Len(batch) = EvaluationTrials
          BY <4>1, <1>2
        <4>3. \A k \in DOMAIN batch :
                /\ batch[k].termination = "max_steps" => batch[k].steps = MaxEpisodeSteps
                /\ batch[k].termination = "telemetry_error" =>
                     \A j \in k + 1 .. EvaluationTrials : batch[j].steps = 0
          BY <2>2, <4>1, <1>2, <1>3 DEF TrialsAre, DrivenOut
        <4>4. Qualifies(BatchStats(batch)) =>
                /\ Cardinality({k \in DOMAIN laps : FinalInfo(laps[k]).reason = "finished"})
                     >= RequiredFinishes
                /\ \A k \in DOMAIN laps : laps[k] # <<>> /\
                     \A j \in DOMAIN laps[k] : laps[k][j].took \in 1 .. StepLimit
          BY <4>1, <1>1, <1>2, QualifiedLaps
        <4> HIDE DEF batch
        <4>5. batch # <<>> =>
                /\ Len(batch) = EvaluationTrials
                /\ \A k \in DOMAIN batch :
                     /\ batch[k].termination = "max_steps" => batch[k].steps = MaxEpisodeSteps
                     /\ batch[k].termination = "telemetry_error" =>
                          \A j \in k + 1 .. EvaluationTrials : batch[j].steps = 0
                /\ Qualifies(BatchStats(batch)) =>
                     /\ Cardinality({k \in DOMAIN laps' : FinalInfo(laps'[k]).reason = "finished"})
                          >= RequiredFinishes
                     /\ \A k \in DOMAIN laps' : laps'[k] # <<>> /\
                          \A j \in DOMAIN laps'[k] : laps'[k][j].took \in 1 .. StepLimit
          BY <4>1, <4>2, <4>3, <4>4
        <4> QED BY <4>5 DEF EvaluationsAreWhole, batch
      <3> QED BY <3>1, <3>2, <3>3 DEF SummariesAreTrue
    <2> QED BY <2>1, <2>2
  <1>6. /\ thread'.at = "start"
        /\ thread' \in [at : {"loop", "start", "training", "finish", "trial", "evaluating",
                             "trialEnds", "report", "ended"}, version : 0 .. held]
    BY <1>0 DEF SummariesTypeOK
  <1>7. SummariesTypeOK'
    BY <1>0, <1>4, <1>6 DEF SummariesTypeOK
  <1>8. DriveInv' /\ RecordsInv' /\ TrialsInv'
    BY <1>0, <1>6 DEF DriveInv, RecordsInv, TrialsInv
  <1> QED BY <1>5, <1>7, <1>8

-----------------------------------------------------------------------------
\* What an actor reports of its episodes and evaluations (actor_collection.py,
\* actor_evaluation.py, actor_metrics.py) satisfies the inductive invariant, however its steps,
\* its pauses and its end fall, and for every number of steps, trials and policies.
THEOREM SummariesInductive == SummariesSpec => []ReportInv
<1>1. SummariesInit => ReportInv
  BY ReportInit
<1>2. ReportInv /\ [SummariesNext]_summaryVars => ReportInv'
  <2> SUFFICES ASSUME ReportInv, [SummariesNext]_summaryVars PROVE ReportInv'
    OBVIOUS
  <2>1. CASE StartTraining
    BY <2>1, StartTrainingReport
  <2>2. CASE StartFails \/ RefreshPolicy \/ StopActor \/ StartTrial
    BY <2>2, QuietReport
  <2>3. CASE TrainingInterrupted
    BY <2>3, TrainingInterruptedReport
  <2>4. CASE FinishTraining
    BY <2>4, FinishTrainingReport
  <2>5. CASE \E s \in StepsAfter(stepsDriven), late \in BOOLEAN : TrainingStep(s, late)
    BY <2>5, TrainingStepReport
  <2>6. CASE \E version \in 0 .. held, prewarmed \in BOOLEAN : BeginEvaluation(version, prewarmed)
    BY <2>6, BeginEvaluationReport
  <2>7. CASE TrialCannotStart
    BY <2>7, TrialCannotStartReport
  <2>8. CASE TrialEnds \/ TrialPaused \/ TrialLosesTelemetry
    BY <2>8, TrialReports
  <2>9. CASE \E s \in StepsAfter(stepsDriven) : EvaluationStep(s)
    BY <2>9, EvaluationStepReport
  <2>10. CASE SpoolEvaluation
    BY <2>10, SpoolEvaluationReport
  <2>11. CASE UNCHANGED summaryVars
    <3> USE DEF ReportInv
    <3>1. SummariesAreTrue'
      BY <2>11, SaidStays DEF summaryVars
    <3>2. SummariesTypeOK' /\ DriveInv' /\ RecordsInv' /\ TrialsInv'
      BY <2>11 DEF summaryVars, SummariesTypeOK, DriveInv, RecordsInv, TrialsInv
    <3> QED BY <3>1, <3>2
  <2> QED BY <2>1, <2>2, <2>3, <2>4, <2>5, <2>6, <2>7, <2>8, <2>9, <2>10, <2>11
      DEF SummariesNext
<1> QED BY <1>1, <1>2, PTL DEF SummariesSpec

\* The learner accepts every rollout an actor spools; a summary follows the transitions that were
\* sent before it, and qualifies a policy only by laps that were driven so.
THEOREM SummariesTrue == SummariesSpec => []SummariesAreTrue
<1>1. ReportInv => SummariesAreTrue
  BY DEF ReportInv
<1> QED BY <1>1, SummariesInductive, PTL

-----------------------------------------------------------------------------
(* The artifact of a suite.                                                *)

Working == {"next", "prewarm", "reset", "driving"}

\* The trials in the results are the first of the suite, in order, and the one under way is the
\* next; there is one under way until the last is recorded.
OrderInv ==
    /\ results \in Seq(TrialResult) /\ Len(results) <= Maps * Trials
    /\ \A i \in 1 .. Len(results) : results[i].trial = Suite[i]
    /\ doing \in {"bind", "load"} => results = <<>> /\ request = <<1, 0>>
    /\ doing \in Working => Len(results) < Maps * Trials /\ request = Suite[Len(results) + 1]
    /\ doing \in {"last", "complete"} => Len(results) = Maps * Trials

\* What was driven is in the results, or under way.
AttemptInv ==
    /\ attempted \in Seq(TrialKey)
    /\ \A i \in 1 .. Len(attempted) :
         \/ \E j \in 1 .. Len(results) : results[j].trial = attempted[i]
         \/ doing = "driving" /\ steps > 0 /\ attempted[i] = request
         \/ doing = "raised"

\* After a trial that the operator cut short no other begins.
CutInv ==
    \A i \in 1 .. Len(results) : results[i].why = "operator_interruption" =>
        stopFile /\ i = Len(results) /\ doing \in {"next", "last", "cancelled", "raised"}

\* The policy is of the content bound, or of a later one; and what the artifact says.
BoundInv ==
    /\ bound \in Int /\ policy \in Int /\ checkpointFile \in Int
    /\ bound <= checkpointFile /\ policy <= checkpointFile
    /\ doing \notin {"bind", "load"} => bound <= policy
ArtifactInv ==
    artifact # Absent =>
        /\ doing \in {"cancelled", "complete"} /\ artifact.status = doing
        /\ artifact.trials = results /\ artifact.checkpoint = policy

SuiteInv == SuiteTypeOK /\ OrderInv /\ AttemptInv /\ CutInv /\ BoundInv /\ ArtifactInv

\* The sizes of a suite.
LEMMA SuiteSizes ==
    /\ Maps \in Nat \ {0} /\ Trials \in Nat \ {0} /\ MaxSteps \in Nat \ {0} /\ MaxVersions \in Nat
    /\ MaxPauses \in Nat /\ Maps * Trials \in Nat \ {0}
  <1>1. /\ Maps \in Nat \ {0} /\ Trials \in Nat \ {0} /\ MaxSteps \in Nat \ {0}
        /\ MaxVersions \in Nat /\ MaxPauses \in Nat
    BY SuiteAssumption
  <1>2. Maps * Trials \in Nat /\ Maps * Trials # 0
    BY <1>1
  <1> QED BY <1>1, <1>2

\* Trial r of a map is the remainder of its number, and the map the quotient.
LEMMA QuotientIs ==
    ASSUME NEW q \in Nat, NEW r \in 0 .. Trials - 1, NEW n, n = q * Trials + r
    PROVE  n \in Nat /\ n \div Trials = q /\ n % Trials = r
  <1>1. Trials \in Nat \ {0} /\ r \in Nat /\ r < Trials /\ q * Trials \in Nat
    BY SuiteSizes
  <1>2. n \in Nat
    BY <1>1
  <1> DEFINE p == n \div Trials
             m == n % Trials
  <1>3. p \in Int /\ m \in 0 .. Trials - 1 /\ n = p * Trials + m
    BY <1>1, <1>2
  <1> HIDE DEF p, m
  <1>4. p = q
    <2>1. ASSUME p < q PROVE FALSE
      <3>1. p + 1 <= q /\ (p + 1) * Trials = p * Trials + Trials
        BY <1>1, <1>3, <2>1
      <3>2. (p + 1) * Trials <= q * Trials
        BY <1>1, <1>3, <3>1
      <3> QED BY <1>1, <1>3, <3>1, <3>2
    <2>2. ASSUME q < p PROVE FALSE
      <3>1. q + 1 <= p /\ (q + 1) * Trials = q * Trials + Trials
        BY <1>1, <1>3, <2>2
      <3>2. (q + 1) * Trials <= p * Trials
        BY <1>1, <1>3, <3>1
      <3> QED BY <1>1, <1>3, <3>1, <3>2
    <2> QED BY <1>3, <2>1, <2>2
  <1> QED BY <1>1, <1>2, <1>3, <1>4 DEF p, m

\* Every number of a suite is of one map and one of its trials.
LEMMA PartsOf ==
    ASSUME NEW n \in 1 .. Maps * Trials
    PROVE  \E q \in 0 .. Maps - 1, r \in 0 .. Trials - 1 : n = q * Trials + r + 1
  <1>1. Trials \in Nat \ {0} /\ Maps \in Nat \ {0} /\ Maps * Trials \in Nat
    BY SuiteSizes
  <1>2. n - 1 \in Nat /\ n <= Maps * Trials
    BY <1>1
  <1> DEFINE p == (n - 1) \div Trials
             m == (n - 1) % Trials
  <1>3. p \in Int /\ m \in 0 .. Trials - 1 /\ n - 1 = p * Trials + m
    BY <1>1, <1>2
  <1> HIDE DEF p, m
  <1>4. p >= 0
    <2> SUFFICES ASSUME p <= -1 PROVE FALSE
      BY <1>3
    <2>1. p * Trials <= (-1) * Trials
      BY <1>1, <1>3
    <2> QED BY <1>1, <1>2, <1>3, <2>1
  <1>5. p < Maps
    <2> SUFFICES ASSUME Maps <= p PROVE FALSE
      BY <1>1, <1>3
    <2>1. Maps * Trials <= p * Trials
      BY <1>1, <1>3
    <2> QED BY <1>1, <1>2, <1>3, <2>1
  <1>6. p \in 0 .. Maps - 1 /\ n = p * Trials + m + 1
    BY <1>1, <1>2, <1>3, <1>4, <1>5
  <1> QED BY <1>3, <1>6

\* The trial with a number.
LEMMA SuiteAt ==
    ASSUME NEW q \in 0 .. Maps - 1, NEW r \in 0 .. Trials - 1, NEW n, n = q * Trials + r + 1
    PROVE  /\ n \in 1 .. Maps * Trials /\ Suite[n] = <<q + 1, r>> /\ Suite[n] \in TrialKey
  <1>1. Trials \in Nat \ {0} /\ Maps \in Nat \ {0} /\ q \in Nat /\ r \in Nat
    BY SuiteSizes
  <1>2. q * Trials + r \in Nat /\ n - 1 = q * Trials + r
    BY <1>1
  <1>3. (n - 1) \div Trials = q /\ (n - 1) % Trials = r
    BY <1>1, <1>2, QuotientIs
  <1>4. n \in 1 .. Maps * Trials
    <2>1. (q + 1) * Trials = q * Trials + Trials /\ (q + 1) * Trials <= Maps * Trials
      BY <1>1
    <2> QED BY <1>1, <1>2, <2>1, SuiteSizes
  <1>5. Suite[n] = <<q + 1, r>>
    BY <1>3, <1>4 DEF Suite
  <1> QED BY <1>1, <1>4, <1>5 DEF TrialKey

\* The trial after another, and the last one.
LEMMA SuiteFollows ==
    ASSUME NEW n \in 1 .. Maps * Trials, NEW k, k = Suite[n]
    PROVE  /\ k \in TrialKey
           /\ k = <<Maps, Trials - 1>> <=> n = Maps * Trials
           /\ n < Maps * Trials =>
                Suite[n + 1] = IF k[2] + 1 < Trials THEN <<k[1], k[2] + 1>> ELSE <<k[1] + 1, 0>>
  <1>1. Trials \in Nat \ {0} /\ Maps \in Nat \ {0} /\ Maps * Trials \in Nat
    BY SuiteSizes
  <1>2. PICK q \in 0 .. Maps - 1, r \in 0 .. Trials - 1 : n = q * Trials + r + 1
    BY PartsOf
  <1>3. k = <<q + 1, r>> /\ k \in TrialKey /\ k[1] = q + 1 /\ k[2] = r
    BY <1>2, SuiteAt
  <1>4. (q + 1) * Trials = q * Trials + Trials /\ q * Trials \in Nat
    BY <1>1
  <1>5. k = <<Maps, Trials - 1>> => n = Maps * Trials
    BY <1>1, <1>2, <1>3, <1>4
  <1>6. n = Maps * Trials => k = <<Maps, Trials - 1>>
    <2> SUFFICES ASSUME n = Maps * Trials PROVE q = Maps - 1 /\ r = Trials - 1
      BY <1>1, <1>3
    <2>1. Maps - 1 \in 0 .. Maps - 1 /\ Trials - 1 \in 0 .. Trials - 1
          /\ n = (Maps - 1) * Trials + (Trials - 1) + 1
      BY <1>1
    <2>2. Suite[n] = <<(Maps - 1) + 1, Trials - 1>>
      BY <2>1, SuiteAt
    <2> QED BY <1>1, <1>3, <2>2
  <1>7. ASSUME n < Maps * Trials
        PROVE  Suite[n + 1] = IF k[2] + 1 < Trials THEN <<k[1], k[2] + 1>> ELSE <<k[1] + 1, 0>>
    <2>1. CASE r + 1 < Trials
      <3>1. r + 1 \in 0 .. Trials - 1 /\ n + 1 = q * Trials + (r + 1) + 1
        BY <1>1, <1>2, <1>4, <2>1
      <3>2. Suite[n + 1] = <<q + 1, r + 1>>
        BY <3>1, SuiteAt
      <3> QED BY <1>3, <2>1, <3>2
    <2>2. CASE ~(r + 1 < Trials)
      <3>1. r = Trials - 1 /\ n = (q + 1) * Trials /\ n + 1 = (q + 1) * Trials + 0 + 1
        BY <1>1, <1>2, <1>4, <2>2
      <3>2. q + 1 # Maps
        BY <1>7, <3>1
      <3>3. q + 1 \in 0 .. Maps - 1 /\ 0 \in 0 .. Trials - 1
        BY <1>1, <3>2
      <3>4. Suite[n + 1] = <<(q + 1) + 1, 0>>
        BY <3>1, <3>3, SuiteAt
      <3> QED BY <1>3, <2>2, <3>4
    <2> QED BY <2>1, <2>2
  <1> QED BY <1>3, <1>5, <1>6, <1>7

\* The suite begins with the first trial of the first map.
LEMMA SuiteBegins == 1 \in 1 .. Maps * Trials /\ Suite[1] = <<1, 0>> /\ <<1, 0>> \in TrialKey
  <1>1. 0 \in 0 .. Maps - 1 /\ 0 \in 0 .. Trials - 1 /\ 1 = 0 * Trials + 0 + 1
    BY SuiteSizes
  <1>2. 1 \in 1 .. Maps * Trials /\ Suite[1] = <<0 + 1, 0>> /\ Suite[1] \in TrialKey
    BY <1>1, SuiteAt
  <1> QED BY <1>2

\* An evaluation begins in a state that satisfies the invariant.
LEMMA SuiteStarts == SuiteInit => SuiteInv
  <1> SUFFICES ASSUME SuiteInit PROVE SuiteInv
    OBVIOUS
  <1>1. results = <<>> /\ attempted = <<>> /\ artifact = Absent /\ doing = "bind"
        /\ request = <<1, 0>>
    BY DEF SuiteInit
  <1>2. <<>> \in Seq(TrialResult) /\ <<>> \in Seq(TrialKey) /\ Len(<<>>) = 0
    OBVIOUS
  <1>3. SuiteTypeOK
    <2>1. <<1, 0>> \in TrialKey
      BY SuiteBegins
    <2>2. artifact.status = "none"
      BY <1>1 DEF Absent
    <2>3. /\ checkpointFile \in 0 .. MaxVersions /\ stopFile \in BOOLEAN
          /\ pauses \in 0 .. MaxPauses
          /\ bound \in 0 .. checkpointFile /\ policy \in 0 .. checkpointFile
          /\ steps \in 0 .. MaxSteps /\ finished \in BOOLEAN
      <3>1. MaxVersions \in Nat /\ MaxPauses \in Nat /\ MaxSteps \in Nat
        BY SuiteSizes
      <3>2. checkpointFile = 0 /\ pauses = 0 /\ bound = 0 /\ policy = 0 /\ steps = 0
        BY DEF SuiteInit
      <3>3. stopFile \in BOOLEAN /\ finished \in BOOLEAN
        BY DEF SuiteInit
      <3>4. /\ checkpointFile \in 0 .. MaxVersions /\ pauses \in 0 .. MaxPauses
            /\ bound \in 0 .. checkpointFile /\ policy \in 0 .. checkpointFile
            /\ steps \in 0 .. MaxSteps
        BY <3>1, <3>2
      <3> QED BY <3>3, <3>4
    <2> QED BY <1>1, <1>2, <2>1, <2>2, <2>3 DEF SuiteTypeOK
  <1>4. OrderInv
    BY <1>1, <1>2, SuiteSizes DEF OrderInv, Working
  <1>5. AttemptInv /\ CutInv /\ ArtifactInv
    BY <1>1, <1>2 DEF AttemptInv, CutInv, ArtifactInv
  <1>6. BoundInv
    BY <1>1 DEF SuiteInit, BoundInv
  <1> QED BY <1>3, <1>4, <1>5, <1>6 DEF SuiteInv

\* Why a trial ended.
OneEnd ==
    {"finished", "off_track", "max_steps", "telemetry_error", "capture_interruption",
     "operator_interruption"}

\* A trial goes into the results, and the next one comes up.
LEMMA RecordInv ==
    ASSUME SuiteInv, doing \in {"prewarm", "reset", "driving"}, NEW why \in OneEnd,
           NEW done \in BOOLEAN, RecordTrial(why, done),
           why = "operator_interruption" => stopFile,
           steps' \in 0 .. MaxSteps, finished' \in BOOLEAN,
           attempted' = attempted \/ attempted' = Append(attempted, request)
    PROVE  SuiteInv'
  <1> DEFINE e == [trial |-> request, why |-> why, finished |-> done]
             n == Len(results) + 1
  <1>1. /\ SuiteTypeOK /\ OrderInv /\ AttemptInv /\ CutInv /\ BoundInv /\ ArtifactInv
        /\ doing \in Working
    BY DEF SuiteInv, Working
  <1>2. /\ results' = Append(results, e)
        /\ UNCHANGED <<checkpointFile, stopFile, pauses, bound, policy, artifact>>
    BY DEF RecordTrial, external, loaded
  <1>3. /\ results \in Seq(TrialResult) /\ Len(results) \in Nat /\ n \in 1 .. Maps * Trials
        /\ request = Suite[n]
    BY <1>1, SuiteSizes DEF OrderInv
  <1>4. /\ request \in TrialKey /\ (request = <<Maps, Trials - 1>> <=> n = Maps * Trials)
        /\ n < Maps * Trials => Suite[n + 1] = Successor /\ n + 1 \in 1 .. Maps * Trials
    <2> HIDE DEF n
    <2>1. /\ request \in TrialKey /\ (request = <<Maps, Trials - 1>> <=> n = Maps * Trials)
          /\ n < Maps * Trials => Suite[n + 1] = Successor
      BY <1>3, SuiteFollows DEF Successor
    <2>2. n < Maps * Trials => n + 1 \in 1 .. Maps * Trials
      BY <1>3, SuiteSizes
    <2> QED BY <2>1, <2>2
  <1>5. e \in TrialResult /\ e.trial = request /\ e.why = why
    BY <1>4 DEF TrialResult, OneEnd
  <1> HIDE DEF e
  <1>6. /\ results' \in Seq(TrialResult) /\ Len(results') = n /\ results'[n] = e
        /\ \A i \in 1 .. Len(results) : results'[i] = results[i]
        /\ \A i \in 1 .. n : i \in 1 .. Len(results) \/ i = n
    BY <1>2, <1>3, <1>5
  <1> HIDE DEF n
  <1>7. artifact = Absent
    BY <1>1 DEF ArtifactInv, Working
  <1>8. \/ n = Maps * Trials /\ doing' = "last" /\ request' = request
        \/ n < Maps * Trials /\ doing' = "next" /\ request' = Successor
    BY <1>3, <1>4, SuiteSizes DEF RecordTrial
  <1>9. request' \in TrialKey
    <2>1. n < Maps * Trials => Suite[n + 1] \in TrialKey
      BY <1>4, SuiteFollows
    <2> QED BY <1>4, <1>8, <2>1
  <1>10. OrderInv'
    <2>1. \A i \in 1 .. Len(results') : results'[i].trial = Suite[i]
      BY <1>1, <1>3, <1>5, <1>6 DEF OrderInv
    <2>2. Len(results') <= Maps * Trials
      BY <1>3, <1>6, SuiteSizes
    <2>3. doing' \in Working => Len(results') < Maps * Trials /\ request' = Suite[Len(results') + 1]
      BY <1>4, <1>6, <1>8 DEF Working
    <2>4. doing' \in {"last", "complete"} => Len(results') = Maps * Trials
      BY <1>6, <1>8
    <2>5. doing' \notin {"bind", "load"}
      BY <1>8
    <2> QED BY <1>6, <2>1, <2>2, <2>3, <2>4, <2>5 DEF OrderInv
  <1>11. AttemptInv'
    <2>1. attempted \in Seq(TrialKey) /\ attempted' \in Seq(TrialKey)
          /\ \A i \in 1 .. Len(attempted') :
               \/ i \in 1 .. Len(attempted) /\ attempted'[i] = attempted[i]
               \/ attempted'[i] = request
      <3>1. attempted \in Seq(TrialKey) /\ Len(attempted) \in Nat
        BY <1>1 DEF AttemptInv
      <3> QED BY <1>4, <3>1
    <2>2. ASSUME NEW i \in 1 .. Len(attempted')
          PROVE  \E j \in 1 .. Len(results') : results'[j].trial = attempted'[i]
      <3>1. n \in 1 .. Len(results') /\ results'[n].trial = request
        BY <1>3, <1>5, <1>6
      <3>2. CASE attempted'[i] = request
        BY <3>1, <3>2
      <3>3. CASE i \in 1 .. Len(attempted) /\ attempted'[i] = attempted[i]
                 /\ attempted[i] # request
        <4>1. PICK j \in 1 .. Len(results) : results[j].trial = attempted[i]
          BY <1>1, <3>3 DEF AttemptInv, Working
        <4>2. j \in 1 .. Len(results') /\ results'[j] = results[j]
          BY <1>3, <1>6, <4>1 DEF n
        <4> QED BY <3>3, <4>1, <4>2
      <3> QED BY <2>1, <3>2, <3>3
    <2> QED BY <2>1, <2>2 DEF AttemptInv
  <1>12. CutInv'
    <2> SUFFICES ASSUME NEW i \in 1 .. Len(results'),
                        results'[i].why = "operator_interruption"
                 PROVE  stopFile' /\ i = Len(results')
                        /\ doing' \in {"next", "last", "cancelled", "raised"}
      BY DEF CutInv
    <2>1. ~(i \in 1 .. Len(results))
      BY <1>1, <1>6 DEF CutInv
    <2>2. i = n
      BY <1>6, <2>1
    <2> QED BY <1>2, <1>5, <1>6, <1>8, <2>2
  <1>13. BoundInv' /\ ArtifactInv'
    BY <1>1, <1>2, <1>7, <1>8 DEF BoundInv, ArtifactInv, Working
  <1>14. SuiteTypeOK'
    <2>1. request' \in TrialKey
      BY <1>9
    <2>2. doing' \in {"next", "last"}
      BY <1>8
    <2>3. results' \in Seq(TrialResult) /\ attempted' \in Seq(TrialKey)
      BY <1>10, <1>11 DEF OrderInv, AttemptInv
    <2> QED BY <1>1, <1>2, <2>1, <2>2, <2>3 DEF SuiteTypeOK
  <1> QED BY <1>10, <1>11, <1>12, <1>13, <1>14 DEF SuiteInv

\* A round of the policy.
LEMMA DriveTrialInv == SuiteInv /\ Drive => SuiteInv'
  <1> SUFFICES ASSUME SuiteInv, Drive PROVE SuiteInv'
    OBVIOUS
  <1>1. /\ SuiteTypeOK /\ doing = "driving" /\ steps < MaxSteps /\ steps' = steps + 1
        /\ attempted' = IF steps = 0 THEN Append(attempted, request) ELSE attempted
    BY DEF SuiteInv, Drive
  <1>2. PICK outcome \in Outcomes :
         /\ finished' = (outcome = "finished")
         /\ IF outcome # "running" THEN RecordTrial(outcome, finished')
            ELSE IF steps' = MaxSteps THEN RecordTrial("max_steps", FALSE)
            ELSE UNCHANGED <<external, pauses, loaded, doing, request, results, artifact>>
    BY DEF Drive
  <1>3. steps \in Nat /\ steps' \in 0 .. MaxSteps /\ steps' > 0 /\ finished' \in BOOLEAN
    BY <1>1, <1>2, SuiteSizes DEF SuiteTypeOK
  <1>4. attempted' = attempted \/ attempted' = Append(attempted, request)
    BY <1>1
  <1>5. CASE outcome # "running"
    <2>1. RecordTrial(outcome, finished') /\ outcome # "operator_interruption" /\ outcome \in OneEnd
      BY <1>2, <1>5 DEF Outcomes, OneEnd
    <2>2. PICK done \in BOOLEAN : done = finished'
      BY <1>3
    <2>3. RecordTrial(outcome, done)
      BY <2>1, <2>2
    <2> QED BY <1>1, <1>3, <1>4, <2>1, <2>3, RecordInv
  <1>6. CASE outcome = "running" /\ steps' = MaxSteps
    <2>1. RecordTrial("max_steps", FALSE) /\ "max_steps" \in OneEnd /\ FALSE \in BOOLEAN
      BY <1>2, <1>6 DEF OneEnd
    <2> QED BY <1>1, <1>3, <1>4, <2>1, RecordInv
  <1>7. CASE outcome = "running" /\ steps' # MaxSteps
    <2>1. UNCHANGED <<checkpointFile, stopFile, pauses, bound, policy, doing, request, results,
                     artifact>>
      BY <1>2, <1>7 DEF external, loaded
    <2>2. SuiteTypeOK'
      BY <1>1, <1>3, <2>1 DEF SuiteTypeOK
    <2>3. OrderInv' /\ CutInv' /\ BoundInv' /\ ArtifactInv'
      BY <2>1 DEF SuiteInv, OrderInv, CutInv, BoundInv, ArtifactInv
    <2>4. AttemptInv'
      <3>1. attempted \in Seq(TrialKey) /\ Len(attempted) \in Nat /\ request \in TrialKey
        BY <1>1 DEF SuiteInv, AttemptInv, SuiteTypeOK, TrialKey
      <3>2. /\ attempted' \in Seq(TrialKey)
            /\ \A i \in 1 .. Len(attempted') :
               \/ i \in 1 .. Len(attempted) /\ attempted'[i] = attempted[i]
               \/ attempted'[i] = request
        BY <1>1, <3>1
      <3> QED BY <1>1, <1>3, <2>1, <3>2 DEF SuiteInv, AttemptInv
    <2> QED BY <2>2, <2>3, <2>4 DEF SuiteInv
  <1> QED BY <1>5, <1>6, <1>7

\* A trial that breaks off.
LEMMA BreakOffInv ==
    ASSUME SuiteInv, doing \in {"prewarm", "reset", "driving"}, NEW why \in OneEnd, BreakOff(why),
           why = "operator_interruption" => stopFile
    PROVE  SuiteInv'
  <1>1. RecordTrial(why, FALSE) /\ UNCHANGED <<steps, finished, attempted>> /\ FALSE \in BOOLEAN
    BY DEF BreakOff, episodeState
  <1>2. steps' \in 0 .. MaxSteps /\ finished' \in BOOLEAN
    BY <1>1 DEF SuiteInv, SuiteTypeOK
  <1> QED BY <1>1, <1>2, RecordInv

\* The artifact is written, or the checkpoint refused.
LEMMA ArtifactWritten ==
    ASSUME SuiteInv, NEW status \in {"cancelled", "complete"}, WriteArtifact(status),
           doing \in Working \cup {"last"}, doing = "driving" => steps = 0,
           status = "complete" => doing = "last" /\ ~stopFile,
           UNCHANGED <<checkpointFile, stopFile, pauses, bound, policy, request, steps, finished,
                       results, attempted>>
    PROVE  SuiteInv'
  <1> USE DEF Working
  <1>1. SuiteTypeOK /\ OrderInv /\ AttemptInv /\ CutInv /\ BoundInv /\ ArtifactInv
    BY DEF SuiteInv
  <1>2. artifact = Absent
    BY <1>1 DEF ArtifactInv
  <1>3. \/ doing' = "raised" /\ artifact' = artifact
        \/ /\ doing' = status /\ checkpointFile = bound
           /\ artifact' = [status |-> status, trials |-> results, checkpoint |-> bound]
    BY DEF WriteArtifact
  <1>4. artifact'.status \in {"none", "cancelled", "complete"}
    BY <1>2, <1>3 DEF Absent
  <1>5. SuiteTypeOK'
    BY <1>1, <1>3, <1>4 DEF SuiteTypeOK
  <1>6. OrderInv'
    BY <1>1, <1>3 DEF OrderInv
  <1>7. AttemptInv'
    BY <1>1, <1>3 DEF AttemptInv
  <1>8. CutInv'
    BY <1>1, <1>3 DEF CutInv
  <1>9. BoundInv'
    BY <1>1, <1>3 DEF BoundInv
  <1>10. ArtifactInv'
    <2>1. checkpointFile = bound => policy = bound
      BY <1>1 DEF BoundInv
    <2> QED BY <1>2, <1>3, <2>1 DEF ArtifactInv
  <1> QED BY <1>5, <1>6, <1>7, <1>8, <1>9, <1>10 DEF SuiteInv

\* A step that changes neither results nor artifact.
LEMMA QuietInv ==
    ASSUME SuiteInv, SuiteTypeOK', BoundInv', UNCHANGED <<request, results, artifact, attempted>>,
           stopFile => stopFile',
           \/ UNCHANGED <<doing, steps, policy>>
           \/ doing = "bind" /\ doing' = "load"
           \/ doing = "load" /\ doing' = "next"
           \/ doing = "next" /\ ~stopFile /\ doing' \in {"prewarm", "reset"} /\ policy' = policy
           \/ doing \in {"prewarm", "reset"} /\ doing' \in {"prewarm", "reset", "driving"}
              /\ steps' = steps /\ policy' = policy
           \/ doing \in {"prewarm", "reset", "driving"} /\ doing' = "raised" /\ policy' = policy
    PROVE  SuiteInv'
  <1>1. OrderInv /\ AttemptInv /\ CutInv /\ ArtifactInv
    BY DEF SuiteInv
  <1>2. OrderInv'
    <2>1. <<1, 0>> = Suite[1] /\ Maps * Trials \in Nat \ {0} /\ Len(<<>>) = 0
      BY SuiteBegins, SuiteSizes
    <2>2. UNCHANGED <<request, results>>
      OBVIOUS
    <2>3. doing' \in {"bind", "load"} => doing \in {"bind", "load"}
      OBVIOUS
    <2>4. doing' \in {"last", "complete"} => doing' = doing
      OBVIOUS
    <2>5. doing' \in Working => doing \in Working \/ doing = "load"
      BY DEF Working
    <2>6. doing = "load" => Len(results) < Maps * Trials /\ request = Suite[Len(results) + 1]
      BY <1>1, <2>1 DEF OrderInv
    <2> QED BY <1>1, <2>2, <2>3, <2>4, <2>5, <2>6 DEF OrderInv
  <1>3. AttemptInv'
    BY <1>1 DEF AttemptInv
  <1>4. CutInv'
    BY <1>1 DEF CutInv
  <1>5. ArtifactInv'
    BY <1>1 DEF ArtifactInv
  <1> QED BY <1>2, <1>3, <1>4, <1>5 DEF SuiteInv

\* Every step keeps the invariant.
LEMMA SuiteStep == SuiteInv /\ [SuiteNext]_suiteVars => SuiteInv'
  <1> SUFFICES ASSUME SuiteInv, [SuiteNext]_suiteVars PROVE SuiteInv'
    OBVIOUS
  <1> USE DEF external, loaded, reported, episodeState
  <1>1. SuiteTypeOK /\ BoundInv
    BY DEF SuiteInv
  <1>2. CASE OverwriteCheckpoint
    <2>1. SuiteTypeOK' /\ BoundInv'
      BY <1>1, <1>2, SuiteSizes DEF OverwriteCheckpoint, SuiteTypeOK, BoundInv
    <2> QED BY <1>2, <2>1, QuietInv DEF OverwriteCheckpoint
  <1>3. CASE CreateStopFile
    <2>1. SuiteTypeOK' /\ BoundInv'
      BY <1>1, <1>3 DEF CreateStopFile, SuiteTypeOK, BoundInv
    <2> QED BY <1>3, <2>1, QuietInv DEF CreateStopFile
  <1>4. CASE SetCheckpoint
    <2>1. SuiteTypeOK' /\ BoundInv'
      BY <1>1, <1>4 DEF SetCheckpoint, SuiteTypeOK, BoundInv
    <2> QED BY <1>4, <2>1, QuietInv DEF SetCheckpoint
  <1>5. CASE LoadPolicy
    <2>1. SuiteTypeOK' /\ BoundInv'
      BY <1>1, <1>5 DEF LoadPolicy, SuiteTypeOK, BoundInv
    <2> QED BY <1>5, <2>1, QuietInv DEF LoadPolicy
  <1>6. CASE Cancel
    BY <1>6, ArtifactWritten DEF Cancel, Working
  <1>7. CASE BeginTrial
    <2>1. BoundInv'
      BY <1>1, <1>7 DEF BeginTrial, BoundInv
    <2>2. steps' \in 0 .. MaxSteps /\ finished' \in BOOLEAN /\ doing' \in {"prewarm", "reset"}
      <3>1. steps' = 0 /\ doing' \in {"prewarm", "reset"}
        BY <1>7 DEF BeginTrial
      <3>2. finished' \in BOOLEAN
        BY <1>7 DEF BeginTrial
      <3> QED BY <3>1, <3>2, SuiteSizes
    <2>3. SuiteTypeOK'
      BY <1>1, <1>7, <2>2 DEF BeginTrial, SuiteTypeOK
    <2> QED BY <1>7, <2>1, <2>2, <2>3, QuietInv DEF BeginTrial
  <1>8. CASE ResetDelayed
    <2>1. SuiteTypeOK' /\ BoundInv'
      BY <1>1, <1>8, SuiteSizes DEF ResetDelayed, SuiteTypeOK, BoundInv
    <2> QED BY <1>8, <2>1, QuietInv DEF ResetDelayed
  <1>9. CASE ResetSucceeds
    <2>1. SuiteTypeOK' /\ BoundInv'
      BY <1>1, <1>9 DEF ResetSucceeds, SuiteTypeOK, BoundInv
    <2> QED BY <1>9, <2>1, QuietInv DEF ResetSucceeds
  <1>10. CASE Drive
    BY <1>10, DriveTrialInv
  <1>11. CASE TelemetryFails
    <2>1. /\ "telemetry_error" \in OneEnd /\ BreakOff("telemetry_error")
          /\ doing \in {"prewarm", "reset", "driving"}
      BY <1>11 DEF TelemetryFails, OneEnd
    <2> QED BY <1>11, <2>1, BreakOffInv
  <1>12. CASE WindowLost
    <2>1. /\ "capture_interruption" \in OneEnd /\ BreakOff("capture_interruption")
          /\ doing \in {"prewarm", "reset", "driving"}
      BY <1>12 DEF WindowLost, OneEnd
    <2> QED BY <1>12, <2>1, BreakOffInv
  <1>13. CASE StopDuringEpisode
    <2>1. /\ "operator_interruption" \in OneEnd /\ BreakOff("operator_interruption")
          /\ doing \in {"prewarm", "reset", "driving"}
      BY <1>13 DEF StopDuringEpisode, OneEnd
    <2> QED BY <1>13, <2>1, BreakOffInv DEF StopDuringEpisode
  <1>14. CASE Raise
    <2>1. SuiteTypeOK' /\ BoundInv'
      BY <1>1, <1>14 DEF Raise, SuiteTypeOK, BoundInv
    <2> QED BY <1>14, <2>1, QuietInv DEF Raise
  <1>15. CASE Complete
    BY <1>15, ArtifactWritten DEF Complete, Working
  <1>16. CASE UNCHANGED suiteVars
    <2>1. SuiteTypeOK' /\ BoundInv'
      BY <1>1, <1>16 DEF suiteVars, SuiteTypeOK, BoundInv
    <2> QED BY <1>16, <2>1, QuietInv DEF suiteVars
  <1> QED BY <1>2, <1>3, <1>4, <1>5, <1>6, <1>7, <1>8, <1>9, <1>10, <1>11, <1>12, <1>13, <1>14,
             <1>15, <1>16 DEF SuiteNext

\* What was driven, what is recorded of it and what an artifact says is inductive.
THEOREM SuiteInductive == SuiteSpec => []SuiteInv
  BY SuiteStarts, SuiteStep, PTL DEF SuiteSpec

\* The invariant is what the artifact promises.
LEMMA ArtifactsFollow == SuiteInv => ArtifactsAreTrue
  <1> SUFFICES ASSUME SuiteInv, artifact # Absent PROVE ArtifactsAreTrue
    BY DEF ArtifactsAreTrue
  <1>1. /\ OrderInv /\ AttemptInv /\ CutInv
        /\ doing \in {"cancelled", "complete"} /\ artifact.status = doing
        /\ artifact.trials = results /\ artifact.checkpoint = policy
    BY DEF SuiteInv, ArtifactInv
  <1>2. Tried(results) = SubSeq(Suite, 1, Len(results))
    <2>1. Suite \in Seq(TrialKey) /\ Len(Suite) = Maps * Trials
      <3>1. \A n \in 1 .. Maps * Trials : Suite[n] \in TrialKey
        BY SuiteFollows
      <3>2. Suite = [n \in 1 .. Maps * Trials |-> Suite[n]] /\ Maps * Trials \in Nat
        BY SuiteSizes DEF Suite
      <3> QED BY <3>1, <3>2
    <2>2. Len(results) \in 0 .. Len(Suite) /\ Len(results) \in Nat
      BY <1>1, <2>1, SuiteSizes DEF OrderInv
    <2> DEFINE n == Len(results)
               s == SubSeq(Suite, 1, n)
    <2>3. s = [i \in 1 .. n |-> Suite[i]]
      BY <2>1, <2>2
    <2>4. \A i \in 1 .. n : results[i].trial = Suite[i]
      BY <1>1 DEF OrderInv
    <2> QED BY <2>3, <2>4 DEF Tried
  <1>3. \A i \in 1 .. Len(attempted) :
             \E j \in 1 .. Len(results) : results[j].trial = attempted[i]
    BY <1>1 DEF AttemptInv
  <1>4. \A i \in 1 .. Len(results) : results[i].why = "operator_interruption" =>
             doing = "cancelled" /\ i = Len(results)
    BY <1>1 DEF CutInv
  <1>5. doing = "complete" => Len(results) = Maps * Trials
    BY <1>1 DEF OrderInv
  <1> QED BY <1>1, <1>2, <1>3, <1>4, <1>5 DEF ArtifactsAreTrue

\* The artifact of a suite says what was driven.
THEOREM ArtifactsTrue == SuiteSpec => []ArtifactsAreTrue
  BY SuiteInductive, ArtifactsFollow, PTL

-----------------------------------------------------------------------------
(* The parts together.                                                     *)

\* What samplers do leaves the store alone, or reloads it.
LEMMA ReplaySteps == MCReplayNext \/ MCSequenceNext => [StoreNext]_storeVars
<1>1. MCReplayNext => [StoreNext]_storeVars
  BY DEF MCReplayNext, StoreNext, StoreStep, Synchronize, UpdatePriority, Restore
<1>2. MCSequenceNext => [StoreNext]_storeVars
  BY DEF MCSequenceNext, StoreNext, StoreStep, DrawSequences, RestoreSampler, Restore, replayVars
<1> QED BY <1>1, <1>2

\* A behavior of the parts is one of each, the others standing still.
LEMMA DataParts ==
    MCSpec => /\ Spec /\ RaceSpec /\ RewardSpec /\ StoreSpec
              /\ SearchSpec /\ SummariesSpec /\ SuiteSpec
<1>1. MCInit => /\ Init /\ RaceInit /\ RewardInit /\ StoreInit
                /\ SearchInit /\ SummariesInit /\ SuiteInit
  BY DEF MCInit, BatchInit, ReplayInit
<1>2. [MCNext]_dataVars => [Next]_vars
  BY DEF MCNext, dataVars
<1>3. [MCNext]_dataVars => [RaceNext]_raceVars
  BY DEF MCNext, dataVars, drivingVars
<1>4. [MCNext]_dataVars => [RewardNext]_rewardVars
  BY DEF MCNext, dataVars, drivingVars, MCRewardNext, RewardNext
<1>5. [MCNext]_dataVars => [StoreNext]_storeVars
  BY ReplaySteps DEF MCNext, dataVars, batchVars, replayVars
<1>6. [MCNext]_dataVars => [SearchNext]_searchVars
  BY DEF MCNext, dataVars, reportVars
<1>7. [MCNext]_dataVars => [SummariesNext]_summaryVars
  BY DEF MCNext, dataVars, reportVars
<1>8. [MCNext]_dataVars => [SuiteNext]_suiteVars
  BY DEF MCNext, dataVars, reportVars
<1> QED BY <1>1, <1>2, <1>3, <1>4, <1>5, <1>6, <1>7, <1>8, PTL
        DEF MCSpec, Spec, RaceSpec, RewardSpec, StoreSpec, SearchSpec, SummariesSpec, SuiteSpec

\* Every part of the data keeps its types, whatever its sizes and bounds.
THEOREM DataTypeCorrect == MCSpec => []DataTypeOK
<1>1. /\ RaceInv => RaceTypeOK
      /\ RewardInv => RewardTypeOK
      /\ ReportInv => SummariesTypeOK
      /\ SuiteInv => SuiteTypeOK
  BY DEF RaceInv, RewardInv, ReportInv, SuiteInv
<1>2. ( /\ RaceTypeOK /\ RewardTypeOK /\ TypeOK /\ StoreTypeOK
        /\ SummariesTypeOK /\ SuiteTypeOK /\ SearchTypeOK ) => DataTypeOK
  BY DEF DataTypeOK
<1> QED BY <1>1, <1>2, StoreTypes, DataParts, RaceInductive, RewardInductive, TypeCorrect,
           StoreInductive, SummariesInductive, SuiteInductive, SearchTypeCorrect, PTL

\* What is reported of a policy is what it drove: the summaries an actor sends and the artifact of
\* an evaluated suite (distributed/actor_evaluation.py, trackmania/evaluation.py).
THEOREM ReportsTrue == MCSpec => []ReportsAreTrue
<1>1. SummariesAreTrue /\ ArtifactsAreTrue => ReportsAreTrue
  BY DEF ReportsAreTrue
<1> QED BY <1>1, DataParts, SummariesTrue, ArtifactsTrue, PTL

\* The ring keeps what was driven: neighbours stay linked through evictions and late steps, and
\* demonstrations outlive the laps around them (core/replay/store.py:92-170).
THEOREM EpisodesKept == MCSpec => []EpisodesAreKept
<1>1. EpisodesStayLinked /\ DemonstrationsAreKept => EpisodesAreKept
  BY DEF EpisodesAreKept
<1> QED BY <1>1, StoreKeeps, DataParts, PTL

\* What is drawn: by windows in the part about those, by the index in the others.
DrawInv == IF part = "sequence" THEN SamplerInv ELSE IndexInv

LEMMA DrawsStart == MCInit => DrawInv
<1> SUFFICES ASSUME MCInit PROVE DrawInv OBVIOUS
<1>1. BatchInit /\ ReplayInit BY DEF MCInit, BatchInit
<1> QED BY <1>1, SamplerStarts, IndexStarts DEF DrawInv

\* The bounds of the instance only leave steps out.
LEMMA BoundedSteps ==
    /\ StoreInv /\ MCReplayNext => ReplayNext
    /\ MCSequenceNext => SequenceNext
<1>1. ASSUME StoreInv, NEW id, UpdatePriority(id) PROVE id \in Nat
  <2>1. nextIndex \in Nat BY <1>1 DEF StoreInv, StoreShape
  <2> QED BY <1>1, <2>1 DEF UpdatePriority
<1>2. StoreInv /\ MCReplayNext => ReplayNext
  BY <1>1 DEF MCReplayNext, ReplayNext, StoreStep
<1>3. MCSequenceNext => SequenceNext
  BY DEF MCSequenceNext, SequenceNext, StoreStep
<1> QED BY <1>2, <1>3

LEMMA DrawsStep ==
    ASSUME DrawInv, [MCNext]_dataVars
    PROVE  DrawInv'
<1>1. part' = part BY DEF MCNext, dataVars
<1>2. CASE part = "sequence"
  <2>1. SamplerInv BY <1>2 DEF DrawInv
  <2>2. [SequenceNext]_batchVars BY <1>2, BoundedSteps DEF MCNext, dataVars
  <2> QED BY <1>1, <1>2, <2>1, <2>2, SamplerSteps DEF DrawInv
<1>3. CASE part # "sequence"
  <2>1. IndexInv /\ StoreInv BY <1>3 DEF DrawInv, IndexInv
  <2>2. [ReplayNext]_replayVars BY <1>3, <2>1, BoundedSteps DEF MCNext, dataVars, batchVars
  <2> QED BY <1>1, <1>3, <2>1, <2>2, IndexSteps DEF DrawInv
<1> QED BY <1>2, <1>3

\* What a learner is given follows the store: which transitions may be drawn, and what is made of
\* them (core/replay/prioritized_index.py, sequence_sampler.py, algorithms/value_based).
THEOREM DrawsFollow == MCSpec => []DrawsFollowTheStore
<1>1. MCSpec => []DrawInv BY DrawsStart, DrawsStep, PTL DEF MCSpec
<1>2. DrawInv => DrawsFollowTheStore
  <2>1. SamplerInv => BatchesAreTrue /\ TargetsAreTrue
    BY BatchesHold, TargetsHold DEF SamplerInv
  <2> QED BY <2>1, IndexExact DEF DrawInv, DrawsFollowTheStore
<1> QED BY <1>1, <1>2, PTL

=============================================================================
