------------------------------- MODULE MCActor -------------------------------
(***************************************************************************)
(* What stands between a policy and the game: the control signals between  *)
(* the actor and the learner, the telemetry the actor reads, the keys it   *)
(* holds down, and the two recorders that turn a human's driving into      *)
(* demonstrations.  They share no state, so a behavior is one of any of    *)
(* them, chosen at the start; the others stay where they began.  The       *)
(* control signals are checked twice: "control" has no failure and several *)
(* rollouts, "failing" has failures and stops and one rollout.             *)
(***************************************************************************)
EXTENDS ActorControl, TelemetryClient, KeyboardControl, DemonstrationRecorder,
        RecoveryRecorder

VARIABLE part                 \* the part whose behavior this is

driveVars == <<keyboardVars, recorderVars, recoveryVars>>
actorVars == <<controlVars, telemetryVars, driveVars, part>>

\* What actions ask for: nothing, to drive, to brake, to turn.
MCTargets == {{}, {Gas}, {Brake}, {Left, Gas}}

\* Nobody stops and no call fails.
Steady == lost' = 0 /\ ~stop' /\ ~stopping'

\* A call fails, or the learner stops, not both; the actor may stop too.  One training rollout.
Failing ==
    /\ lost' # 0 => ~stopping'
    /\ collector.step = "episode" => sequence' \in {sequence, 1}

Scenario == (part = "control" /\ Steady) \/ (part = "failing" /\ Failing)

MCInit ==
    /\ part \in {"control", "failing", "telemetry", "keyboard", "recorder", "recovery"}
    /\ ControlInit /\ TelemetryInit /\ KeyboardInit /\ RecoveryInit
    /\ RecorderInit /\ (part # "recorder" => game.clock = 1)

MCNext ==
    \/ /\ part \in {"control", "failing"} /\ ControlNext /\ Scenario
       /\ UNCHANGED <<telemetryVars, driveVars, part>>
    \/ /\ part = "telemetry" /\ TelemetryNext
       /\ UNCHANGED <<controlVars, driveVars, part>>
    \/ /\ part = "keyboard" /\ KeyboardNext
       /\ UNCHANGED <<controlVars, telemetryVars, recorderVars, recoveryVars, part>>
    \/ /\ part = "recorder" /\ RecorderNext
       /\ UNCHANGED <<controlVars, telemetryVars, keyboardVars, recoveryVars, part>>
    \/ /\ part = "recovery" /\ RecoveryNext
       /\ UNCHANGED <<controlVars, telemetryVars, keyboardVars, recorderVars, part>>

\* The fairness of the parts.  A telemetry client nobody reads with asks for nothing; the
\* actor would, so its fairness is restated for the part that runs.
MCFairSpec ==
    /\ MCInit /\ [][MCNext]_actorVars
    /\ TelemetryFairness
    /\ WF_controlVars(
           /\ \/ ClearEvaluate \/ TakeRequest \/ NoEvaluation \/ StartEpisode
              \/ FinishEpisode \/ InterruptEpisode \/ FinishEvaluation \/ LeaveCollection
           /\ Scenario)
    /\ WF_controlVars(Poll /\ Scenario)
    /\ \A s \in Sender : WF_controlVars(Deliver(s) /\ Scenario)
    /\ WF_controlVars(IngestEpisode /\ Scenario)

\* Every part keeps its types.
ActorTypeOK ==
    /\ ControlTypeOK /\ TelemetryTypeOK /\ KeyboardTypeOK
    /\ RecorderTypeOK /\ RecoveryTypeOK

\* Laps that are recorded are whole: those a human drives, and those he saves from a false
\* input (demonstration_recording.py, human_recovery_recording.py).
RecordingsAreWhole == RecordedLapsAreWhole /\ RecoveriesAreWhole /\ PerturbationIsLetGo

=============================================================================
