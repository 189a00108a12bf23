---------------------------- MODULE SuiteEvaluation ----------------------------
(* TrackmaniaEvaluator under the benchmark command: a checkpoint drives every
   trial of a suite once, and evaluation.json says what happened.  A stop file
   may appear at any time, the window may be lost, telemetry may fail, and the
   training run may overwrite the checkpoint.  A trial is <<map, index>>.     *)
EXTENDS Integers, Sequences

CONSTANTS Maps, Trials,     \* the suite: maps 1 .. Maps, trials_per_map
          MaxSteps,         \* max_episode_steps
          MaxVersions,      \* bound: contents the checkpoint file takes
          MaxPauses         \* bound: resets the lost window delays

ASSUME SuiteAssumption ==
    /\ {Maps, Trials, MaxSteps} \subseteq Nat \ {0}
    /\ MaxVersions \in Nat /\ MaxPauses \in Nat

VARIABLES
    checkpointFile, \* external: the content of the checkpoint file
    stopFile,       \* external: the stop file exists
    pauses,         \* resets delayed so far
    bound,          \* checkpoint_sha256
    policy,         \* the content the policy was loaded from
    doing,          \* where the evaluation is
    request,          \* the trial under way
    steps, finished, termination, \* _EpisodeState
    results,        \* results
    artifact,       \* evaluation.json: [status, trials, checkpoint]
    attempted          \* history: trials the policy has driven a step of, in order

suiteVars == <<checkpointFile, stopFile, pauses, bound, policy, doing, request, steps, finished,
               termination, results, artifact, attempted>>
episodeState == <<steps, finished, termination>>
external == <<checkpointFile, stopFile>>
loaded == <<bound, policy>>
reported == <<results, artifact, attempted>>

Suite == [n \in 1 .. Maps * Trials |-> <<(n - 1) \div Trials + 1, (n - 1) % Trials>>]
Absent == [status |-> "none", trials |-> <<>>, checkpoint |-> 0]

SuiteInit ==
    /\ checkpointFile = 0 /\ stopFile = FALSE /\ pauses = 0 /\ bound = 0 /\ policy = 0
    /\ doing = "bind" /\ request = <<1, 0>> /\ steps = 0 /\ finished = FALSE
    /\ termination = "unknown" /\ results = <<>> /\ artifact = Absent /\ attempted = <<>>

-----------------------------------------------------------------------------
(* External: the training run and the operator.                              *)
OverwriteCheckpoint ==
    /\ checkpointFile < MaxVersions /\ checkpointFile' = checkpointFile + 1
    /\ UNCHANGED <<stopFile, pauses, loaded, doing, request, episodeState, reported>>
CreateStopFile ==
    /\ ~stopFile /\ stopFile' = TRUE
    /\ UNCHANGED <<checkpointFile, pauses, loaded, doing, request, episodeState, reported>>

-----------------------------------------------------------------------------
(* _load_checkpoint: the digest first, then the policy.                      *)
SetCheckpoint ==
    /\ doing = "bind" /\ doing' = "load" /\ bound' = checkpointFile
    /\ UNCHANGED <<external, pauses, policy, request, episodeState, reported>>
LoadPolicy ==
    /\ doing = "load" /\ doing' = "next" /\ policy' = checkpointFile
    /\ UNCHANGED <<external, pauses, bound, request, episodeState, reported>>

(* A checkpoint that has changed since is refused, not written.              *)
WriteArtifact(status) ==
    IF checkpointFile # bound THEN doing' = "raised" /\ UNCHANGED artifact
    ELSE /\ doing' = status
         /\ artifact' = [status |-> status, trials |-> results, checkpoint |-> bound]

(* EvaluationCancelledError outside an episode, or before its first step.     *)
Cancel ==
    /\ stopFile /\ doing \in {"next", "prewarm", "reset", "driving", "last"}
    /\ doing = "driving" => steps = 0
    /\ WriteArtifact("cancelled")
    /\ UNCHANGED <<external, pauses, loaded, request, episodeState, results, attempted>>

(* The next trial; the first one of a map prewarms the policy.               *)
BeginTrial ==
    /\ doing = "next" /\ ~stopFile
    /\ doing' = IF request[2] = 0 THEN "prewarm" ELSE "reset"
    /\ steps' = 0 /\ finished' = FALSE /\ termination' = "unknown"
    /\ UNCHANGED <<external, pauses, loaded, request, reported>>

(* _reset_available: a lost window is waited for, and the stop file looked at
   again.                                                                     *)
ResetDelayed ==
    /\ doing \in {"prewarm", "reset"} /\ ~stopFile /\ pauses < MaxPauses /\ pauses' = pauses + 1
    /\ UNCHANGED <<external, loaded, doing, request, episodeState, reported>>
ResetSucceeds ==
    /\ doing \in {"prewarm", "reset"} /\ ~stopFile
    /\ doing' = IF doing = "prewarm" THEN "reset" ELSE "driving"
    /\ UNCHANGED <<external, pauses, loaded, request, episodeState, reported>>

(* How a trial goes into the results.                                        *)
Successor ==
    IF request[2] + 1 < Trials THEN <<request[1], request[2] + 1>> ELSE <<request[1] + 1, 0>>
RecordTrial(why, done) ==
    /\ results' = Append(results, [trial |-> request, why |-> why, finished |-> done])
    /\ IF request = <<Maps, Trials - 1>> THEN doing' = "last" /\ UNCHANGED request
       ELSE doing' = "next" /\ request' = Successor
    /\ UNCHANGED <<external, pauses, loaded, artifact>>

(* One round of _run_episode: the policy acts and the environment answers.   *)
Outcomes == {"running", "finished", "off_track"}
Drive ==
    /\ doing = "driving" /\ ~stopFile /\ steps < MaxSteps
    /\ attempted' = IF steps = 0 THEN Append(attempted, request) ELSE attempted
    /\ steps' = steps + 1
    /\ \E outcome \in Outcomes :
         /\ finished' = (outcome = "finished")
         /\ termination' = IF outcome = "running" THEN termination ELSE outcome
         /\ IF outcome # "running" THEN RecordTrial(outcome, finished')
            ELSE IF steps' = MaxSteps THEN RecordTrial("max_steps", FALSE)
            ELSE UNCHANGED <<external, pauses, loaded, doing, request, results, artifact>>

(* An episode that breaks off is a trial that did not finish; none is retried. *)
BreakOff(why) == RecordTrial(why, FALSE) /\ UNCHANGED <<episodeState, attempted>>
TelemetryFails == doing \in {"prewarm", "reset", "driving"} /\ BreakOff("telemetry_error")
WindowLost == doing = "driving" /\ BreakOff("capture_interruption")
StopDuringEpisode == doing = "driving" /\ stopFile /\ steps > 0 /\ BreakOff("operator_interruption")

(* Anything else ends the evaluation without an artifact.                    *)
Raise ==
    /\ doing \in {"prewarm", "reset", "driving"} /\ doing' = "raised"
    /\ UNCHANGED <<external, pauses, loaded, request, episodeState, reported>>

Complete ==
    /\ doing = "last" /\ ~stopFile /\ WriteArtifact("complete")
    /\ UNCHANGED <<external, pauses, loaded, request, episodeState, results, attempted>>

SuiteNext ==
    \/ OverwriteCheckpoint \/ CreateStopFile
    \/ SetCheckpoint \/ LoadPolicy \/ Cancel \/ BeginTrial \/ ResetDelayed \/ ResetSucceeds
    \/ Drive \/ TelemetryFails \/ WindowLost \/ StopDuringEpisode \/ Raise \/ Complete

SuiteSpec == SuiteInit /\ [][SuiteNext]_suiteVars

-----------------------------------------------------------------------------
TrialKey == (1 .. Maps) \X (0 .. Trials - 1)
TrialResult ==
    [trial : TrialKey, finished : BOOLEAN,
     why : {"finished", "off_track", "max_steps", "telemetry_error", "capture_interruption",
            "operator_interruption"}]
SuiteTypeOK ==
    /\ checkpointFile \in 0 .. MaxVersions /\ stopFile \in BOOLEAN /\ pauses \in 0 .. MaxPauses
    /\ bound \in 0 .. checkpointFile /\ policy \in 0 .. checkpointFile
    /\ doing \in {"bind", "load", "next", "prewarm", "reset", "driving", "last", "cancelled",
                  "complete", "raised"}
    /\ request \in TrialKey /\ steps \in 0 .. MaxSteps /\ finished \in BOOLEAN
    /\ results \in Seq(TrialResult) /\ attempted \in Seq(TrialKey)
    /\ artifact.status \in {"none", "cancelled", "complete"}

Tried(entries) == [i \in 1 .. Len(entries) |-> entries[i].trial]
(* What evaluation.json says is what was driven: the trials of the suite in
   order, each once; every trial the policy has taken a step of is in it,
   however it ended; a complete one covers the suite and has no trial an
   operator cut short; and the checkpoint it names is the one that drove.      *)
ArtifactsAreTrue ==
    artifact # Absent =>
        /\ Tried(artifact.trials) = SubSeq(Suite, 1, Len(artifact.trials))
        /\ \A i \in 1 .. Len(attempted) :
             \E j \in 1 .. Len(artifact.trials) : artifact.trials[j].trial = attempted[i]
        /\ \A i \in 1 .. Len(artifact.trials) :
             artifact.trials[i].why = "operator_interruption" =>
                 artifact.status = "cancelled" /\ i = Len(artifact.trials)
        /\ artifact.status = "complete" => Len(artifact.trials) = Maps * Trials
        /\ artifact.checkpoint = policy

=============================================================================
