--------------------------- MODULE EpisodeSummaries ---------------------------
(* What an actor reports of its episodes, and what the learner concludes.  The
   collection thread drives training episodes and evaluations, keeps metrics of
   their steps, and spools transitions with the summaries of the episodes that
   ended; a step or a reset may fail, the window may be paused, and the actor may
   be stopped anywhere.  The learner refuses a whole rollout if one of its
   summaries does not make sense, and promotes a policy by those of an evaluation.

   A step is [reason, time, took, skipped]: why the episode ended with it ("none":
   it did not), the race time, the race time since the step before, and the
   telemetry frames that were skipped; took = 0 is a step that measured none.  A
   clock that runs backwards reaches no metrics: the reward refuses the step
   (RaceEnvironment, RefuseStep).  The other fields of a summary are sums, means
   and maxima that are made like those of took and skipped.                     *)
EXTENDS Integers, Sequences, FiniteSetsExt

CONSTANTS MaxEpisodeSteps,     \* max_episode_steps
          ChunkTransitions,    \* rollout_chunk_transitions
          EvaluationTrials,    \* trials_per_map of the evaluation suite
          RequiredFinishes,    \* min_finish_rate, of the trials
          StepLimit,           \* max_step_race_time_ms of the evaluation suite
          Reasons,             \* why the game may end an episode
          Took, SkippedFrames, \* what a step may measure
          MaxEpisodes,         \* bound: training episodes
          MaxEvaluations,      \* bound: evaluations
          MaxPolicies          \* bound: policy versions

ASSUME SummariesAssumption ==
    /\ {MaxEpisodeSteps, ChunkTransitions, EvaluationTrials, StepLimit} \subseteq Nat \ {0}
    /\ {MaxEpisodes, MaxEvaluations, MaxPolicies} \subseteq Nat
    /\ RequiredFinishes \in 0 .. EvaluationTrials
    /\ Reasons \cap {"none", "max_steps", "telemetry_error", "capture_interruption"} = {}
    /\ Took \subseteq Nat /\ SkippedFrames \subseteq Nat

VARIABLES thread,      \* what the collection thread does, and the policy version it plays
          stopped,     \* runtime.stop
          held,        \* the version of the actor's PolicyReference
          begun,       \* evaluations begun so far
          episode,     \* training episodes begun so far
          stepsDriven, \* the steps EpisodeMetrics has recorded of the current episode
          buffers,     \* CollectionBuffers
          trials,      \* the summaries of the running evaluation
          chunk,       \* the rollout spooled last, of this episode or evaluation
          sentSteps,   \* history: the spooled transitions of the training episode
          laps         \* history: the steps of each trial of the evaluation

summaryVars == <<thread, stopped, held, begun, episode, stepsDriven, buffers, trials, chunk,
                 sentSteps, laps>>

RaceStart == 1                 \* an episode begins when the race runs
Evaluation == 0                \* the trials of an evaluation have no episode id
EmptyBuffers == [transitions |-> <<>>, summaries |-> <<>>]
NoChunk == [version |-> 0, transitions |-> <<>>, episodes |-> <<>>, evaluations |-> <<>>,
            snapshot |-> FALSE]

-----------------------------------------------------------------------------
(* The trackers of EpisodeMetrics, and the summary that is made of them.       *)
Measured(steps) == {k \in DOMAIN steps : steps[k].took > 0}
Times(steps) == {steps[k].took : k \in Measured(steps)}
Longest(times) == Max(times \cup {0})
NoLonger(steps, time) == {k \in Measured(steps) : steps[k].took <= time}
Percentile99(steps) ==
    IF Measured(steps) = {} THEN 0
    ELSE Min({t \in Times(steps) : 100 * Cardinality(NoLonger(steps, t))
                                      >= 99 * Cardinality(Measured(steps))})

Skipped(steps) == [k \in DOMAIN steps |-> steps[k].skipped]
SkippedTotal(steps) == SumFunctionOnSet(Skipped(steps), DOMAIN steps)

FinalInfo(steps) ==
    IF steps = <<>> THEN [reason |-> "none", time |-> 0] ELSE steps[Len(steps)]
NaturalEnd(steps) ==
    IF FinalInfo(steps).reason = "none" THEN "max_steps" ELSE FinalInfo(steps).reason

Summary(id, steps, termination, version) ==
    LET finished == termination = "finished"
        measured == Cardinality(Measured(steps))
    IN [id |-> id, steps |-> Len(steps), version |-> version,
        termination |-> termination, finished |-> finished,
        raceTime |-> FinalInfo(steps).time,
        finishTime |-> IF finished THEN FinalInfo(steps).time ELSE 0,
        measured |-> measured, valid |-> steps # <<>> /\ measured = Len(steps),
        p99 |-> Percentile99(steps), longest |-> Longest(Times(steps)),
        skippedTotal |-> SkippedTotal(steps),
        skippedMax |-> Longest({steps[k].skipped : k \in DOMAIN steps}),
        skippedSteps |-> Cardinality({k \in DOMAIN steps : steps[k].skipped > 0})]

-----------------------------------------------------------------------------
(* What the learner demands of a rollout (coordinator_validation.py).          *)
ObservabilityMakesSense(s) ==
    /\ s.steps = 0 => /\ s.p99 = 0 /\ s.longest = 0 /\ s.measured = 0
                      /\ s.skippedTotal = 0 /\ s.skippedMax = 0 /\ s.skippedSteps = 0
    /\ s.skippedSteps <= s.steps
    /\ s.skippedMax <= s.skippedTotal
    /\ s.p99 <= s.longest
    /\ s.measured <= s.steps
    /\ s.valid => s.measured = s.steps /\ s.steps # 0

ValidEvaluation(s) ==
    /\ IF s.finished THEN s.finishTime > 0 ELSE s.finishTime = 0
    /\ ObservabilityMakesSense(s)
ValidEpisode(s) ==
    /\ s.finished <=> s.termination = "finished"
    /\ s.finished => s.finishTime = s.raceTime
    /\ s.steps >= 1
    /\ ValidEvaluation(s)

ValidSubmit(c) ==
    /\ \A k \in DOMAIN c.episodes : ValidEpisode(c.episodes[k])
    /\ \A k \in DOMAIN c.evaluations : ValidEvaluation(c.evaluations[k])
    /\ c.snapshot <=> c.evaluations # <<>>
    /\ Cardinality({c.evaluations[k].version : k \in DOMAIN c.evaluations}) <= 1

(* What it makes of an evaluation: the statistics of the batch, and whether they
   qualify the policy as the most reliable one (coordinator_leaders.py).       *)
BatchStats(batch) ==
    LET steps == [k \in DOMAIN batch |-> batch[k].steps]
        measured == [k \in DOMAIN batch |-> batch[k].measured]
    IN [finished |-> Cardinality({k \in DOMAIN batch : batch[k].finished}),
        expected |-> SumFunctionOnSet(steps, DOMAIN batch),
        measured |-> SumFunctionOnSet(measured, DOMAIN batch),
        longest |-> Longest({batch[k].longest : k \in DOMAIN batch}),
        valid |-> \A k \in DOMAIN batch :
                    /\ batch[k].steps > 0 /\ batch[k].measured = batch[k].steps
                    /\ batch[k].valid /\ batch[k].longest > 0]
Qualifies(stats) ==
    /\ stats.finished >= RequiredFinishes
    /\ stats.valid /\ stats.measured = stats.expected /\ stats.expected > 0
    /\ stats.longest \in 1 .. StepLimit

-----------------------------------------------------------------------------
SummariesInit ==
    /\ thread = [at |-> "loop", version |-> 0] /\ stopped = FALSE /\ held = 0
    /\ begun = 0 /\ episode = 0 /\ stepsDriven = <<>> /\ buffers = EmptyBuffers
    /\ trials = <<>> /\ chunk = NoChunk /\ sentSteps = <<>> /\ laps = <<>>

\* Faulty variant: what is left is spooled although the actor stops.
SpoolRolloutAlways(transitions, episodes, evaluations, version) ==
    IF transitions = <<>> /\ episodes = <<>> /\ evaluations = <<>>
      THEN UNCHANGED <<chunk, sentSteps>>
      ELSE /\ chunk' = [version |-> version, transitions |-> transitions,
                        episodes |-> episodes, evaluations |-> evaluations,
                        snapshot |-> evaluations # <<>>]
           /\ sentSteps' = sentSteps \o transitions

(* _spool: nothing is spooled of nothing, or once the actor stops.             *)
SpoolRollout(transitions, episodes, evaluations, version) ==
    IF stopped \/ (transitions = <<>> /\ episodes = <<>> /\ evaluations = <<>>)
      THEN UNCHANGED <<chunk, sentSteps>>
      ELSE /\ chunk' = [version |->
                            Min(IF transitions = <<>> THEN {version}
                                ELSE {transitions[k].version : k \in DOMAIN transitions}),
                        transitions |-> transitions, episodes |-> episodes,
                        evaluations |-> evaluations, snapshot |-> evaluations # <<>>]
           /\ sentSteps' = sentSteps \o transitions

FlushBuffers(transitions, summaries, version) ==
    /\ SpoolRollout(transitions, summaries, <<>>, version)
    /\ buffers' = EmptyBuffers

StepsAfter(steps) ==
    LET now == IF steps = <<>> THEN RaceStart ELSE FinalInfo(steps).time
    IN {[reason |-> why, time |-> now + took, took |-> took, skipped |-> frames] :
            why \in Reasons \cup {"none"}, took \in Took, frames \in SkippedFrames}

-----------------------------------------------------------------------------
(* Training episodes.                                                          *)
StartTraining ==
    /\ thread.at \in {"loop", "start"} /\ ~stopped /\ episode < MaxEpisodes
    /\ thread' = [at |-> "training", version |-> held]
    /\ episode' = episode + 1 /\ stepsDriven' = <<>>
    /\ chunk' = NoChunk /\ sentSteps' = <<>> /\ trials' = <<>> /\ laps' = <<>>
    /\ UNCHANGED <<stopped, held, begun, buffers>>

(* The environment cannot be reset any more, or the actor is stopped.          *)
StartFails ==
    /\ thread.at \in {"loop", "start"}
    /\ thread' = [thread EXCEPT !.at = "ended"] /\ stopped' = TRUE
    /\ UNCHANGED <<held, begun, episode, stepsDriven, buffers, trials, chunk, sentSteps, laps>>

TrainingStep(step, late) ==
    LET terminated == step.reason # "none"
        truncated == ~terminated /\ Len(stepsDriven) + 1 = MaxEpisodeSteps
        recorded == Append(buffers.transitions,
            [index |-> Len(stepsDriven), version |-> thread.version, interrupted |-> FALSE,
             terminated |-> terminated, truncated |-> truncated])
    IN /\ thread.at = "training"
       /\ stepsDriven' = Append(stepsDriven, step)
       /\ IF Len(recorded) >= ChunkTransitions \/ late
            THEN FlushBuffers(recorded, buffers.summaries, thread.version)
            ELSE /\ buffers' = [buffers EXCEPT !.transitions = recorded]
                 /\ UNCHANGED <<chunk, sentSteps>>
       /\ thread' = [thread EXCEPT
            !.at = IF terminated \/ truncated \/ stopped THEN "finish" ELSE "training"]
       /\ UNCHANGED <<stopped, held, begun, episode, trials, laps>>

(* A step failed, or the window was paused: what is buffered becomes a truncation. *)
TrainingInterrupted ==
    LET open == buffers.transitions
        cut == IF open = <<>> THEN open
               ELSE [open EXCEPT ![Len(open)].terminated = FALSE,
                                 ![Len(open)].truncated = TRUE,
                                 ![Len(open)].interrupted = TRUE]
    IN /\ thread.at = "training"
       /\ FlushBuffers(cut, buffers.summaries, held)
       /\ thread' = [thread EXCEPT !.at = "loop"]
       /\ UNCHANGED <<stopped, held, begun, episode, stepsDriven, trials, laps>>

FinishTraining ==
    /\ thread.at = "finish"
    /\ LET summary == Summary(episode, stepsDriven, NaturalEnd(stepsDriven), thread.version)
       IN FlushBuffers(buffers.transitions, Append(buffers.summaries, summary), held)
    /\ thread' = [thread EXCEPT !.at = "loop"]
    /\ UNCHANGED <<stopped, held, begun, episode, stepsDriven, trials, laps>>

-----------------------------------------------------------------------------
(* Evaluations.  A trial that cannot begin, or loses telemetry, fails the trials
   that are left with it; a paused window ends only the trial.                 *)
Failed(steps) == Summary(Evaluation, steps, "telemetry_error", thread.version)
Failures(count) == [k \in 1 .. count |-> Failed(<<>>)]
NoLaps(count) == [k \in 1 .. count |-> <<>>]

Report(summary, failing) ==
    LET rest == IF failing THEN EvaluationTrials - Len(trials) - 1 ELSE 0
    IN /\ trials' = Append(trials, summary) \o Failures(rest)
       /\ laps' = Append(laps, stepsDriven) \o NoLaps(rest)
       /\ thread' = [thread EXCEPT !.at =
            IF Len(trials') = EvaluationTrials THEN "report" ELSE "trial"]

(* The request is taken, or the policy that is held, and the policy warmed up on
   an observation of its own.                                                  *)
BeginEvaluation(version, prewarmed) ==
    /\ thread.at = "loop" /\ ~stopped /\ begun < MaxEvaluations
    /\ begun' = begun + 1
    /\ thread' = [at |-> IF prewarmed THEN "trial" ELSE "report", version |-> version]
    /\ trials' = [k \in 1 .. IF prewarmed THEN 0 ELSE EvaluationTrials |->
                    Summary(Evaluation, <<>>, "telemetry_error", version)]
    /\ laps' = IF prewarmed THEN <<>> ELSE NoLaps(EvaluationTrials)
    /\ stepsDriven' = <<>> /\ chunk' = NoChunk /\ sentSteps' = <<>>
    /\ UNCHANGED <<stopped, held, episode, buffers>>

StartTrial ==
    /\ thread.at = "trial" /\ ~stopped
    /\ thread' = [thread EXCEPT !.at = "evaluating"] /\ stepsDriven' = <<>>
    /\ UNCHANGED <<stopped, held, begun, episode, buffers, trials, chunk, sentSteps, laps>>

(* One attempt, which a stop ends too.                                         *)
TrialCannotStart ==
    /\ thread.at = "trial"
    /\ trials' = trials \o Failures(EvaluationTrials - Len(trials))
    /\ laps' = laps \o NoLaps(EvaluationTrials - Len(laps))
    /\ thread' = [thread EXCEPT !.at = "report"]
    /\ UNCHANGED <<stopped, held, begun, episode, stepsDriven, buffers, chunk, sentSteps>>

EvaluationStep(step) ==
    /\ thread.at = "evaluating"
    /\ stepsDriven' = Append(stepsDriven, step)
    /\ thread' = [thread EXCEPT !.at =
         IF step.reason # "none" \/ stopped \/ Len(stepsDriven') = MaxEpisodeSteps
           THEN "trialEnds" ELSE "evaluating"]
    /\ UNCHANGED <<stopped, held, begun, episode, buffers, trials, chunk, sentSteps, laps>>

TrialEnds ==
    /\ thread.at = "trialEnds"
    /\ Report(Summary(Evaluation, stepsDriven, NaturalEnd(stepsDriven), thread.version), FALSE)
    /\ UNCHANGED <<stopped, held, begun, episode, stepsDriven, buffers, chunk, sentSteps>>

TrialPaused ==
    /\ thread.at = "evaluating"
    /\ Report(Summary(Evaluation, stepsDriven, "capture_interruption", thread.version), FALSE)
    /\ UNCHANGED <<stopped, held, begun, episode, stepsDriven, buffers, chunk, sentSteps>>

TrialLosesTelemetry ==
    /\ thread.at = "evaluating"
    /\ Report(Failed(stepsDriven), TRUE)
    /\ UNCHANGED <<stopped, held, begun, episode, stepsDriven, buffers, chunk, sentSteps>>

SpoolEvaluation ==
    /\ thread.at = "report"
    /\ SpoolRollout(<<>>, <<>>, trials, thread.version)
    /\ thread' = [thread EXCEPT !.at = "start"]
    /\ UNCHANGED <<stopped, held, begun, episode, stepsDriven, buffers, trials, laps>>

-----------------------------------------------------------------------------
(* The other threads.                                                          *)
RefreshPolicy ==
    /\ thread.at # "ended" /\ held < MaxPolicies /\ held' = held + 1
    /\ UNCHANGED <<thread, stopped, begun, episode, stepsDriven, buffers, trials, chunk,
                   sentSteps, laps>>

StopActor ==
    /\ thread.at # "ended" /\ ~stopped /\ stopped' = TRUE
    /\ UNCHANGED <<thread, held, begun, episode, stepsDriven, buffers, trials, chunk,
                   sentSteps, laps>>

SummariesNext ==
    \/ StartTraining \/ StartFails \/ TrainingInterrupted \/ FinishTraining
    \/ \E step \in StepsAfter(stepsDriven), late \in BOOLEAN : TrainingStep(step, late)
    \/ \E version \in 0 .. held, prewarmed \in BOOLEAN : BeginEvaluation(version, prewarmed)
    \/ StartTrial \/ TrialCannotStart \/ TrialEnds \/ TrialPaused \/ TrialLosesTelemetry
    \/ \E step \in StepsAfter(stepsDriven) : EvaluationStep(step)
    \/ SpoolEvaluation \/ RefreshPolicy \/ StopActor

SummariesSpec == SummariesInit /\ [][SummariesNext]_summaryVars

-----------------------------------------------------------------------------
\* What a step answers, a transition that is made of it, and a summary.
GameStep == [reason : Reasons \cup {"none"}, time : Nat \ {0}, took : Took, skipped : SkippedFrames]
Driven == [index : Nat, version : 0 .. MaxPolicies, interrupted : BOOLEAN,
           terminated : BOOLEAN, truncated : BOOLEAN]
Endings == Reasons \cup {"max_steps", "telemetry_error", "capture_interruption"}
EpisodeSummary ==
    [id : Nat, steps : Nat, version : 0 .. MaxPolicies, termination : Endings, finished : BOOLEAN,
     raceTime : Nat, finishTime : Nat, measured : Nat, valid : BOOLEAN, p99 : Nat, longest : Nat,
     skippedTotal : Nat, skippedMax : Nat, skippedSteps : Nat]

SummariesTypeOK ==
    /\ thread \in [at : {"loop", "start", "training", "finish", "trial", "evaluating",
                         "trialEnds", "report", "ended"}, version : 0 .. held]
    /\ stopped \in BOOLEAN /\ held \in 0 .. MaxPolicies
    /\ begun \in 0 .. MaxEvaluations /\ episode \in 0 .. MaxEpisodes
    /\ stepsDriven \in Seq(GameStep) /\ Len(stepsDriven) <= MaxEpisodeSteps
    /\ buffers \in [transitions : Seq(Driven), summaries : {<<>>}]
    /\ Len(buffers.transitions) < ChunkTransitions
    /\ trials \in Seq(EpisodeSummary) /\ laps \in Seq(Seq(GameStep))
    /\ Len(trials) <= EvaluationTrials /\ Len(laps) = Len(trials)
    /\ chunk \in [version : 0 .. MaxPolicies, transitions : Seq(Driven),
                  episodes : Seq(EpisodeSummary), evaluations : Seq(EpisodeSummary),
                  snapshot : BOOLEAN]
    /\ sentSteps \in Seq(Driven)

(* The learner accepts every rollout an actor spools, however its episodes and
   evaluations went (coordinator_submission.py:70, coordinator_validation.py). *)
RolloutsAreAccepted == ValidSubmit(chunk)

(* The summary of a training episode comes when all of its steps have, and says how
   the last of them ended; an episode that was cut short has none, and what was
   still open of it ends as a truncation (actor_collection.py).                *)
SummariesFollowTheirSteps ==
    /\ \A k \in DOMAIN chunk.episodes :
         LET summary == chunk.episodes[k]
             final == sentSteps[Len(sentSteps)]
         IN summary.id = episode =>
            /\ summary.steps = Len(sentSteps)
            /\ final.terminated <=> summary.termination # "max_steps"
            /\ final.truncated <=> summary.termination = "max_steps"
            /\ summary.termination = "max_steps" => summary.steps = MaxEpisodeSteps
            /\ ~final.interrupted
    /\ \A k \in DOMAIN sentSteps :
         /\ sentSteps[k].index = k - 1
         /\ sentSteps[k].terminated \/ sentSteps[k].truncated => k = Len(sentSteps)

(* An evaluation that arrives has a summary of every trial, none of them cut short by
   the actor's end, and qualifies its policy only if enough trials were driven to the
   finish and every step of every trial was measured and within the limit
   (actor_evaluation.py, coordinator_evaluation.py, coordinator_leaders.py).     *)
EvaluationsAreWhole ==
    LET batch == chunk.evaluations IN
    batch # <<>> =>
        /\ Len(batch) = EvaluationTrials
        /\ \A k \in DOMAIN batch :
             /\ batch[k].termination = "max_steps" => batch[k].steps = MaxEpisodeSteps
             /\ batch[k].termination = "telemetry_error" =>
                    \A j \in k + 1 .. EvaluationTrials : batch[j].steps = 0
        /\ Qualifies(BatchStats(batch)) =>
             /\ Cardinality({k \in DOMAIN laps : FinalInfo(laps[k]).reason = "finished"})
                    >= RequiredFinishes
             /\ \A k \in DOMAIN laps : laps[k] # <<>> /\
                    \A j \in DOMAIN laps[k] : laps[k][j].took \in 1 .. StepLimit

SummariesAreTrue == RolloutsAreAccepted /\ SummariesFollowTheirSteps /\ EvaluationsAreWhole

=============================================================================
