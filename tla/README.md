# Verification of TrackmaniaRL

TLA+ modules, TLC runs and TLAPS proofs about TrackmaniaRL (`trackmaniarl/`): the
distributed trainer, the local trainer, the launcher, the replay, the environment and
the tools that record, evaluate and search laps. Paths below are relative to the
repository.

## 1. The system

TrackmaniaRL trains a policy for Trackmania. Off-policy algorithms run
distributed: *actors* drive the game and record transitions, one *learner*
trains. They talk over four RPCs (`Register`, `Policy`, `Heartbeat`, `Submit`);
everything else that connects them is on disk. On-policy and small runs use one
process, the local trainer.

| Component | State it keeps | Operations | Talks to | Modelled in |
|---|---|---|---|---|
| Rollout journal (`distributed/journal.py`) | SQLite tables `chunks`, `receipts`, `actor_profiles`, `metadata` | `append`, `rows_after`, `has_history`, `validate_checkpoint`, `prune` | RPC threads, the learner's main thread and the checkpoint writer's thread, under one lock | `RolloutJournal` |
| Submission (`coordinator_submission.py`, `coordinator_rpc.py`) | evaluation due set, 16 remembered snapshots, heartbeats | `Submit`, `Register`, `Policy`, `Heartbeat` in 8 threads | journal; answers actors | `RolloutDurability`, `ActorControl`, `ActorLiveness`, `EvaluationLeaders` |
| Ingestion (`coordinator_ingest.py`) | applied frontier, transitions, update credit; the replay store | `ingest`, `drain_rollouts`, `recover_journal` | journal, replay, evaluations | `RolloutDurability` |
| Learner loop (`coordinator_learning.py`, `coordinator_policy.py`, `coordinator_runtime.py`) | update counter, published policy, stop reasons | drain, update, checkpoint, publish, stop, close | everything on the learner | `RolloutDurability`, `ActorControl` |
| Checkpoints (`coordinator_checkpoint.py`, `coordinator_support.py`, `core/checkpoints.py`, `core/builtins.py`) | one pending write; files `family-update-policy` | snapshot, write, prune the journal, retention, restore | writer thread, journal, files | `RolloutDurability` |
| Evaluation leaders (`coordinator_leaders.py`, `coordinator_evaluation.py`) | best ranks, reserved ranks, consecutive passes | record an evaluation, reserve, roll back, stop the run | ingestion, writer | `EvaluationLeaders` |
| Actor liveness (`coordinator_metrics.py`, `actor_watchdog.py`) | heartbeat table; progress time of the collector | register, beat, time out, hard exit | RPC threads, learner loop, heartbeat thread | `ActorLiveness` |
| Actor spool and senders (`actor_spool.py`, `actor_background.py`) | spool directory, sequence number, queue, byte count | persist, recover temporaries, wait for space, submit, discard | RPC to the learner | `ActorSpool`, `RolloutDurability` |
| Actor collection (`actor_collection.py`, `actor_evaluation.py`) | policy, evaluation request, flags `evaluate`, `force_refresh`, `stop` | collect, flush, evaluate, reset with retries | spool, background threads, game | `ActorControl` |
| Episode summaries (`actor_metrics.py`, `actor_evaluation.py`, `coordinator_validation.py`) | metrics of an episode, buffered transitions and summaries, the trials of an evaluation | record a step, summarise, truncate, evaluate, validate, qualify | the game, the spool, the learner's submission and leaders | `EpisodeSummaries` |
| Replay store (`core/replay/store*.py`) | ring, ids, links, episodes, demonstrations, change log | append, evict, link, label, restore | ingestion writes, samplers read | `ReplayStore` |
| Samplers (`core/replay/prioritized*.py`, `sequence_sampler.py`, `batches.py`, `n_step.py`) | incremental index, priorities, Fenwick tree; window ends kept between draws | synchronise with the change log, draw, build n-step batches and histories, update priorities | replay store | `ReplayIndex`, `SequenceBatches`, `FenwickTree` |
| Local trainer (`core/training*.py`, `core/collector.py`) | counters, credit, replay, checkpoints | collect, schedule, update, save, evaluate, resume | one process | `LocalTrainer` |
| Supervision (`commands/training.py`, `stop_signal.py`) | children, stop byte, stop file | start, watch, signal, join, terminate, report | actor and learner processes | `TrainingSupervisor` |
| Environment (`trackmania/environment*.py`) | known race clock, finish state, step budget | reset, restart, confirm a finish, step | the game, through telemetry and key presses | `RaceEnvironment` |
| Telemetry (`trackmania/telemetry.py`) | socket, byte buffer | connect, read, drain, reconnect | the game's plugin | `TelemetryClient` |
| Reward (`trackmania/reward*.py`) | index on the trajectory, potentials, cooldown | reset, score | environment | `TrajectoryReward` |
| Suite evaluation (`trackmania/evaluation.py`) | trials done, checkpoint digest | drive, cancel, write the artifact | environment, checkpoint file, stop file | `SuiteEvaluation` |
| Trajectory search (`trackmania/trajectory_optimization.py`) | schedule, candidate, budget, journal | baseline, screen, confirm, save, resume | environment, two files | `TrajectorySearch` |
| Keyboard control (`trackmania/keyboard_control.py`) | keys held, the timer of a brake tap | apply, tap, release, reset, close | the environment, timer threads, the game | `KeyboardControl` |
| Human recovery recording (`trackmania/human_recovery_recording.py`) | frames, perturbation, takeover of one attempt | drive, inject, release, hand over, save | telemetry, a virtual controller, a human | `RecoveryRecorder` |
| Behavior cloning (`commands/behavior_training.py`, `behavior_validation.py`) | learner, selection, batch generator, two files | batch, validate, select, save, resume | the files | `BehaviorTraining` |
| Demonstration recording (`trackmania/demonstration_recording.py`) | the lap at hand, laps kept | synchronise, sample, discard, finish | telemetry, a human driver | `DemonstrationRecorder` |
| Log (`core/builtins.py`, `observability/trackers.py`) | local file; the tracker's queue, worker and failure flag | log, send, close | every thread of a run, a remote service | `RemoteTracker` |
| Recurrent value learning (`algorithms/value_based`, `models/composite.py`) | – | cut a window into burn-in and trained positions, unroll, build returns and bootstrap values | the sampler's windows | `ValueTargets` |
| Other algorithms and models, features, command line, scaffolding | – | numeric code, logging, argument parsing, file templates | – | not modelled |

**What is hard.** Calls time out after they took effect and are retried; several
senders and handler threads work on the same rollouts; the learner ingests, the
writer prunes and handlers append at the same time; any process can die between
two steps and the learner can be restarted from any file that is left; retention,
pruning and restoring must agree on what is still needed; flags of an actor are set
by one thread while another clears them; a ring evicts what an index or an episode
still points at; a timer thread lifts a key while the next action is applied; telemetry shows
an input later than it was given; a game, a driver, a launcher and a terminal act on their own.

**What makes it correct.** A rollout counts at most once; an acknowledged rollout
is never lost while the run can be resumed; replay is always a prefix of the
journal; a checkpoint is such a prefix; pruning never outruns the files;
retention keeps the newest file; a stopping learner exits; spooled rollouts are
eventually settled and accepted ones applied; no rollout is overwritten or lost in
its spool, and a key never stands for two payloads; a collector that waits for
space is released; a leader checkpoint holds the weights that were evaluated;
training stops after the right number of passes; accepted transitions were recent when
their lag was checked;
an evaluation is played at most once per schedule, and one that reached the actor is
played; the replay's links and its index follow its ring; credit and counters of the
local trainer add up over restarts; a launch ends and says what really happened; an
episode is one race; shaping cancels and progress is paid once; an artifact, a saved
schedule and a recorded lap are what was driven; the game sees the keys of the last action;
a cloned policy does not depend on when its training was killed.

`PROJECT.json` lists every component with its status and every hazard with its line.

## 2. Modules

| Group | Module | What it is |
|---|---|---|
| durability | `RolloutJournal` | The journal's tables and operations; each public method holds the lock from its first statement to its commit, so each is one step. |
| | `RolloutDurability` | The composite: spools and senders, RPC threads, the learner's main thread, the writer, files, crash and restart. EXTENDS `RolloutJournal`. |
| | `RolloutLog` | The abstract specification: one log, at-most-once acceptance, application in order without gaps, complete recovery. |
| | `MCRolloutDurability`, `RolloutDurability_proofs` | Symmetry for TLC; the proofs. |
| selection | `EvaluationLeaders` | What the learner makes of evaluations. |
| | `BehaviorTraining` | Behavior cloning, its selection and its files. |
| | `MCEvaluationLeaders`, `MCSelection`, `Selection_proofs` | The outcomes of evaluations; both modules for TLC; the proofs about them. |
| actor | `ActorControl` | Policy versions, refreshes and evaluations between the learner and an actor's threads. |
| | `TelemetryClient` | Frames out of the game's byte stream. |
| | `KeyboardControl` | The keys an actor holds down and its brake taps. |
| | `DemonstrationRecorder`, `RecoveryRecorder` | Laps a human drives; laps a human saves from an injected input. |
| | `MCActor`, `Actor_proofs` | These for TLC; the proofs about all of them. |
| processes | `ActorSpool`, `ActorSpool_proofs` | The spool directory of one actor; the proofs. |
| | `ActorLiveness` | Heartbeats, timeouts and the watchdog. |
| | `LocalTrainer` | The single-process run. |
| | `TrainingSupervisor` | The launcher and its two children. |
| | `RemoteTracker` | The local log and the remote tracker behind it. |
| | `MCProcesses`, `Processes_proofs` | These for TLC; the proofs about them, one after the other and together. |
| shared | `SumTheorems` | Induction over naturals and over finite sets, and lemmas on sums over a set, for the proofs. |
| data | `RaceEnvironment`, `TrajectoryReward` | Episodes over a game that is seen through a clock; the reward of an episode. |
| | `ReplayStore`, `ReplayIndex`, `SequenceBatches`, `ValueTargets`, `FenwickTree` | The replay's ring, the sampler's index over it, the batches drawn from both, the targets a learner makes of them (each EXTENDS the one before), the tree of priorities. |
| | `EpisodeSummaries` | What an actor reports of its episodes and evaluations, and what the learner demands of it. |
| | `SuiteEvaluation`, `TrajectorySearch` | The tools that evaluate a checkpoint and search a faster schedule. |
| | `Replay_proofs` | The proofs about the replay: ring, index, batches, targets and the tree of priorities. |
| | `MCData`, `Data_proofs` | These and the spool for TLC; the proofs about the environment, the reward, the search, the summaries and the suite, and about all of them together. |

Three modules compose parts that interact: `RolloutDurability` (journal, actors,
learner, writer, files), `ActorControl` (learner, senders, policy and collection
thread), `SequenceBatches` (store and samplers). Parts that share no state are put
side by side in `MCActor`, `MCSelection`, `MCProcesses` and `MCData`: the variable `part` is
chosen in the initial state, only that part moves, and the others stay in one
initial state. The state graph is the disjoint union of the parts' graphs, so
each property is checked of its part exactly as if that part ran alone, and holds
trivially of the others. Fairness is restated with `part` where a part that does not
run would otherwise be obliged to.

`RolloutDurability` and `ActorSpool` meet at the spool directory. The first has one
step for "a rollout is spooled" and one for "its file is deleted" and takes for granted
that in between the file survives with one payload under one key; the second opens
these steps up and proves that. In turn `ActorSpool` sees of the learner only its
answers, which `RolloutDurability` explains.

Definitions marked *faulty* or *mutant* are small wrong versions of a definition,
kept to show that the properties notice such bugs; no specification uses them.

### RolloutJournal, RolloutDurability

**State.** A *chunk* is one spooled rollout with its key `(session_id, sequence)`;
a chunk outside `Evaluation` stands for one transition, one inside for an
evaluation batch. `receipt`, `stored`, `lastRow`, `prunedThrough` are the
database; `spool` and `files` the other disks; `mem` the counters and how often
each chunk's transitions stand in the replay; `writer` the pending write;
`worker` the calls being handled; `inflight` the calls being made; `learner` the
place of the learner's main thread (`down`, `loop`, `ingest` between the two
halves of an ingest, `leader` while it saves leader checkpoints, `save` before a
due checkpoint, `final`, `wait`, `closing`; `saving` and `settling` are the final save and
its wait inside the handler of a Ctrl+C). `published` holds every policy version an actor
may still have.

| Actions | Code |
|---|---|
| `Collect`, `Send`, `LoseCall` | spool a rollout; a sender calls; the call times out, breaks or its actor dies |
| `Receive`, `Persist`, `PersistFails`, `Respond` | the `Submit` handler: lag check under the lock, commit, answer, discard of the file |
| `BeginIngest`, `FinishIngest` | `ingest` before and after the frontier moves |
| `SaveLeader`, `Update`, `SaveDue`, `SaveFinalCheckpoint` | the three reasons for a checkpoint; one learner update |
| `CompleteLearning`, `StopRequested`, `Interrupt`, `InterruptAgain`, `WaitForWriter`, `RaiseWriteFailure`, `Close`, `Crash` | every way the learner ends |
| `StartFresh`, `Resume`, `ResumeLearnerOnly` | every way it starts |
| `WriteFile`, `PruneJournal`, `UnlinkOldest`, `FinishWrite`, `WriteFails` | the writer's thread |

**Abstractions.** The wake-up queue only carries enqueue times for metrics: rows
are found by polling the journal, so the queue has no effect to model. The payload
digest is left out: a chunk's payload never changes (theorem `KeysUnique` of
`ActorSpool`). The learner drains up to 64 rows before an update;
the model allows ingests and updates in any order. An update also needs an active
actor and a full batch; the model lets it happen or not. Publishing is allowed, not
forced, after each update. Disk corruption is out of scope; SQLite commits and
`os.replace` are atomic. Ctrl+C may come wherever the main thread is from the first
iteration of the loop to the end of the final wait (`Interrupt`), and again in the
handler (`InterruptAgain`).

### ActorSpool

**State.** A *chunk* is what one flush of the collector hands over; a payload is a
chunk with its key (session, sequence). `rollouts` and `temps` are the directory,
functions from the numbers in the file names; they alone survive a process.
`collector` is the place of the process's main thread: `recover` while it looks
through temporaries, `register`, `collect`, `wait` for space, `write`, `flushed`
and `replaced` inside `_persist_spool_payload`, `joining` in the `finally` of
`run_forever`. `sequence`, `bytes`, `queue`, `stop` are the runtime's attributes,
`sender` what each thread is doing. `collected`, `persisted`, `delivered`, `settled`
are history: they only serve to state properties.

| Actions | Code |
|---|---|
| `Start`, `RecoverTemporary`, `FinishRecovery`, `Begin` | `recover_spool_temporaries`, byte count and first number, queueing what is there |
| `Spool`, `SpoolOversized`, `OpenTemporary`, `DropOnStop` | `spool` up to the end of the wait for space |
| `WriteTemporary`, `ReplaceTemporary`, `Enqueue`, `PersistFails`, `PersistTimesOut` | `_persist_spool_payload`, `_persist_rollout` and what their exceptions lead to |
| `Take`, `Accepted`, `Rejected`, `Lost`, `SendFails`, `Unlink`, `Uncount` | a sender thread |
| `StopRequested`, `LeaveCollection`, `Exit`, `Crash` | every way a process ends |

**Abstractions.** A session id is fresh per process: the number of the start stands
for it. Files are queued by ascending number, at the start and later, so the
queue's head is its smallest number and a set is enough. Every chunk has one size;
a temporary counts with all of it although a cut one may be shorter: a spool filled by cut
temporaries is filled with at most that. A crash loses or keeps what was not
synced: a temporary that is being written, a rename. A deletion is not synced
either; a file that reappears is sent and answered again, like a repeated call,
and is left out. One process uses a spool directory at a time, and all of them have the
same limit. The learner's answers are arbitrary here.

### EvaluationLeaders

`RolloutDurability` lets an evaluation earn leader checkpoints or not; this module says
which, what is in them and what happens when they fail.

**State.** `journal` is the sequence of evaluation batches, `files` the checkpoints,
`pruned` how many batches left the journal. `updates`, `frontier`, `weights`, `policy`
are the learner's counters and networks, `remembered` the ordered dict
`_evaluation_policy_states`, `ranks` the two leader ranks, `passes` and `stopped`
the early stop, `writer` the pending write with the rank to go back to. `learner` is
where the main thread is: `loop`, `record` (a batch is ingested, the writer is waited
for), `leaders` (its policy is looked up, files are being queued), `passes`, `final` and
`wait` for the final checkpoint, `interrupted` and `close` for the one after Ctrl+C.
`published` is what actors may have evaluated, `base` where this process began to
record. `batch` in a leader file, the `start` of weights, `split` (Ctrl+C fell
between the reservation of a rank and the `try` that takes it back) and `behind` (a
process was resumed from a file that knows of worse leaders than are on disk) are history.

| Actions | Code |
|---|---|
| `AssignEvaluation`, `ReceiveBatch` | the `Submit` handler: hand out and remember the published policy; journal a batch |
| `Update`, `Publish` | the learner's updates and publications |
| `Ingest`, `Promote`, `SaveLeader`, `LeadersSaved`, `RecordPasses` | `ingest` of a batch, `record_evaluation_leaders` up to the lookup, one file per family, `record_evaluation_stop` |
| `SaveRegular`, `SaveFinal`, `WriteFile`, `FinishWrite`, `WriteFails` | regular and final checkpoints; the writer's thread, with prune and rollback |
| `StopLearning`, `Exit`, `RaiseWriteFailure`, `RaiseSnapshotMissing`, `Interrupt`, `InterruptSaveLeader`, `Crash` | every way a process ends |
| `StartFresh`, `Resume` | every way one starts |

**Abstractions.** Ranks are triples of statistics in the code; only their order
matters, so a rank is a number and 0 means that the batch does not qualify. An
evaluation may be assigned at any time (`ActorControl` says when), and a batch may
carry any snapshot that was ever published: an actor
whose request was already taken evaluates its current policy. Journal and frontier
count evaluation batches only. Retention is in `RolloutDurability`, and off here.
Offline pretraining is left out. `StopLearning` stands for every reason to stop.

### ActorControl

**State.** Of the learner: `updates`, `published` (the version of the published
policy), `due` (the actor is in `_evaluation_due`), `episodes`, `inbox`, `received`,
`stopping`. Of the actor: `held` (its `PolicyReference`), the flags `stop`, `refresh`
(`force_refresh`) and `evaluate`, the request slot `request`, and the places of the
threads `poll` and `collector`. `calls` holds the `Submit` calls, at most one of each sender and
one of each handler whose sender gave up: where the handler or the sender is, the rollout and
the answer as far as it is made. `publishing` is set between an update and the decision to
publish it. `scheduled`, `evaluated` and `worstLag` are
history; so is the field `played` of a rollout, the policy its transitions really come from.

| Actions | Code |
|---|---|
| `Update`, `Publish`, `IngestEpisode`, `LearnerStops` | learner loop: an update, and afterwards its publication or not; episode ingestion with the evaluation schedule, `should_stop` |
| `Admit` or `Reject`, `Journal`, `AssignEvaluation` | the handler of a `Submit`: the lag check under the lock, the append to the journal, the evaluation under the lock again; between them the learner goes on |
| `LoseCall` | a call fails at any point of this; a handler that was reached runs on for nobody |
| `TakeRollout`, `HandleSignals`, `SettleRollout`, `SubmitAgain` | a sender thread: the oldest file, the signals of the answer in the order in which they are raised, the retry after a failed call |
| `TimerExpires`, `AskPolicy`, `ReplacePolicy`, `ClearRefresh` | the policy thread |
| `ClearEvaluate`, `TakeRequest`, `NoEvaluation`, `StartEpisode`, `ResetExhausted`, `FlushRollout`, `FinishEpisode`, `InterruptEpisode`, `FinishEvaluation`, `LeaveCollection` | the collection thread |
| `ExternalStop` | the launcher's stop |

**Abstractions.** One actor, one learner process. A rollout is its number, the
version it reports and whether it has transitions and a summary. A publication
follows an update or not, and happens at no other time. `worstLag` is measured where the code
measures it, at the lag check; the lock is free from there to the append, so the updates made
meanwhile come on top of `hard_policy_lag_updates`, and how many fit in is up to the speed of the
disk. Spool space and disk are in `ActorSpool`. A lost answer also loses the evaluation it carried: that is the design
(`EvaluationsWithinSchedules` is an inequality), and the next round schedules one again.

### ActorLiveness

`silence` is the heartbeat table with the age of each entry, `overdue` what a timeout
check found in its copy of the table; `process`, `work`, `idle`, `stopped`, `beating`
and `grace` are an actor's process, its collection thread, the watchdog's clock, its
stop flag, its heartbeat thread and the timer of the hard exit. `BeginTimeoutCheck` and
`RecordTimeout` are the two halves of `record_actor_timeouts`, between which a
heartbeat may arrive; `Register`, `Heartbeat`, `FailedHeartbeat` the RPCs; `Touch`,
`WaitForWindow`, `WaitForSpool`, `Block`, `LeaveLoop` what the collection thread does;
`StopActor`, `ActorProcessEnds`, `HardExit`, `ActorCrash` the ways an actor ends. Time passes
in `Tick`s of the longest heartbeat interval; a tick waits for the heartbeats that
are due in it. Waiting for spool space leaves the watchdog untouched, as in the code.

### ReplayStore, ReplayIndex, SequenceBatches, ValueTargets, FenwickTree

`ReplayStore` has the ring (`stored`, by ids that are never reused), `displaced` (the
demonstration that fell out and is appended again before the lock is released),
`episodeSteps`, `terminalStep`, `episodePace`, and the change log. `AppendTransition`
evicts, stores, links and logs; `Reappend` puts the displaced demonstration back;
`LabelEpisode` sets the pace of a lap; `Reload` restores a checkpoint.
`ReplayIndex` adds `slots`, the sampler's entry per ring slot: `Synchronize` brings it up
to date from the log or rebuilds it, `UpdatePriority` is the learner's feedback, `Restore`
a restart of both. `SequenceBatches` says what a learner is given: `Materialized` an n-step
transition, `Window` and `TargetHistory` the steps before it and before the state it
bootstraps from, with their padding masks; `windowCache` is what `SequenceSampler` keeps between draws.
`Reference` and `ActorHistory` say the same of the laps as they were driven, without ring and
links. `ValueTargets` follows a window into the value learner: `Encoded` is the recurrent
state over the frames, with the burn-in and the padding left out (a feature is the sequence of
frames its state has seen), `TrainingPositions` the steps that are trained, `TrainedReturn`,
`TrainedDiscount` and `NextFeatures` their targets. `TargetsAreTrue` compares them with the
laps for every burn-in. `FenwickTree` is the sum tree by itself: `SetLeaf`, `Find`.

**Abstractions.** A transition is an episode and a step; its observation is that
pair. Anonymous transitions (without an episode id) are not modelled. A lap time is
either of two classes, fast (an elite lap) or slow, or unknown (infinite); a label replaces what was
projected for the steps of its episode and for those appended later, in either direction. Rewards are small integers and the discount is 2. Stale steps that the code pops lazily are removed at once. The
restored store has the capacity of the saved one. That an append is refused while
demonstrations fill half of the ring is a guard. The tree's weights are small
integers: the drift of floating-point sums is outside.

### EpisodeSummaries

`thread` is the collection thread, in a training episode or in a trial of an evaluation; a step or
a reset may fail at any point, the window may be paused, the actor may be stopped. `chunk` is the
rollout that was spooled last; `ValidSubmit` is what the learner demands of it and `Qualifies` what
makes its evaluation a reliable one. A step is the reason it ended the episode with, the race time,
the time since the step before and the skipped frames; the other fields of a summary are sums and
maxima made in the same way. `laps` and `sentSteps` are history: what was really driven and sent.
A race clock that runs backwards in an episode reaches
neither metrics nor summaries: the reward refuses the step before they see it (`time_reward`;
`RefuseStep` of `RaceEnvironment`). A step without an interval of its own has taken 0.
The step limit of the suite is always set; the stop time and the target mean are left out.

### LocalTrainer

`phase` is where the main loop is, `counters` the `TrainingCounters`, `rows` and `indexed`
the replay, `episode` the collector's place, `saved` the files. `CollectTransition`,
`RecordCollection`, `ScheduleUpdates`, `PerformUpdate`, `SavePeriodic`, `FinishCycle`,
`SaveFinal` are the cycle; `DuplicateStep` is the store's refusal of a step it
has; `InterruptTrainer`, `TrainerCrash` and `ResumeRun` are Ctrl+C, a kill and a
resume from any file. `onPolicy` chooses between episodes and fixed rollouts. Credit
is counted in units so that it stays integral. `cut` remembers in which phases
Ctrl+C came, because three of them are exceptions (see "Limits"); a last checkpoint
after Ctrl+C is taken to be switched on. A resume goes straight to collecting, so credit that a
file holds unspent, because it was written between two updates of a cycle, waits for the next
one: `CreditFollowsTransitions` names that case.

### TrainingSupervisor

`launcher` is where `train` is (`start`, `watch`, `drain`, `signal`, the joins, the
report), `learnerProcess` and `actorProcess` the children's states and then exit codes,
`signal` the shared byte, `stopFile` the file; `byUser`, `forced`, `verdict` are the
launcher's own. What the learner does is reduced to what its exit code and the final
checkpoint depend on: `ingested`, `credit`, `passed`, `finalSaved`. `SigintReachesTheChildren`
is the terminal's Ctrl+C, which ends children that have not yet installed `SIG_IGN`;
`InterruptWatching`, `InterruptStarting`, `InterruptJoining`, `InterruptShutdown` are the
`KeyboardInterrupt` in the launcher. `ChildBreaks` is any other end of a child.

### RaceEnvironment, TelemetryClient, TrajectoryReward

`RaceEnvironment` has the game as an environment of its own (`race`, `clock`, `menu`,
advanced by `GameFrame`, restarted by `OperatorRestarts`) and the calls `reset` and `step`
as actions between its reads. The reader skips at most `MaxSkip` frames, so a countdown is
seen. One outside fault per run: an ignored press, a read without an answer, a refused
restart. Presses are held for 100 ms and the game handles them by the next read; its clock
goes on after the finish; an operator restarts a race only after it has run for longer than a
step. `TelemetryClient` cuts packets out of a stream whose pieces arrive in any grouping, and
reconnects; field checks are left out. `TrajectoryReward` is `reset` and `score` in integers
on a line: projection on nearby points, bounded advance, termination, finish, progress,
pace and collision terms, kept as numerators over powers of the discount's denominator.
`limited` is `limit_progress_by_kinematics`: without it progress
follows the projection alone, and `ProgressIsDriven` is not claimed.
Velocity, steering and time terms depend on a single step and are left out.

### RemoteTracker

`logged` is events.jsonl, `outbox` the tracker's queue, `worker` its thread, `failed` and
`enabled` its flags. A call of `log` is `LogLocally`, `Project` (under the lock) and `HandOver`
(without it), so calls of two threads interleave between them. `Send` has no fairness: the remote
may hang, and `PutToken` and `JoinWorker` give up after their timeouts. `BeginClose` waits until the
threads have ended, because the learner closes its server and its writer before its logger.
What an event looks like remotely is left out; *silent* events are those that only change a
later event's values.

### BehaviorTraining

Training is deterministic: a seeded generator draws the batches, and generator,
optimizer, schedule and random states are in the checkpoint. A learner is therefore the
sequence `trained` of batches and validations it has been through, `drawn` is how far the
generator is, and `outcomes`, fixed at the start, is what each validation finds.
`phase`, `done`, `selection`, `bestStep` are the command's own; `bestFile` and `latestFile`
are bc-best-validation.pt and bc-latest.pt of each run directory. `TrainBatch`, `Validate`,
`SaveBest`, `SaveLatest`, `FinishTraining` are the loop; `EndProcess` is a kill between any
two of them; `StartCloning` and `ResumeCloning` the two ways to begin, the second in the
file's directory or in one of its own. `inherited` (directories of the latter kind) is
history. Losses and scores are small integers; the ten percent of
`_behavior_cloning_checkpoint_improved` is integer arithmetic.

### KeyboardControl

`down` is what the game sees, `pressed` the controller's set of held keys, `timers` each
brake tap's `threading.Timer` (unused, running, fired, over) and `tapTimer` the reference
the controller keeps. Each method holds the lock, so it is one step; `Fire` is the
timer's thread waking up, after which `cancel` has no effect, and `ReleaseBrake` its
function once it has the lock. A stroke that fails (`FailPressed`) leaves the set of held
keys as it was, as the code does. `asked`, `tapped`, `loose` and `lifted` are history.

### RecoveryRecorder

A frame is what telemetry shows: a time and an input, and, known to the model only, who
gave it. Inputs show `InputLag` ticks after they were given. `DriveToTarget`,
`BeginPerturbation`, `Inject`, `EndPerturbation`, `AwaitRelease`, `HandOver`, `AwaitHuman`,
`RecordFrame`, `FinishRecovery` are the phases of `record_human_recovery_episode`;
`DiscardAttempt` is everything that ends an attempt early. `HumanActs` is external: the
human keeps his hands off until he is told, as the command asks.

### SuiteEvaluation, TrajectorySearch, DemonstrationRecorder

`SuiteEvaluation`: the trials of a suite in order, a checkpoint file that training may
overwrite at any time (`OverwriteCheckpoint`), a stop file, lost windows and telemetry, and
`artifact`, what evaluation.json says after every trial. The stop file is taken to stay.
`TrajectorySearch`: a schedule is its boundary offsets; `saved` and `journal` are the two
files, `KillSearch` may come between any two writes and `BeginSearch` resumes. The records of
one evaluation are written in one step. `DemonstrationRecorder`: `game` is the stream a
human drives, `Frame` actions consume it with gaps of at most `MaxGap` frames, fewer than a
countdown; deadlines are `TimeOut` at any time.

## 3. Runs

Deadlock is not checked: every system here really stops (a process is down, its starts
are used up, an episode or a session has ended) and nothing is left to do.

| Run | Instance | Checks |
|---|---|---|
| `durability` | 2 rollouts, 2 RPC threads, 2 starts, every update checkpointed, retention off | `TypeOK`, `DiscardsAreSettled`, `ImplementsLog` |
| `recovery` | 2 rollouts and 1 evaluation, both leader families, 1 RPC thread, warm-up 1, lag 1, checkpoints every 2 updates | `ReplayIsAppliedPrefix`, `CheckpointsCaptureTheirFrontier` |
| `retention` | keep 1 file per family, 1 rollout and 1 evaluation, offline pretraining, Ctrl+C, operators always resume from the newest file | `RetentionKeepsTheSavedFile`, `PrunedRowsStayRecoverable` |
| `progress` | 1 rollout, 2 RPC threads, every update checkpointed, keep 1 file, Ctrl+C and a second one, 2 starts, fair threads | `StoppingLearnerExits`, `RolloutsGetThrough` |
| `leaders` | `MCSelection`: 3 batches, 1 update and 1 remembered policy per process, 2 processes, Ctrl+C, 2 passes to stop; cloning over 7 steps with a validation every 2, every outcome out of 3 losses and 2 scores, 2 starts | `SelectionTypeOK`, `LeadersAreBacked`, `LeadersAreExact`, `StopsAfterConsecutivePasses`, `CloningResumes` |
| `control` | `MCActor`: 1 sender, lag limits 0, an evaluation after every episode, 2 policies; 3 training rollouts without failure, 1 with a failed call or a stop; packets of 2 pieces, 4 frames, 2 connections; 4 actions with 3 brake taps and a failing stroke; 2 laps out of 4 races; 2 attempts at a recovery that telemetry shows a tick late | `ActorTypeOK`, `AcceptedTransitionsAreRecent`, `EvaluationsWithinSchedules`, `KeysFollowActions`, `RecordingsAreWhole`, `RequestedEvaluationsRun`, `PublishedPoliciesReachTheActor`, `ReadsAreAnswered` |
| `processes` | `MCProcesses`: spool of 2 with a small and a large chunk, 2 processes, writes that time out; 1 actor with limits of 2 ticks; a trainer with target 4 and 3 runs, on- and off-policy; a launch with target 2; 2 threads that log 3 events through a queue of 1 | `PartsTypeOK`, `RunsAddUp`, `VerdictsAreTrue`, `SpoolKeepsMoving`, `BlockedActorsEnd`, `TableFollowsTheActors`, `RunsAndLaunchesEnd` |
| `data` | `MCData`: 3 races, 1 fault, with and without a decision interval; a hairpin of 5 points, with and without the kinematic limit; spool of 3 with 4 chunks, 2 senders, 2 processes; a ring of 5 with a demonstration and two laps, 9 ids, and again with rewards, windows of 3 and 2-step returns with every burn-in; a tree of 5 leaves; an episode and an evaluation of 2 trials, 2 steps each, chunks of 2, 1 refresh; a suite of 2 maps and 2 trials; a search of 6 laps over 5 segments, 2 runs | `DataTypeOK`, `KeysIdentifyPayloads`, `PersistedRolloutsSurvive`, `BytesAreAccounted`, `EpisodesAreKept`, `DrawsFollowTheStore`, `DrawsFollowTheWeights`, `ReportsAreTrue`, `SearchIsSafe`, `EpisodesAreSound`, `RewardsAddUp` |
| `retention_leaders` | keep 1, 1 rollout and 2 evaluations, 1 start, leaders are the only files | `PrunedRowsStayRecoverable` is **violated** (finding 1) |
| `interrupt` | Ctrl+C anywhere | `CheckpointsCaptureTheirFrontier` is **violated** (finding 2) |
| `leaders_evicted` | 1 batch, 3 updates, 2 remembered policies, 1 process | `EvaluatedPolicyIsRemembered` is **violated** (finding 3) |
| `resume` | `LocalTrainer` alone, Ctrl+C and 2 runs | `ResumedRunsCollect` is **violated** (finding 4) |

**Bounds.** Two rollouts are what order, duplication and gaps need; a second RPC
thread is what two handlers of one chunk need; a second start is what recovery
needs, and the third possible file generation does not change what a resume sees
(a resume reads one file and the journal). Evaluations need their own chunk because
only they lead to leader checkpoints. In `progress` a rollout can be accepted twice over by two
handlers, and after the final snapshot, and is applied by the next start; Ctrl+C inside an
ingest may apply it twice there (finding 2), so "applied" means at least once. `retention` has one of them, so its leaders come in
order; two are what finding 1 takes.
In the spool, two processes are what recovery needs; two senders are what deleting
out of order needs, so that the directory has gaps; the limit is below the
sum of the chunks, so the collector has to wait, and what a crashed process left
can fill it. Each chunk is flushed once.
For the leaders, three batches are what a pass, a failure and a pass need, and two of
them a better and a worse result in each process. One remembered policy
in place of 16 makes eviction as frequent as it can be; with one, the place of
a key in the dict plays no part, so finding 3 is shown with two.
In `control`, lag limits of 0 make every update a rejection. The control signals are checked in
two scenarios (`MCActor`): `control` has three training rollouts, nothing fails and nobody
stops; `failing` has one, and a call that fails or a learner that stops, at any point, and an
actor that may stop as well. The
learner can ingest a summary between its append and the assignment of the same call, so
each of the three answers can carry an evaluation: a request overwrites one that was not
taken yet, comes while the collector has cleared the flag and not yet read the slot, and
while it plays an earlier evaluation. The one policy that is published is enough for
these, because an evaluation is assigned once one is out. One actor sees every order of
its own threads, and actors do not share anything but the learner's table. Three taps are a
timer that cannot be cancelled, the one it hides and one after both.
In `leaders`, seven steps leave a step after the last validation, and three validations are
a selection, one that makes it ineligible and one that stops early; two starts are a kill
anywhere and a resume.
In `processes`, timeouts of two ticks are the shortest that a beat can still reach in time;
three runs of the trainer are a resume from a file that a resumed run wrote, and a transition
earns more than an update costs, so that files are written while credit is left.
In `data`, the ring is smaller than what is offered, so a demonstration is
displaced and a lap loses its middle; the log is as long as the ring, as in the code; five
leaves are not a power of two; six laps end a confirmation in the middle; two steps per episode are a
chunk that is flushed before its episode ends and one that is not.
All bounds that the program does not have are named `Max...` and declared as such.

**Fairness.** `ThreadFairness`: the learner's main thread, the writer and the
handlers run when they can; nothing else is assumed for `StoppingLearnerExits`.
`Update` is left out because without an active actor the learner holds its credit.
`RolloutsGetThrough` has `CallFairness`, strong fairness of calls, as a premise, since
senders retry without limit: not every attempt fails. A failed append ends the actor's
process (`stop_from_thread`); the premise then includes that somebody starts it again.
Collection, crashes, stops and starts are never obliged to happen.
In `ActorSpool`, `CollectorFairness` lets the main thread run (it persists, drops,
leaves when told to stop, exits; joining takes at most ten seconds), and
`SenderFairness` lets each sender take, unlink and count and has some call succeed
when calls are made again and again. An error that is not retried stops the actor, so it
releases the collector too.
In `ActorControl` the actor's three kinds of threads, the handlers they wait for and the learner's
ingestion run; a handler whose sender gave up is owed nothing;
episodes end because of `max_episode_steps`; updates, losses and stops are not obliged.
In `ActorLiveness` time passes, the learner checks its table, and a heartbeat thread beats
and exits when it must; the collection thread is obliged only to leave its loop once it was
told to stop. In `TrainingSupervisor` the launcher and each child take their steps;
interrupts and failures are not obliged. `TrainerFairness` lets the single process
run, `TelemetryFairness` has the client step and its deadline pass.

### Findings

1. Leaders of one family and one update are sorted by the version of their policy
   (`core/checkpoints.py:57`). When two actors evaluate and the older policy's batch is
   ingested last, without an update in between, its leader sorts before the one saved
   for the newer policy; with `checkpoint_keep_last: 1` it is deleted at once, after the
   journal was pruned to its frontier (`coordinator_checkpoint.py:98`, against
   `readme/architecture.md:23`). No file that is left can be resumed until the next save.
   It takes no operator and no crash; a crash in that window loses the run.
   `LeadersInOrder` names the condition, and the theorems about retention show that
   nothing else is in the way.
2. Ctrl+C in the middle of an ingest saves a checkpoint whose replay is ahead of its
   frontier (`coordinator_runtime.py:49`, against `readme/architecture.md:22`). The
   launcher of local runs shields the learner from the signal; the stand-alone
   `learner` command does not. Resuming ingests the row again.
3. Between the ingestion of a batch and the lookup of its policy the main thread waits
   for the checkpoint writer. A handler that hands out a newer policy in that time
   evicts the oldest remembered one, which can be the one needed, because storing a
   snapshot under a key that is present keeps its old place. The learner dies with
   "exact snapshot missing" (`coordinator_leaders.py:186`, against
   `readme/configuration.md:98`). It takes a batch that evaluated the oldest of 16
   versions, from an actor that was away or slow.
4. Ctrl+C in the middle of an off-policy episode of the local trainer saves the counters
   of the last whole episode beside a replay that already holds the first steps of the next
   (`core/training_loop.py:344`, against `readme/algorithms.md:78`). The resumed run
   numbers its episode with the restored counter, and the store refuses the first step
   as a duplicate.

### Limits worth knowing

- `checkpoint_keep_last` keeps the files with the highest *update numbers*, which are the
  newest only as long as every start resumes from the newest file (`core/checkpoints.py:56`,
  against `readme/configuration.md:82`). After a start from an older file, or with `learner
  --checkpoint --reset-replay`, the file that was just saved can be the one removed, and the
  journal was already pruned to it. `retention` and the theorems about it therefore have
  `ResumeNewest`; without it TLC violates `RetentionKeepsTheSavedFile` in 2 starts.
- Remembered policies are keyed by version, and versions repeat with other weights after
  a resume, also right away when the file is a leader checkpoint (it holds older weights
  under the current update count). In the window of finding 3 a handler can then replace
  the evaluated weights, and the leader checkpoint holds weights that nobody evaluated.
  `LeadersAreExact` is stated for one process; across two TLC shows that it can fail.
  For the same reason the version an actor reports is only an estimate of its lag after the
  learner was restarted from an older file (`coordinator_rpc.py:247`): `ActorControl` has one
  learner process.
- The lag of a submission is checked under the learner's lock, which is free again before the
  append (`coordinator_submission.py:84`): transitions may be older than
  `hard_policy_lag_updates` when they enter the journal, by the updates made in between.
- A rank is reserved before the `try` that takes it back (`coordinator_leaders.py:87`).
  Ctrl+C in between saves a final checkpoint that carries a rank without a leader. The
  window is a few calls wide, and `leaders` shows that it is the only one: with Ctrl+C
  everywhere else, also in the middle of a wait whose write fails, `RanksAreBacked` holds.
- A process that is resumed from a file older than the leaders on disk does not know how good
  they are. Leader files are named by update count and policy version, which repeat, so it can
  replace a better leader by a worse one of the same name, while a later regular checkpoint
  of the process before carries the better rank: resumed from that one, the learner refuses
  better policies than it has on disk. It takes three processes; `behind` excludes it from
  `LeadersAreBacked`, whose proof shows that nothing else leads there.
- A temporary that a crash cut short is counted by `scan_spool_bytes`
  (`actor_spool.py:177`) and left in place for ever. Once such files leave no room for
  the next chunk the collector waits although the learner has drained everything;
  `SpoolKeepsMoving` therefore has a condition on them. It takes many interrupted writes
  at the default of 2 GiB.
- A write of the spool that raises TimeoutError or ConnectionError (a spool on a network
  file system) is taken for lost telemetry and the episode flushed again under the same
  number; a crash in between leaves two payloads with one key (`actor_collection.py:95`).
- With `actor_stall_timeout_s` set, an actor that waits for spool space because the learner
  is down is ended as stalled (`actor_spool.py:98`).
- In the launcher: a Ctrl+C during the boot of a child ends it; a second one outside the joins
  ends the shutdown early; the drain after a completed actor waits without limit for a
  learner that hangs.
- In the local trainer: a process resumed from a file that was written with credit left spends it
  in its next cycle, and one resumed at its target never does. Ctrl+C between counting and crediting a collection loses its
  credit; on-policy, Ctrl+C before the update keeps the credit without the rollout, so the
  next rollout trains twice.
- In the environment: a reset that begins during a countdown takes that race for the new
  one, and a restart is only seen if the agent never stalls for as long as a countdown.
- In the suite: cancellation reads the stop file anew each time, so one that is deleted
  during the suite would leave the interrupted trial in a complete artifact; a failure
  before the first step of the first trial writes an "end" event without a "start".
- In the trajectory search: trial numbers in the journal repeat after a resume, and the
  journal may say accepted although the schedule was not saved yet.
- Behavior cloning that is resumed after an early stop trains past it; a run that is resumed
  into a directory of its own starts without the file of the best policy; steps after the last
  multiple of the validation interval are in no checkpoint; with fewer steps than one interval the
  command raises at its end.
- `readme/observability.md:92` calls the brake tap a synchronous pulse of 10 ms, which is what the
  gamepad does. On the keyboard a timer ends it, which may go off while the next action is
  applied and lift a brake that action asked for (`keyboard_control.py:231`). A
  stroke that fails leaves keys down that the controller no longer tracks.
- A recovery is only recorded right if telemetry lags behind inputs by less than the
  perturbation lasts (`InputLag < Duration`); the code has no check of its own for it.
- A demonstration of an episode that was already complete loses its links when it is
  appended again (`store_index.py:74`): `NeighboursAreLinked` is stated for online steps.

## 4. Proofs

The theorems hold for every value of the constants that satisfies the module's named
assumption (finite sets, naturals and Booleans where expected, `None` not one of
them). TLC evaluates the assumptions in the runs.

| Module | Theorem | States |
|---|---|---|
| `RolloutDurability_proofs` | `TypeCorrect` | `Spec => []TypeOK` |
| | `Inductive` | `Spec => []IndInv`, without Ctrl+C |
| | `ReplayCorrect` | `Spec => []ReplayIsAppliedPrefix`, without Ctrl+C |
| | `CheckpointsCorrect` | `Spec => []CheckpointsCaptureTheirFrontier`, without Ctrl+C |
| | `PrunedRecoverable` | `Spec => []PrunedRowsStayRecoverable`, without Ctrl+C and with retention off |
| | `RetentionInductive` | `Spec => [](TypeOK /\ JournalInv /\ RetentionInv)`, with `ResumeNewest` |
| | `RetentionKeeps` | `Spec => RetentionKeepsTheSavedFile`, with `ResumeNewest` |
| | `RetainedRecoverable` | `Spec /\ []LeadersInOrder => []PrunedRowsStayRecoverable`, with `ResumeNewest` |
| | `DiscardsSettled` | `Spec => DiscardsAreSettled` |
| | `Implements` | `Spec => ImplementsLog`, without Ctrl+C |
| `ActorSpool_proofs` | `Inductive` | `Spec => []IndInv` |
| | `Survive` | `Spec => []PersistedRolloutsSurvive` |
| | `KeysUnique` | `Spec => []KeysIdentifyPayloads`, without `DiskTimeouts` |
| | `TypeCorrect` | `Spec => []TypeOK` |
| | `BytesCounted` | `Spec => []BytesAreAccounted`, without `DiskTimeouts` |
| `Processes_proofs` | `SupervisorInductive` | `SupervisorSpec => []SupervisorInv` |
| | `VerdictsTrue` | `SupervisorSpec => []VerdictsAreTrue` |
| | `TrainerInductive` | `TrainerSpec => []TrainerInv` |
| | `TrainingSums` | `TrainerSpec => []TrainingAddsUp` |
| | `TrackerInductive` | `TrackerSpec => []TrackerInv` |
| | `RemoteRunTrue` | `TrackerSpec => []RemoteRunIsTrue` |
| | `PartsTypeCorrect` | `MCFairSpec => []PartsTypeOK` |
| | `RunsSum` | `MCFairSpec => []RunsAddUp` |
| `Actor_proofs` | `ControlInductive`, `ControlTypeCorrect` | `ControlSpec => []ControlInv`, the types |
| | `Recent` | `ControlSpec => []AcceptedTransitionsAreRecent` |
| | `WithinSchedules` | `ControlSpec => []EvaluationsWithinSchedules` |
| | `KeyboardInductive`, `KeyboardTypeCorrect` | `KeyboardSpec => []KeyboardInv`, the types |
| | `KeysFollow` | `KeyboardSpec => []KeysFollowActions` |
| | `TelemetryInductive` | `TelemetrySpec => []TelemetryInv` |
| | `FramesAccounted` | `TelemetrySpec => FramesAreAccounted` |
| | `RecorderInductive`, `RecoveryInductive` | `RecorderSpec => []RecorderInv`, `RecoverySpec => []RecoveryInv` |
| | `RecordingsWhole`, `ActorTypeCorrect` | `MCFairSpec => []RecordingsAreWhole`, `MCFairSpec => []ActorTypeOK` |
| `Selection_proofs` | `CloningInductive`, `CloningTypeCorrect` | `CloningSpec => []CloningInv`, the types |
| | `Eligibility` | `CloningSpec => []SelectedPolicyIsEligible` |
| | `OnDisk` | `CloningSpec => []BestPolicyIsOnDisk` |
| | `ExactInductive`, `Resumes` | `CloningSpec => []ExactCloning`, `CloningSpec => []CloningResumes` |
| | `Shape`, `LeadersTypeCorrect` | `Spec => []ShapeInv`, the types |
| | `Stops` | `Spec => []StopsAfterConsecutivePasses` |
| | `LeadersExact` | `Spec => []LeadersAreExact` |
| | `LeadersInductive`, `LeadersBacked` | `Spec => []LeadersInv`, `Spec => []LeadersAreBacked` |
| | `SelectionTypeCorrect` | `SelectionSpec => []SelectionTypeOK` |
| `Replay_proofs` | `StoreInductive` | `StoreSpec => []StoreInv` |
| | `StoreKeeps` | `StoreSpec => [](EpisodesStayLinked /\ DemonstrationsAreKept)` |
| | `IndexFollows` | `ReplaySpec => []IndexFollowsTheStore` |
| | `BatchesFollow`, `TargetsFollow` | `SequenceSpec => []BatchesAreTrue`, `SequenceSpec => []TargetsAreTrue` |
| | `TreeInductive`, `WeightsFollowed` | `FenwickSpec => []TreeInv`, `FenwickSpec => []DrawsFollowTheWeights` |
| `Data_proofs` | `RaceInductive`, `RaceEpisodesSound` | `RaceSpec => []RaceInv`, `RaceSpec => []EpisodesAreSound` |
| | `RewardInductive`, `RewardsAddUpHolds` | `RewardSpec => []RewardInv`, `RewardSpec => []RewardsAddUp` |
| | `SearchInductive`, `SearchSafe` | `SearchSpec => []SearchInv`, `SearchSpec => []SearchIsSafe` |
| | `SearchTypeCorrect` | `SearchSpec => []SearchTypeOK` |
| | `SummariesInductive`, `SummariesTrue` | `SummariesSpec => []ReportInv`, `SummariesSpec => []SummariesAreTrue` |
| | `SuiteInductive`, `ArtifactsTrue` | `SuiteSpec => []SuiteInv`, `SuiteSpec => []ArtifactsAreTrue` |
| | `EpisodesKept`, `DrawsFollow` | `MCSpec => []EpisodesAreKept`, `MCSpec => []DrawsFollowTheStore` |
| | `DataTypeCorrect`, `ReportsTrue` | `MCSpec => []DataTypeOK`, `MCSpec => []ReportsAreTrue` |

"Without Ctrl+C" is `~Interruptible`, the setting of learners that the launcher
starts; finding 2 shows the hypothesis is needed. The theorems about retention hold
with Ctrl+C too; they need `LeadersInOrder` because of finding 1, and `ResumeNewest`
because the files kept are those of the highest update numbers ("Limits worth knowing").

**RolloutDurability.** `TypeOK` is inductive only together with `JournalInv`: a resume's
frontier is a row id only because the last row of the journal is a receipt.
`IndInv` adds three parts. `MemInv`: a running learner is never behind what was
pruned, its replay is the prefix of its frontier, and during an ingest that prefix
and the row at hand. `FilesInv`: every file is a captured prefix. `WriterInv`: the
pending write is a captured prefix not ahead of the learner and, until the prune,
not behind what was pruned; this is what lets the prune move under a running
learner. Receipts are unique and only added at the end, so prefixes are stable
(`AppendKeepsPrefixes`), and everything beyond an unpruned frontier is still stored
(`RowsAfterAreStored`); a resume therefore gets the whole journal
(`RecoveredPrefix`). `AnswersAreBacked` is the separate invariant behind
`DiscardsSettled`. The refinement maps `Persist` to `Accept` or a stutter,
`BeginIngest` to `Apply`, the end of the process to `Stop`, every start to
`Recover`. `IndInv` and `AnswersAreBacked` were model-checked on the instances of
`durability` and `recovery` before they were proved.
Retention has an invariant of its own, which says nothing of the replay and so survives
Ctrl+C. `RetentionInv`: of two files the one with more updates covers no fewer rows
(`FilesAdvance`), and the learner and the pending write are `AheadOf` every file. A
resume restores it because the newest restorable file ends level with the journal, and
a file that is not restorable covers fewer rows, so it has no more updates
(`NewestStart`). `SavedFileSortsLast` follows. `RecoverableInv` adds that some
restorable file is behind no other; each prune makes the file just saved that file, so
the invariant needs retention to keep it, which is where `LeadersInOrder` enters. Both were
model-checked with two evaluations and both leader families before they were proved.

**ActorSpool.** A queued rollout survives if nothing renames onto it and nobody else
deletes it. `SurviveInv` says that it has a file whose number the collector will not
use again; `RecoveryInv` and `WriteInv` say that recovery and the collector only
rename onto numbers that are free or their own; `QueueInv` and `SenderInv` that a file
belongs to the queue or to exactly one sender, so that what a sender deletes is
what was answered. `Bounded` (the directory's numbers have a bound) is what makes
the next number exist; it is proved because an actor's directory is finite and
grows by one file at a time. `KeyInv` adds that this process's keys are below its
next number, except the one it is writing, and that earlier processes had other
sessions. `BytesCounted` is about sums over the directory, `SumFunctionOnSet` of the
community modules. `SumTheorems` proves what such a sum does when one file is added, removed
or changes its size; each step of the spool is one or two of these, a rename moves a size
from one sum to the other. `FreshInv` says that the number being written is above all others
and has no rollout before its rename: without it a rename could replace a
file that is counted. That is also why the theorem, like `KeysUnique`, excludes
`DiskTimeouts`: after one, the same number is written a second time.

**TrainingSupervisor.** `SavedInv` says that a learner closes only after its final
checkpoint. `ExcuseInv` says that the launcher signals a stop, and a learner ends its loop,
only for a reason that either keeps the launcher from reporting a finished run or makes that
report true; `ReportInv` ties each place of the launcher to what the children can still be,
so that a report is made when nothing is left to change. They hold however the children, the
stop file and Ctrl+C interleave, because reasons are stable and the signal is only ever set.

**LocalTrainer.** `FilesInv` says of every file what the counters in it have earned: off-policy
that credit and updates are what its transitions paid for and that its replay holds them, on-policy
that there is one update per rollout. `CreditInv`, `UseInv` and `RolloutInv` say the same of a
running process at each place of its cycle, with the collection at hand counted where the code
counts it; a resume takes them over from its file. `UncreditedIsLost` and `UntrainedIsLost` are
the two exceptions Ctrl+C makes. The proof found that `CreditFollowsTransitions` had been stated
too strongly: with an update that costs less than one transition earns, a periodic checkpoint
may be written while credit is left, and a process resumed from it collects before it spends.
The arithmetic is not linear (updates times rollout length), so its facts are lemmas of their own
(`Products`, `WholeRollouts`).

**RemoteTracker.** `OrderInv` follows the events of a thread through the queue, the worker and the
remote and says that they never overtake each other; what is new in the file is after all of them
because it carries its thread's next number (`FileInv`). `CountInv` says where the events are
that are to be sent: in a thread's hand, queued, being sent, received, or dropped and counted. It
holds while the remote works and the closing token has not been dropped; `FailureInv` says that
either of these ends the run with a failure, so a run that ends with success is one where the
count closes with nothing on its way. `TokenInv` is why nothing is behind the token.

**The parts together.** A behavior of `MCProcesses` is, for each part, a behavior of it
(`PartBehaviors`; `ActorParts` and `DataParts` say the same of `MCActor` and `MCData`), so the theorems about the parts are theorems about the specification that
the run `processes` checks.

**ActorControl.** `HonestInv` says that a rollout with transitions reports the version its
episode was started with. `CheckedInv` says of every handler that has passed the lag check,
also of one nobody waits for, that what it read then was within the limit; it is needed because
the updates have moved on by the time the rollout is journalled, and with both a step that
journals transitions extends `worstLag` by at most `HardLag`. `ScheduleInv` counts the evaluations on their way:
the due flag, the answers in flight that carry one, the actor's flag and a cleared flag whose
request is not yet read; with the evaluations played, they never exceed those scheduled.
Each step moves one of them on or merges two, and a lost answer removes one
(`FlagsCount`, `CallsCount`, `LostCallsCount`).

**BehaviorTraining.** `SelectionsInv` says that every selection, also one on disk, is within ten
percent of the smallest loss it knows; a loss that would make it ineligible is itself selected
(`UpdatedSound`). For `OnDisk`, `PairsInv` says that the file of the best policy agrees with the
training state or is ahead of it by exactly the next validation, which selects that policy again
because it is a function of the training state (`Selects`); `RunInv` places the running
command between the file it started from and the next validation, for which `NextMultiple` is
the arithmetic. That a resumed run equals an uninterrupted one compares with a recursive
reference (`Uninterrupted`) over flattened sequences (`Experience`). That the functions these
recursions define exist is proved by `SetInduction` (`ReferenceExists`, `FlattenExists`), and so is how
each grows by one batch or one validation; `ExactCloning` then follows a run, and what its training
state says, along the reference.

**EvaluationLeaders.** `ShapeInv` is the bookkeeping: types, what a learner that is down leaves,
and that a leader file carries the rank its batch earned. What recovery recalls is a recursive
function over the rows; its type needs an induction, which `SetInduction` provides without an
operator as parameter: a set of naturals that holds 0 and every successor of a member holds
them all, because on a finite part of it the successor would be one-to-one but not onto.
`PassesInv` says that the passes are the last batches that passed, `ExactInv` that in the first
process a version stands for one network. `RanksInv`, `BackedInv` and `TopInv` carry
`LeadersBacked`: a reservation is above the rank it replaces and is the rank of the file in
flight until that write ends or fails; a rank is backed by a leader on disk or by the file in
flight; and no leader on disk is above the rank in memory, so writing a leader only replaces
worse ones. After a failed write nothing of this is known of the memory, and nothing needs to
be: the learner cannot record another batch before it meets the failure and ends. `LeadersInv`
was model-checked on the instance of `leaders` and on one with three processes first; the
second is where `behind` came from.

**KeyboardControl.** `TimersInv` says which timers may still lift the brake: the one the
controller knows, and those that had gone off or lost their reference when a later action was
applied. `KeysInv` then follows each method's effect on `down` and `pressed`.

**TelemetryClient.** Every piece the plugin sends has a number, its place in all that was ever
sent. `Stream` says that what the client keeps begins where a packet begins and that its
numbers, and those of what is on the wire, follow each other (`InOrder`); a number is of one piece
of one frame (`NumbersApart`), so the first `PacketSize` pieces are one frame's packet
(`FirstPacket`). A lost connection cuts the wire but not what the client has read of it, and closing
drops both; the next connection begins with a new frame, which is later than every frame given
(`ConnectInv`). That nothing was missed inside a connection is a count: the frame the buffer
begins with is one after the frame last given, or two after it while the packet between them is in hand.
This is the safety half of `ReadsAreAnswered`; that reads end stays with TLC.

**DemonstrationRecorder.** The recorder sees frames, not races, so a lap is whole only if no gap it
tolerates can hide the start of another race. `Reached` bounds what can follow a frame
when some are lost: a frame of the same race and not far behind, or one in a later race's
countdown. Because a countdown is longer than the frames that may be lost, the first frame of
another race has a clock that runs backwards or is not positive, which ends the lap (`DiscardInv`) or lets
a new one begin (`StartInv`). `OpenLap` is what the lap under way is known to be. The frames that can be lost are
computed by a recursive function, whose existence is an induction by `SetInduction` (`FramesExist`).

**RecoveryRecorder.** A recorded frame shows an input that was given `InputLag` ticks before, so the
recorder learns of its own perturbation late. `Ticks` says what was given at each tick of an
attempt: the model drove until the perturbation, the recorder until it let go, then nobody;
`Window` that the frames, and the inputs still on their way, show just that. The model may
have given the same control by itself, but what telemetry shows of that after the start ends within the lag; the recorder's
own run lasts longer than it, so the longest run is the one that holds
the recorder's inputs, and it ends with the last frame but one (`RecorderRun`,
`ConfirmedRun`). What follows is neutral until a human acts (`HandedOver`), which is what
`RecoveriesAreWhole` asks of a saved lap; `LetGo` reads `PerturbationIsLetGo` off the invariant.

**RaceEnvironment.** The environment knows the game by its clock alone. `RacesInOrder` orders the
races it has seen (`past`, `scored`, `playing`, the race on the track), `GameFollowed` says what the
remembered clock tells of the race now on, `ResetsWaitForNewRaces` what each place of a reset has
already ruled out, and `StepsStayInTheirRace` when a step's frame is of the race played.
`FaultlessResets` and `ResetsRecover` are why a reset that fails can name an outside fault. The
proof needs that a countdown is longer than what the reader can skip and that a start is awaited
for longer than a countdown (`RaceAssumption`): with either dropped, a restart can pass unseen.

**TrajectoryReward.** `DrivenInv` keeps the index below `reachable`, and `reachable` below what
was driven and what the speed cap allows; `HistoryOK` says that the
progress history is consecutive steps of a rising index, which is why dropping one old entry is
all `_update_progress_history` has to do. The discounted sums are kept as numerators;
`weight` carries the powers of the discount, so that no step needs an induction over exponents,
and the step lemmas are identities between products.

**TrajectorySearch.** Requests only ever shorten a slow window (`Shortening`), so no candidate
slows the lap elsewhere (`NoSlower`); a schedule is what is left of the recording after
requests that `shorten` accepted. `ProvedInv` says that the incumbent, and what is saved, was
confirmed or is the baseline; `AdmittedInv` that the journal says so before the file does;
`BudgetInv` counts the laps at each phase. `MedianStep` needs the median of a nonempty sequence
of finished laps to exist, for which `LeastExists` picks the ranked lap.

**ReplayStore.** Links can only be right if the episode index is, and the index forgets an episode
as soon as it is complete or its last entry has left the ring. `StepsInv` says that an id in
the index is of its step while it is in the ring; `OnceInv` that no transition is in two places, the
ring and the hand that appends a displaced demonstration again; `ClosedInv` that an online step in the
ring which is not indexed belongs to an episode whose steps have all arrived, so that no later
step can miss it. `OwnInv` is why a dropped copy can still be read: what stands in for it has a
higher id, and the ring drops ids in order. `RingFacts` says what one write does to every entry; each
part of the invariant is then a lemma of its own about a write (`WriteOnce`, `WriteJoins`, ...),
for a transition and for a demonstration appended again alike.

**ReplayIndex.** Between two synchronizations the index is behind the store, so exactness is not
inductive. `Current` says how far it may be behind: a slot's id is in the ring or in a logged change
that was missed (`IsGone`); an id that no missed change touches (`IsTouched`: the steps before an appended
or evicted one, up to the horizon, and what was relabelled) is active exactly if it is eligible.
`LogInv` keeps the change log consecutive, so a log that starts after the index's revision is
noticed (`MustRebuild`), and only then `Current` may fail. The store's side is `WriteTouches`: an
id which the logged change does not name reaches the same steps ahead and behind as before the
write (`SameReach`), and is therefore as eligible as before (`EligibleAsBefore`).
`UpdatedIsExact` and `RebuiltIsExact` close the gap. Priorities stay with their ids because a
slot that is taken over is reset.

**SequenceBatches, ValueTargets.** `StoreInv` is enough for everything but the sampler's cache:
under it the links of an eligible id lead to the steps of its own lap, as many as the horizon or up
to the lap's end (`HorizonIs`), and back to those that are still in the ring (`WindowIs`), padded
as the actor pads its own history at the start of a lap. `MaterializedIs` and `TargetIs` read the
returns and the bootstrap history off these, `FramesAre` the recurrent state after any burn-in.
`WindowInv` says that the ends kept at a revision are those of it: revisions only rise
(`Raised`), and nothing that leaves the revision alone moves an end (`SameEnds`).

**EpisodeSummaries.** `RecordsInv` says that what was sent of an episode and what is buffered is,
together, the record of its steps: step k has number k, and only the last may end the episode, by
its reason or by being the `MaxEpisodeSteps`-th. A stop discards what is buffered, so this holds only
until then; afterwards nothing is sent, and what was said stays true (`SaidStays`). `TrialsInv`
keeps each summary of an evaluation next to the lap it is of, and the failed trials last. That a
summary is accepted (`SummaryIs`) needs the percentile to be below the maximum and the
maximum of the skipped frames below their sum: a finite set of numbers is bounded by its sum, so
its maximum exists, and the percentile is the least of a set that holds it. `QualifiedLaps` reads
the batch statistics backwards: as many measured steps as steps means that every step was.

**SuiteEvaluation.** `OrderInv` says that the results are the first trials of the suite in its
order, which is the arithmetic of quotient and remainder (`SuiteFollows`); `AttemptInv` that what was
driven is in the results or under way, `CutInv` that no trial follows one the operator cut
short, and `BoundInv` that a policy is never older than the digest it was bound to. The artifact is
written from the same results at every trial, so it is true between any two of them.

**FenwickTree.** `TreeInv` says that a node holds the sum of the leaves from its lowest bit below it
up to itself. `LowBit` is a choice among powers of two, so everything about bits is an argument
about division: a number has one lowest bit (`LowUnique`), and the leaves of two nodes are disjoint
or nested (`Nests`), because of two powers of two the smaller divides the larger. Hence the walk up
from a leaf meets exactly the nodes that sum it up (`ClimbMeets`), and `SetLeaf` changes those and no
others. The descent of `Find` keeps the target between the sums at both ends of an interval that
halves with every bit (`ProbeNarrows`); powers of two are a recursive function, since the provers
know nothing of `^`.

Every invariant that a passing run checks is stated by a theorem. Only model-checked: all
liveness, because fairness is out of the prover's reach.

## 5. Not modelled

Numeric code (losses, optimisers and networks of the algorithms, features, geometry), device I/O, logging, command-line
parsing and scaffolding stay outside: they have no interleaving, recovery or long-lived
state a model checker could say something about. Of the modelled components, what is left out
is named under "Abstractions" above and in the components' notes in `PROJECT.json`: the wire
codec, the checks of single fields of a request, metric windows, actor profiles, the batch prefetcher,
evaluation metrics and reports, and the quality checks of recorded laps.
