---------------------------- MODULE LocalTrainer -----------------------------
(* Trainer: the single-process run.  A cycle collects one episode (off-policy)
   or one fixed-length rollout (on-policy), credits updates for it, performs
   them, writes the periodic checkpoints and evaluates.  Ctrl+C writes a last
   checkpoint from whatever the counters and the replay hold at that moment; a
   later process resumes from any file.

   Off-policy replay and its step index are restored with the file; on-policy
   replay is not.  Update credit is counted in units, UpdateCost of them per
   update; losses, policies and retention are left out.                      *)
EXTENDS Integers, FiniteSets

CONSTANTS TotalTransitions, MaxEpisodeSteps,
          RolloutLength,      \* transitions of an on-policy rollout
          Ready,               \* off-policy: max(warmup, footprint of a batch)
          CreditPerTransition, \* units of credit for one transition
          UpdateCost,          \* units of credit for one update
          CheckpointEvery, EvaluateEvery,
          MaxRuns              \* bound: processes

ASSUME TrainerAssumption ==
    /\ {TotalTransitions, MaxEpisodeSteps, RolloutLength, Ready,
        CreditPerTransition, UpdateCost, CheckpointEvery, EvaluateEvery, MaxRuns}
         \subseteq Nat \ {0}
    /\ TotalTransitions % RolloutLength = 0

VARIABLES onPolicy,
          phase,      \* where the main loop is
          counters,   \* TrainingCounters
          rows,       \* the number of transitions in the replay
          indexed,    \* the steps of unfinished episodes the replay knows, <<episode, step>>
          finished,   \* the episodes whose last step is in the replay
          episode,    \* the collector's current episode and step
          collection,  \* transitions and episodes of the current collection
          used,       \* history: updates performed on the current rollout
          saved,      \* the checkpoint files, by update number
          cut,        \* history: the phases in which Ctrl+C has arrived
          runs

trainerVars == <<onPolicy, phase, counters, rows, indexed, finished, episode, collection,
                 used, saved, cut, runs>>

Alive == {"collect", "record", "schedule", "update", "checkpoint", "final"}
Counters == [transitions |-> 0, updates |-> 0, episodes |-> 0, next |-> 0, credit |-> 0]
NoCollection == [transitions |-> 0, episodes |-> 0]
AtReset(index) == [index |-> index, step |-> 0]
Lower(a, b) == IF a < b THEN a ELSE b
Above(a, b) == IF a > b THEN a - b ELSE 0

-----------------------------------------------------------------------------
(* The collector runs to the end of the episode or of the rollout; an episode
   is cut at the step limit, an off-policy one at the end of the run too.    *)
Remaining == TotalTransitions - counters.transitions
StepLimitOfEpisode == MaxEpisodeSteps \* faulty: the end of the run does not cut an episode
StepLimit == IF onPolicy THEN MaxEpisodeSteps ELSE Lower(MaxEpisodeSteps, Remaining)
CollectionEnds(count, ended) ==
    IF onPolicy THEN count = Lower(RolloutLength, Remaining) ELSE ended

TrainerInit ==
    /\ onPolicy \in BOOLEAN
    /\ phase = "new"
    /\ counters = Counters
    /\ rows = 0
    /\ indexed = {}
    /\ finished = {}
    /\ episode = AtReset(0)
    /\ collection = NoCollection
    /\ used = 0
    /\ saved = <<>>
    /\ cut = {}
    /\ runs = 0

(* A run from scratch: Trainer.train.                                        *)
StartRun ==
    /\ phase = "new"
    /\ phase' = "collect"
    /\ runs' = 1
    /\ UNCHANGED <<onPolicy, counters, rows, indexed, finished, episode, collection, used, saved, cut>>

(* One environment step, appended to the replay at once.                     *)
CollectTransition(ended) ==
    LET last == ended \/ episode.step + 1 = StepLimit
        key == <<episode.index, episode.step>>
        kept == IF last THEN {k \in indexed : k[1] # episode.index} ELSE indexed \cup {key}
        count == collection.transitions + 1
        ends == CollectionEnds(count, last)
    IN /\ phase = "collect"
       /\ counters.transitions < TotalTransitions
       /\ key \notin indexed
       /\ rows' = rows + 1
       /\ indexed' = kept
       /\ finished' = IF last THEN finished \cup {episode.index} ELSE finished
       /\ episode' = IF last THEN AtReset(episode.index + 1)
                             ELSE [episode EXCEPT !.step = @ + 1]
       /\ collection' = [transitions |-> count, episodes |-> collection.episodes + (IF last THEN 1 ELSE 0)]
       /\ phase' = IF ends THEN "record" ELSE "collect"
       /\ used' = 0
       /\ UNCHANGED <<onPolicy, counters, saved, cut, runs>>

(* The replay refuses a step it already holds; the run ends with the error.  *)
DuplicateStep ==
    /\ phase = "collect"
    /\ counters.transitions < TotalTransitions
    /\ <<episode.index, episode.step>> \in indexed
    /\ phase' = "failed"
    /\ UNCHANGED <<onPolicy, counters, rows, indexed, finished, episode, collection, used, saved, cut, runs>>

(* _record_collection, then _schedule_updates.                               *)
RecordCollection ==
    /\ phase = "record"
    /\ counters' = [counters EXCEPT !.transitions = @ + collection.transitions,
                                    !.episodes = @ + collection.episodes]
    /\ phase' = "schedule"
    /\ UNCHANGED <<onPolicy, rows, indexed, finished, episode, collection, used, saved, cut, runs>>

EarnedOnEverything(before, after) == \* faulty: the warm-up earns credit too
    IF onPolicy THEN UpdateCost ELSE CreditPerTransition * (after - before)
Earned(before, after) ==
    IF onPolicy THEN UpdateCost
    ELSE CreditPerTransition * (Above(after, Ready) - Above(before, Ready))

ScheduleUpdates ==
    /\ phase = "schedule"
    /\ counters' = [counters EXCEPT !.credit =
         @ + Earned(counters.transitions - collection.transitions, counters.transitions)]
    /\ phase' = "update"
    /\ UNCHANGED <<onPolicy, rows, indexed, finished, episode, collection, used, saved, cut, runs>>

ReadyRows == IF onPolicy THEN 1 ELSE Ready
CanUpdateOnRows == rows >= ReadyRows \* faulty: credit is not asked for
CanUpdate == rows >= ReadyRows /\ counters.credit >= UpdateCost

SpentNothing == counters.credit \* faulty: an update costs no credit
Spent == counters.credit - UpdateCost

PerformUpdate ==
    /\ phase = "update"
    /\ CanUpdate
    /\ counters' = [counters EXCEPT !.updates = @ + 1, !.credit = Spent]
    /\ used' = used + 1
    /\ phase' = IF (counters.updates + 1) % CheckpointEvery = 0 THEN "checkpoint" ELSE "update"
    /\ UNCHANGED <<onPolicy, rows, indexed, finished, episode, collection, saved, cut, runs>>

(* The checkpoint of an on-policy run leaves its replay out and records where
   the next episode may start.                                               *)
EpisodeIsOpen == onPolicy /\ rows > 0 /\ episode.step > 0
Checkpoint ==
    [counters |-> [counters EXCEPT !.next = counters.episodes + (IF EpisodeIsOpen THEN 1 ELSE 0)],
     rows |-> IF onPolicy THEN 0 ELSE rows,
     indexed |-> IF onPolicy THEN {} ELSE indexed,
     finished |-> IF onPolicy THEN {} ELSE finished]
WriteCheckpoint ==
    saved' = [u \in DOMAIN saved \cup {counters.updates} |->
                IF u = counters.updates THEN Checkpoint ELSE saved[u]]

SavePeriodic ==
    /\ phase = "checkpoint"
    /\ WriteCheckpoint
    /\ phase' = "update"
    /\ UNCHANGED <<onPolicy, counters, rows, indexed, finished, episode, collection, used, cut, runs>>

(* The cycle ends when the credit is spent; an evaluation that is due saves
   first.  The next off-policy episode is named after the episodes counted.  *)
EvaluationDue ==
    /\ counters.episodes \div EvaluateEvery
         > (counters.episodes - collection.episodes) \div EvaluateEvery
    /\ counters.transitions < TotalTransitions
NextPhase == IF counters.transitions >= TotalTransitions THEN "final" ELSE "collect"

FinishCycle ==
    /\ phase = "update"
    /\ ~CanUpdate
    /\ IF EvaluationDue THEN WriteCheckpoint ELSE UNCHANGED saved
    /\ phase' = NextPhase
    /\ collection' = NoCollection
    /\ episode' = IF onPolicy THEN episode ELSE AtReset(counters.episodes)
    /\ UNCHANGED <<onPolicy, counters, rows, indexed, finished, used, cut, runs>>

SaveFinal ==
    /\ phase = "final"
    /\ WriteCheckpoint
    /\ phase' = "done"
    /\ UNCHANGED <<onPolicy, counters, rows, indexed, finished, episode, collection, used, cut, runs>>

(* Ctrl+C: the counters of the last recorded collection are saved beside a
   replay that may already hold part of the next one.                        *)
InterruptTrainer ==
    /\ phase \in Alive
    /\ WriteCheckpoint
    /\ phase' = "interrupted"
    /\ cut' = cut \cup {phase}
    /\ UNCHANGED <<onPolicy, counters, rows, indexed, finished, episode, collection, used, runs>>

(* The process dies: nothing is saved.                                       *)
TrainerCrash ==
    /\ phase \in Alive
    /\ phase' = "failed"
    /\ UNCHANGED <<onPolicy, counters, rows, indexed, finished, episode, collection, used, saved, cut, runs>>

(* A new process over one of the files; restoring the replay rebuilds the step
   index, which leaves out the episodes whose last step is there.            *)
RestoreCounters(u) ==
    /\ counters' = saved[u].counters
    /\ episode' = AtReset(IF onPolicy THEN saved[u].counters.next ELSE saved[u].counters.episodes)
ResumeRun(u) ==
    /\ phase \in {"failed", "interrupted"}
    /\ runs < MaxRuns
    /\ runs' = runs + 1
    /\ u \in DOMAIN saved
    /\ RestoreCounters(u)
    /\ rows' = saved[u].rows
    /\ finished' = saved[u].finished
    /\ indexed' = {k \in saved[u].indexed : k[1] \notin saved[u].finished}
    /\ collection' = NoCollection
    /\ used' = 0
    /\ phase' = IF saved[u].counters.transitions < TotalTransitions THEN "collect" ELSE "final"
    /\ UNCHANGED <<onPolicy, saved, cut>>

Collect == \E ended \in BOOLEAN : CollectTransition(ended)
TrainerNext ==
    \/ StartRun \/ Collect \/ DuplicateStep
    \/ RecordCollection \/ ScheduleUpdates
    \/ PerformUpdate \/ SavePeriodic \/ FinishCycle \/ SaveFinal
    \/ InterruptTrainer \/ TrainerCrash
    \/ \E u \in DOMAIN saved : ResumeRun(u)

TrainerSpec == TrainerInit /\ [][TrainerNext]_trainerVars

(* The main loop keeps going while it is alive.                              *)
TrainerStep ==
    \/ Collect \/ DuplicateStep \/ RecordCollection \/ ScheduleUpdates
    \/ PerformUpdate \/ SavePeriodic \/ FinishCycle \/ SaveFinal
TrainerFairness == WF_trainerVars(TrainerStep)
TrainerFairSpec == TrainerSpec /\ TrainerFairness

-----------------------------------------------------------------------------
TrainingCounters ==
    [transitions : Nat, updates : Nat, episodes : Nat, next : Nat, credit : Nat]

(* The counters, the phase and the replay keep their types.                  *)
TrainerTypeOK ==
    /\ onPolicy \in BOOLEAN
    /\ phase \in {"new", "collect", "record", "schedule", "update", "checkpoint", "final", "done",
                  "interrupted", "failed"}
    /\ counters \in TrainingCounters
    /\ rows \in Nat
    /\ indexed \subseteq Nat \X Nat
    /\ finished \subseteq Nat
    /\ episode \in [index : Nat, step : Nat]
    /\ collection \in [transitions : Nat, episodes : Nat]
    /\ used \in Nat
    /\ runs \in 0 .. MaxRuns

(* Between two collections the updates performed and the credit left over are
   exactly what the counted transitions earned, over any number of restarts: no
   credit is lost or earned twice, and none is left unspent but by a file that
   was written before it was spent.  The exception is Ctrl+C after a collection
   was counted and before it was credited.                                   *)
CreditFollowsTransitions ==
    phase = "collect" /\ ~onPolicy /\ "schedule" \notin cut =>
        /\ counters.credit + UpdateCost * counters.updates
             = CreditPerTransition * Above(counters.transitions, Ready)
        /\ counters.credit < UpdateCost \/ \E u \in DOMAIN saved : saved[u].counters = counters

(* A finished run has counted exactly its target and, on-policy, performed one
   update for every rollout it counted, whatever was collected again after a
   restart.  The exception is Ctrl+C between counting and training.          *)
FinishedRunIsComplete ==
    phase = "done" =>
        /\ counters.transitions = TotalTransitions
        /\ onPolicy /\ cut \cap {"schedule", "update"} = {} =>
             counters.updates * RolloutLength = TotalTransitions

(* On-policy data is fresh: a rollout trains the learner once, also after a
   restart.  The exception is Ctrl+C in front of the update: the file keeps its
   credit without the rollout, and the next rollout trains the learner twice. *)
RolloutsTrainOnce == onPolicy /\ "update" \notin cut => used <= 1

(* Training adds up over restarts: credit, target and rollouts.               *)
TrainingAddsUp == CreditFollowsTransitions /\ FinishedRunIsComplete /\ RolloutsTrainOnce

(* A run resumed from a checkpoint can collect: the replay it restores holds no
   step of the episode that the restored counters name.                      *)
ResumedRunsCollect ==
    phase = "collect" => <<episode.index, episode.step>> \notin indexed

(* A run that is not stopped reaches its end.                                *)
RunsFinish == phase = "collect" ~> phase \in {"done", "interrupted", "failed"}

-----------------------------------------------------------------------------
(* The inductive invariant.                                                  *)
CheckpointFile ==
    [counters : TrainingCounters, rows : Nat, indexed : SUBSET (Nat \X Nat),
     finished : SUBSET Nat]

FilesTypeOK ==
    DOMAIN saved \subseteq Nat /\ \A u \in DOMAIN saved : saved[u] \in CheckpointFile

\* Credit and updates are what the transitions before the given number have earned.
Balanced(c, transitions) ==
    c.credit + UpdateCost * c.updates = CreditPerTransition * Above(transitions, Ready)
UncreditedIsLost == "schedule" \in cut
UntrainedIsLost == cut \cap {"schedule", "update"} # {}

\* What a file holds, whichever process wrote it and wherever it was stopped.
FilesInv ==
    \A u \in DOMAIN saved :
        LET c == saved[u].counters IN
        /\ c.transitions <= TotalTransitions
        /\ ~onPolicy => c.transitions <= saved[u].rows
        /\ ~onPolicy /\ ~UncreditedIsLost => Balanced(c, c.transitions)
        /\ onPolicy /\ "update" \notin cut => c.credit = 0
        /\ onPolicy /\ ~UntrainedIsLost => c.updates * RolloutLength = c.transitions

\* A collection never runs past the target; off-policy it is the episode itself.
CollectionInv ==
    /\ phase = "new" =>
         /\ counters = Counters /\ episode = AtReset(0) /\ collection = NoCollection
         /\ rows = 0 /\ used = 0
    /\ phase = "collect" =>
         /\ counters.transitions < TotalTransitions
         /\ onPolicy => collection.transitions < Lower(RolloutLength, Remaining)
         /\ ~onPolicy => collection.transitions = episode.step /\ episode.step < StepLimit
    /\ phase = "record" => collection.transitions \in 1 .. Remaining
    /\ phase = "schedule" => collection.transitions <= counters.transitions
    /\ phase \in {"final", "done"} => counters.transitions = TotalTransitions
    /\ counters.transitions <= TotalTransitions

\* Off-policy every counted transition is in the replay, on-policy the rollout at hand.
RowsInv ==
    /\ phase \in {"collect", "record"} /\ ~onPolicy =>
         counters.transitions + collection.transitions <= rows
    /\ phase \in {"schedule", "update", "checkpoint", "final"} /\ ~onPolicy =>
         counters.transitions <= rows
    /\ phase \in {"record", "schedule", "update", "checkpoint"} /\ onPolicy => rows > 0

\* Off-policy credit, at every point of a cycle.
CreditInv ==
    ~onPolicy =>
        /\ phase \in Alive /\ ~UncreditedIsLost =>
             Balanced(counters, IF phase = "schedule"
                                THEN counters.transitions - collection.transitions
                                ELSE counters.transitions)
        /\ phase = "collect" /\ ~UncreditedIsLost =>
             counters.credit < UpdateCost \/ \E u \in DOMAIN saved : saved[u].counters = counters

\* On-policy, a rollout is collected, credited with one update and trained on.
UseInv ==
    onPolicy /\ "update" \notin cut =>
        /\ used <= 1
        /\ phase \in {"record", "schedule"} => used = 0
        /\ phase = "checkpoint" => used = 1
        /\ phase \in Alive => counters.credit = IF phase = "update" /\ used = 0 THEN UpdateCost ELSE 0

\* One update for every rollout but the one at hand.
RolloutInv ==
    onPolicy /\ ~UntrainedIsLost =>
        /\ phase \in Alive \cup {"done"} =>
             counters.updates * RolloutLength
               + (IF phase = "schedule" \/ (phase = "update" /\ used = 0) THEN RolloutLength ELSE 0)
                 = counters.transitions
        /\ phase = "record" => collection.transitions = RolloutLength

TrainerInv ==
    TrainerTypeOK /\ FilesTypeOK /\ FilesInv /\ CollectionInv /\ RowsInv /\ CreditInv
    /\ UseInv /\ RolloutInv

=============================================================================
