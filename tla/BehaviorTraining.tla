-------------------------- MODULE BehaviorTraining --------------------------
(***************************************************************************)
(* Behavior cloning from recorded laps (commands/behavior_training.py and  *)
(* behavior_validation.py): a fixed number of batches, a validation every  *)
(* so many of them, the selection of the best validated policy, the two    *)
(* checkpoint files of a run and the run that goes on from one of them.    *)
(*                                                                         *)
(* Training is deterministic: batches are drawn by a seeded generator that *)
(* is part of the checkpoint, as are the optimizer, the learning-rate      *)
(* schedule and every random state.  The learner is therefore what it has  *)
(* been through, the sequence of batches drawn and validations seen, and   *)
(* what a validation finds is a function of how far it is, fixed at the    *)
(* start and unknown to the code.                                          *)
(***************************************************************************)
EXTENDS Integers, Sequences, SequencesExt

CONSTANTS Nothing,              \* no file, no selected policy
          MaxSteps,             \* max_steps
          ValidationInterval,   \* validation_interval
          Patience,             \* early_stopping_patience
          Losses,               \* losses a validation may find
          Scores,               \* control scores a validation may find
          Infinity,             \* a loss larger than any that is found
          MaxTrainings          \* bound: times the command is started

Validations == MaxSteps \div ValidationInterval
Outcome == [loss : Losses, score : Scores]
Directory == 1 .. MaxTrainings         \* a run directory per run identifier

\* _BehaviorCloningSelection and the contents of the two files.
SelectionType ==
    [minimumLoss : Losses \cup {Infinity}, score : Scores \cup {-1},
     loss : Losses \cup {Infinity}, state : Seq(0 .. MaxSteps) \cup {Nothing}, stale : Nat]
BestFile == [step : 1 .. MaxSteps, state : Seq(0 .. MaxSteps) \cup {Nothing}]
LatestFile ==
    [learner : Seq(0 .. MaxSteps), step : 1 .. MaxSteps, bestStep : 0 .. MaxSteps,
     generator : 1 .. MaxSteps, selection : SelectionType]

ASSUME CloningAssumption ==
    /\ {MaxSteps, ValidationInterval, Patience} \subseteq Nat \ {0}
    /\ MaxTrainings \in Nat
    /\ Scores \subseteq Nat
    /\ Infinity \in Nat
    /\ \A l \in Losses : l \in Nat /\ 11 * l < 10 * Infinity
    /\ Nothing \notin Directory \cup BestFile \cup LatestFile

VARIABLES
    outcomes,                     \* what each validation finds
    phase,                        \* where the command is
    directory,                    \* its run directory
    done,                         \* steps it has completed
    trained,                      \* batches and validations the learner has seen; 0 is a validation
    drawn,                        \* state of the batch generator: batches drawn so far
    selection,                    \* _BehaviorCloningSelection
    bestStep,                     \* best_step
    bestFile,                     \* bc-best-validation.pt of each directory
    latestFile,                   \* bc-latest.pt of each directory
    runs,                         \* times the command was started
    inherited                     \* directories of runs resumed from another directory

memoryVars == <<directory, done, trained, drawn, selection, bestStep>>
fileVars == <<bestFile, latestFile>>
cloningVars == <<outcomes, phase, memoryVars, fileVars, runs, inherited>>

-----------------------------------------------------------------------------

NoSelection ==
    [minimumLoss |-> Infinity, score |-> -1, loss |-> Infinity, state |-> Nothing, stale |-> 0]

Smaller(a, b) == IF a <= b THEN a ELSE b

\* Within ten percent of the smallest loss.
Eligible(loss, minimum) == 10 * loss <= 11 * minimum

\* A validation improves on the selection when its loss is eligible and the selected policy
\* no longer is, or scores lower.
Improved(s, found) ==
    LET minimum == Smaller(s.minimumLoss, found.loss)
    IN  /\ Eligible(found.loss, minimum)
        /\ ~Eligible(s.loss, minimum) \/ found.score > s.score

\* The selection after a validation of the learner in the given state.
UpdatedSelection(s, found, state) ==
    LET minimum == Smaller(s.minimumLoss, found.loss)
    IN  IF Improved(s, found)
        THEN [minimumLoss |-> minimum, score |-> found.score, loss |-> found.loss,
              state |-> state, stale |-> 0]
        ELSE [minimumLoss |-> minimum, score |-> s.score, loss |-> s.loss,
              state |-> s.state, stale |-> s.stale + 1]

\* What is left of a command that is not running.
ClearMemory ==
    /\ directory' = Nothing
    /\ done' = 0
    /\ trained' = <<>>
    /\ drawn' = 0
    /\ selection' = NoSelection
    /\ bestStep' = 0

CloningInit ==
    /\ outcomes \in [1 .. Validations -> Outcome]
    /\ phase = "idle"
    /\ directory = Nothing
    /\ done = 0
    /\ trained = <<>>
    /\ drawn = 0
    /\ selection = NoSelection
    /\ bestStep = 0
    /\ bestFile = [d \in Directory |-> Nothing]
    /\ latestFile = [d \in Directory |-> Nothing]
    /\ runs = 0
    /\ inherited = {}

-----------------------------------------------------------------------------

\* A new attempt takes a run identifier no directory has.
StartCloning ==
    /\ phase = "idle" /\ runs < MaxTrainings
    /\ runs' = runs + 1
    /\ phase' = "train"
    /\ directory' = runs'
    /\ UNCHANGED <<outcomes, done, trained, drawn, selection, bestStep, fileVars, inherited>>

\* Faulty: the batch generator is seeded as for a new run.
RestoreReseeded(checkpoint) ==
    /\ trained' = checkpoint.learner
    /\ drawn' = 0
    /\ selection' = checkpoint.selection
    /\ bestStep' = checkpoint.bestStep
    /\ done' = checkpoint.step

\* What a resumed command takes from the file.
RestoreRuntime(checkpoint) ==
    /\ trained' = checkpoint.learner
    /\ drawn' = checkpoint.generator
    /\ selection' = checkpoint.selection
    /\ bestStep' = checkpoint.bestStep
    /\ done' = checkpoint.step

\* --resume goes on in the directory of the file, or, when the configured run identifier is
\* another one, in a directory of its own.
ResumeCloning(d) ==
    /\ phase = "idle" /\ runs < MaxTrainings
    /\ latestFile[d] # Nothing
    /\ runs' = runs + 1
    /\ phase' = "train"
    /\ RestoreRuntime(latestFile[d])
    /\ \/ directory' = d /\ UNCHANGED inherited
       \/ directory' = runs' /\ inherited' = inherited \cup {runs'}
    /\ UNCHANGED <<outcomes, fileVars>>

TrainBatch ==
    /\ phase = "train" /\ done < MaxSteps
    /\ drawn' = drawn + 1
    /\ trained' = Append(trained, drawn')
    /\ done' = done + 1
    /\ phase' = IF done' % ValidationInterval = 0 THEN "validate" ELSE "train"
    /\ UNCHANGED <<outcomes, directory, selection, bestStep, fileVars, runs, inherited>>

\* The validation steps the learning-rate schedule before the learner's state is captured.
Validate ==
    /\ phase = "validate"
    /\ trained' = Append(trained, 0)
    /\ LET found == outcomes[done \div ValidationInterval]
       IN  /\ selection' = UpdatedSelection(selection, found, trained')
           /\ phase' = IF Improved(selection, found) THEN "save best" ELSE "save latest"
    /\ UNCHANGED <<outcomes, directory, done, drawn, bestStep, fileVars, runs, inherited>>

\* Both files are replaced atomically, the selected policy first.
SaveBest ==
    /\ phase = "save best"
    /\ bestStep' = done
    /\ bestFile' = [bestFile EXCEPT ![directory] = [step |-> done, state |-> selection.state]]
    /\ phase' = "save latest"
    /\ UNCHANGED <<outcomes, directory, done, trained, drawn, selection, latestFile,
                   runs, inherited>>

LatestCheckpoint ==
    [learner |-> trained, step |-> done, bestStep |-> bestStep, generator |-> drawn,
     selection |-> selection]

SaveLatest ==
    /\ phase = "save latest"
    /\ latestFile' = [latestFile EXCEPT ![directory] = LatestCheckpoint]
    /\ phase' = IF selection.stale >= Patience THEN "finish" ELSE "train"
    /\ UNCHANGED <<outcomes, memoryVars, bestFile, runs, inherited>>

\* After the last step or an early stop the selected policy is loaded and reported; a run
\* that was never validated raises.
FinishTraining ==
    /\ phase = "finish" \/ (phase = "train" /\ done = MaxSteps)
    /\ phase' = IF selection.state = Nothing THEN "failed" ELSE "complete"
    /\ trained' = IF selection.state = Nothing THEN trained ELSE selection.state
    /\ UNCHANGED <<outcomes, directory, done, drawn, selection, bestStep, fileVars,
                   runs, inherited>>

\* The process ends, of itself or killed or interrupted or failing to write at any point.
EndProcess ==
    /\ phase # "idle"
    /\ phase' = "idle"
    /\ ClearMemory
    /\ UNCHANGED <<outcomes, fileVars, runs, inherited>>

CloningNext ==
    \/ StartCloning
    \/ \E d \in Directory : ResumeCloning(d)
    \/ TrainBatch
    \/ Validate
    \/ SaveBest
    \/ SaveLatest
    \/ FinishTraining
    \/ EndProcess

CloningSpec == CloningInit /\ [][CloningNext]_cloningVars

-----------------------------------------------------------------------------

\* The variables have their types.
CloningTypeOK ==
    /\ outcomes \in [1 .. Validations -> Outcome]
    /\ phase \in {"idle", "train", "validate", "save best", "save latest", "finish",
                  "complete", "failed"}
    /\ directory \in Directory \cup {Nothing}
    /\ {done, drawn, bestStep} \subseteq 0 .. MaxSteps
    /\ trained \in Seq(0 .. MaxSteps)
    /\ selection \in SelectionType
    /\ bestFile \in [Directory -> BestFile \cup {Nothing}]
    /\ latestFile \in [Directory -> LatestFile \cup {Nothing}]
    /\ runs \in 0 .. MaxTrainings
    /\ inherited \subseteq Directory

\* A run that was never interrupted: its learner after n steps and v validations, and its
\* selection after v validations.
Experience(n, v) ==
    LET Steps(i) == (IF i % ValidationInterval = 0 /\ i \div ValidationInterval <= v THEN <<i, 0>> ELSE <<i>>)
    IN  FlattenSeq([i \in 1 .. n |-> Steps(i)])

Uninterrupted[v \in 0 .. Validations] ==
    IF v = 0 THEN NoSelection
    ELSE UpdatedSelection(Uninterrupted[v - 1], outcomes[v], Experience(v * ValidationInterval, v))

\* Validations behind the running command.
Validated == IF phase = "validate" THEN done \div ValidationInterval - 1 ELSE done \div ValidationInterval

\* However often it was killed and resumed, a run is where one that was never interrupted
\* would be: same batches in the same order, same learning-rate schedule, same selection
\* (readme/imitation-learning.md:199 calls bc-latest.pt exact-resume state).
ResumesAreExact ==
    phase \in {"train", "validate", "save best", "save latest", "finish"} =>
        /\ drawn = done
        /\ trained = Experience(done, Validated)
        /\ selection = Uninterrupted[Validated]
        /\ selection.state # Nothing /\ phase # "save best" =>
               selection.state = Experience(bestStep, bestStep \div ValidationInterval)

\* The policy a directory's training state has selected is in its file of the best policy;
\* only a kill between the two writes leaves that file ahead.  A run that was resumed into a
\* directory of its own starts without the file.
BestPolicyIsOnDisk ==
    \A d \in Directory \ inherited :
        latestFile[d] # Nothing =>
            /\ bestFile[d] # Nothing
            /\ \/ bestFile[d].state = latestFile[d].selection.state
               \/ bestFile[d].step > latestFile[d].step

\* The selected policy stays within ten percent of the smallest loss seen, although that
\* loss keeps falling after it was selected.
SelectedPolicyIsEligible ==
    selection.state # Nothing => Eligible(selection.loss, selection.minimumLoss)

\* What cloning promises across kills and resumes (behavior_training.py:67-137).
CloningResumes == ResumesAreExact /\ BestPolicyIsOnDisk /\ SelectedPolicyIsEligible

=============================================================================
