--------------------------- MODULE Selection_proofs ---------------------------
(***************************************************************************)
(* Proofs about the two places where a trained policy is selected and      *)
(* kept.  Behavior cloning: for any losses and scores, any interval, and   *)
(* any kills and resumes, the policy it selects stays eligible and is on   *)
(* disk.  The evaluations of a run: for any results, any number of         *)
(* remembered policies and required batches, and any number of updates,    *)
(* batches and learner processes, a rank has its leader.                   *)
(***************************************************************************)
EXTENDS MCSelection, SumTheorems

\* The types, in three parts.
ProcessOK ==
    /\ outcomes \in [1 .. Validations -> Outcome]
    /\ phase \in {"idle", "train", "validate", "save best", "save latest", "finish",
                  "complete", "failed"}
    /\ directory \in Directory \cup {Nothing}
    /\ runs \in 0 .. MaxTrainings
    /\ inherited \subseteq Directory
MemoryOK ==
    /\ {done, drawn, bestStep} \subseteq 0 .. MaxSteps
    /\ trained \in Seq(0 .. MaxSteps)
    /\ selection \in SelectionType
FilesOK ==
    /\ bestFile \in [Directory -> BestFile \cup {Nothing}]
    /\ latestFile \in [Directory -> LatestFile \cup {Nothing}]

\* The generator is where the steps are, in memory and in the files, and a validation comes at
\* a multiple of the interval.
StepsInv ==
    /\ drawn = done
    /\ \A d \in Directory :
           latestFile[d] # Nothing => latestFile[d].generator = latestFile[d].step
    /\ phase \in {"validate", "save best", "save latest"} =>
           done # 0 /\ done % ValidationInterval = 0 /\ directory \in Directory
    /\ phase = "train" => directory \in Directory

\* A selection of something eligible, in memory and in the files.
SoundSelection(s) == s.state # Nothing => Eligible(s.loss, s.minimumLoss)
SelectionsInv ==
    /\ SoundSelection(selection)
    /\ \A d \in Directory : latestFile[d] # Nothing => SoundSelection(latestFile[d].selection)

CloningInv == ProcessOK /\ MemoryOK /\ FilesOK /\ StepsInv /\ SelectionsInv

-----------------------------------------------------------------------------

\* The number of the validation at a multiple of the interval.
LEMMA ValidationNumber ==
    ASSUME NEW n \in 1 .. MaxSteps, n % ValidationInterval = 0
    PROVE  n \div ValidationInterval \in 1 .. Validations
  <1>1. MaxSteps \in Nat \ {0} /\ ValidationInterval \in Nat \ {0}
    BY CloningAssumption
  <1>2. ASSUME NEW a \in Nat
        PROVE  /\ a \div ValidationInterval \in Nat
               /\ a = ValidationInterval * (a \div ValidationInterval) + (a % ValidationInterval)
               /\ a % ValidationInterval \in 0 .. ValidationInterval - 1
    BY <1>1
  <1> DEFINE k == ValidationInterval
             q == n \div ValidationInterval
             v == MaxSteps \div ValidationInterval
             r == MaxSteps % ValidationInterval
  <1>3. /\ k \in Nat \ {0} /\ q \in Nat /\ v \in Nat /\ r \in 0 .. k - 1
        /\ n = k * q /\ MaxSteps = k * v + r /\ n <= MaxSteps /\ n \in Nat \ {0}
    BY <1>1, <1>2, SMT
  <1> HIDE DEF k, q, v, r
  <1>4. q # 0
    BY <1>3, SMT
  <1>5. q <= v
    <2>1. SUFFICES ASSUME q >= v + 1 PROVE FALSE
      BY <1>3, SMT
    <2>2. PICK e \in Nat : q = v + 1 + e
      <3>1. q - v - 1 \in Nat /\ q = v + 1 + (q - v - 1)
        BY <2>1, <1>3, SMT
      <3> QED BY <3>1
    <2>3. k * q = k * v + k + k * e
      BY <2>2, <1>3, SMT
    <2>4. k * e \in Nat /\ k * v \in Nat
      BY <2>2, <1>3, SMT
    <2> QED BY <2>3, <2>4, <1>3, SMT
  <1>6. q \in 1 .. v
    BY <1>3, <1>4, <1>5, SMT
  <1> QED BY <1>6 DEF q, v, Validations

\* A step that was done has a number.
LEMMA StepNumber == ASSUME NEW n \in 0 .. MaxSteps, n # 0 PROVE n \in 1 .. MaxSteps
  <1>1. MaxSteps \in Nat
    BY CloningAssumption
  <1> QED BY <1>1

\* A validation leaves a selection of its type, and a sound one sound: a policy that stays
\* selected is still eligible, and a smaller loss that makes it ineligible is itself selected.
LEMMA UpdatedSound ==
    ASSUME NEW s \in SelectionType, NEW found \in Outcome, NEW state \in Seq(0 .. MaxSteps),
           SoundSelection(s)
    PROVE  /\ UpdatedSelection(s, found, state) \in SelectionType
           /\ SoundSelection(UpdatedSelection(s, found, state))
  <1>1. /\ Losses \subseteq Nat /\ Scores \subseteq Nat /\ Infinity \in Nat
    BY CloningAssumption
  <1>2. /\ s.minimumLoss \in Losses \cup {Infinity} /\ s.loss \in Losses \cup {Infinity}
        /\ s.score \in Scores \cup {-1} /\ s.stale \in Nat
        /\ s.state \in Seq(0 .. MaxSteps) \cup {Nothing}
        /\ found.loss \in Losses /\ found.score \in Scores
    BY DEF SelectionType, Outcome
  <1> DEFINE minimum == Smaller(s.minimumLoss, found.loss)
  <1>3. /\ minimum \in Losses \cup {Infinity}
        /\ minimum = found.loss \/ minimum = s.minimumLoss
    BY <1>2 DEF Smaller
  <1>4. CASE Improved(s, found)
    <2>1. UpdatedSelection(s, found, state) =
              [minimumLoss |-> minimum, score |-> found.score, loss |-> found.loss,
               state |-> state, stale |-> 0]
      BY <1>4 DEF UpdatedSelection
    <2>2. Eligible(found.loss, minimum)
      BY <1>4 DEF Improved
    <2> HIDE DEF minimum
    <2> QED BY <2>1, <2>2, <1>2, <1>3 DEF SelectionType, SoundSelection
  <1>5. CASE ~Improved(s, found)
    <2>1. UpdatedSelection(s, found, state) =
              [minimumLoss |-> minimum, score |-> s.score, loss |-> s.loss,
               state |-> s.state, stale |-> s.stale + 1]
      BY <1>5 DEF UpdatedSelection
    <2>2. s.state # Nothing => Eligible(s.loss, minimum)
      <3>1. Eligible(found.loss, found.loss)
        <4> DEFINE loss == found.loss
        <4>1. loss \in Nat
          BY <1>1, <1>2
        <4> HIDE DEF loss
        <4>2. Eligible(loss, loss)
          BY <4>1 DEF Eligible
        <4> QED BY <4>2 DEF loss
      <3>2. CASE Eligible(found.loss, minimum)
        BY <3>2, <1>5 DEF Improved
      <3>3. CASE ~Eligible(found.loss, minimum)
        <4>1. minimum = s.minimumLoss
          BY <3>1, <3>3, <1>3
        <4> HIDE DEF minimum
        <4> QED BY <4>1 DEF SoundSelection
      <3> QED BY <3>2, <3>3
    <2>3. UpdatedSelection(s, found, state) \in SelectionType
      <3> HIDE DEF minimum
      <3>1. s.stale + 1 \in Nat
        BY <1>2
      <3> QED BY <2>1, <3>1, <1>2, <1>3 DEF SelectionType
    <2>4. /\ UpdatedSelection(s, found, state).state = s.state
          /\ UpdatedSelection(s, found, state).loss = s.loss
          /\ UpdatedSelection(s, found, state).minimumLoss = minimum
      <3> HIDE DEF minimum
      <3> QED BY <2>1
    <2> HIDE DEF minimum
    <2> QED BY <2>2, <2>3, <2>4 DEF SoundSelection
  <1> QED BY <1>4, <1>5

\* Nothing selected is sound.
LEMMA NoSelectionSound == NoSelection \in SelectionType /\ SoundSelection(NoSelection)
  BY DEF NoSelection, SelectionType, SoundSelection

-----------------------------------------------------------------------------

LEMMA CloningStarts == CloningInit => CloningInv
  <1> SUFFICES ASSUME CloningInit PROVE CloningInv
    OBVIOUS
  <1>1. /\ MaxSteps \in Nat /\ MaxTrainings \in Nat
    BY CloningAssumption
  <1>2. <<>> \in Seq(0 .. MaxSteps)
    OBVIOUS
  <1>3. ProcessOK
    BY <1>1 DEF CloningInit, ProcessOK
  <1>4. MemoryOK
    BY <1>1, <1>2, NoSelectionSound DEF CloningInit, MemoryOK
  <1>5. FilesOK
    BY DEF CloningInit, FilesOK
  <1>6. StepsInv
    BY DEF CloningInit, StepsInv
  <1>7. SelectionsInv
    BY NoSelectionSound DEF CloningInit, SelectionsInv
  <1> QED BY <1>3, <1>4, <1>5, <1>6, <1>7 DEF CloningInv

LEMMA StartInv == CloningInv /\ StartCloning => CloningInv'
  <1> SUFFICES ASSUME CloningInv, StartCloning PROVE CloningInv'
    OBVIOUS
  <1> USE DEF CloningInv
  <1>1. runs' \in 0 .. MaxTrainings /\ directory' \in Directory
    BY CloningAssumption DEF StartCloning, ProcessOK, Directory
  <1>2. ProcessOK'
    BY <1>1 DEF StartCloning, ProcessOK
  <1>3. MemoryOK'
    BY DEF StartCloning, MemoryOK
  <1>4. FilesOK'
    BY DEF StartCloning, FilesOK, fileVars
  <1>5. StepsInv'
    BY <1>1 DEF StartCloning, StepsInv, fileVars
  <1>6. SelectionsInv'
    BY DEF StartCloning, SelectionsInv, fileVars
  <1> QED BY <1>2, <1>3, <1>4, <1>5, <1>6

LEMMA ResumeInv == ASSUME NEW d \in Directory PROVE CloningInv /\ ResumeCloning(d) => CloningInv'
  <1> SUFFICES ASSUME CloningInv, ResumeCloning(d) PROVE CloningInv'
    OBVIOUS
  <1> USE DEF CloningInv
  <1>1. latestFile[d] # Nothing /\ latestFile[d] \in LatestFile
    BY DEF ResumeCloning, FilesOK
  <1>2. runs' \in 0 .. MaxTrainings /\ runs' \in Directory
    BY CloningAssumption DEF ResumeCloning, ProcessOK, Directory
  <1>3. directory' \in Directory /\ inherited' \subseteq Directory
    BY <1>2 DEF ResumeCloning, ProcessOK
  <1>4. ProcessOK'
    BY <1>2, <1>3 DEF ResumeCloning, ProcessOK
  <1>5. MemoryOK'
    BY <1>1, CloningAssumption DEF ResumeCloning, RestoreRuntime, MemoryOK, LatestFile
  <1>6. FilesOK'
    BY DEF ResumeCloning, FilesOK, fileVars
  <1>7. StepsInv'
    BY <1>1, <1>3 DEF ResumeCloning, RestoreRuntime, StepsInv, fileVars
  <1>8. SelectionsInv'
    BY <1>1 DEF ResumeCloning, RestoreRuntime, SelectionsInv, fileVars
  <1> QED BY <1>4, <1>5, <1>6, <1>7, <1>8

LEMMA TrainInv == CloningInv /\ TrainBatch => CloningInv'
  <1> SUFFICES ASSUME CloningInv, TrainBatch PROVE CloningInv'
    OBVIOUS
  <1> USE DEF CloningInv
  <1>1. /\ done' \in 0 .. MaxSteps /\ done' # 0 /\ drawn' = done'
    BY CloningAssumption DEF TrainBatch, MemoryOK, StepsInv
  <1>2. trained' \in Seq(0 .. MaxSteps)
    BY <1>1 DEF TrainBatch, MemoryOK
  <1>3. ProcessOK'
    BY DEF TrainBatch, ProcessOK
  <1>4. MemoryOK'
    BY <1>1, <1>2 DEF TrainBatch, MemoryOK
  <1>5. FilesOK'
    BY DEF TrainBatch, FilesOK, fileVars
  <1>6. StepsInv'
    BY <1>1 DEF TrainBatch, StepsInv, fileVars
  <1>7. SelectionsInv'
    BY DEF TrainBatch, SelectionsInv, fileVars
  <1> QED BY <1>3, <1>4, <1>5, <1>6, <1>7

LEMMA ValidateInv == CloningInv /\ Validate => CloningInv'
  <1> SUFFICES ASSUME CloningInv, Validate PROVE CloningInv'
    OBVIOUS
  <1> USE DEF CloningInv
  <1> DEFINE found == outcomes[done \div ValidationInterval]
  <1>1. done \in 1 .. MaxSteps /\ done % ValidationInterval = 0
    BY StepNumber DEF Validate, MemoryOK, StepsInv
  <1>2. found \in Outcome
    BY <1>1, ValidationNumber DEF ProcessOK
  <1>3. 0 \in 0 .. MaxSteps
    BY CloningAssumption
  <1>4. trained' \in Seq(0 .. MaxSteps)
    <2>1. trained \in Seq(0 .. MaxSteps) /\ trained' = Append(trained, 0)
      BY DEF Validate, MemoryOK
    <2> QED BY <2>1, <1>3
  <1>5. selection' = UpdatedSelection(selection, found, trained')
    BY DEF Validate
  <1> HIDE DEF found
  <1>6. selection' \in SelectionType /\ SoundSelection(selection')
    BY <1>2, <1>4, <1>5, UpdatedSound DEF MemoryOK, SelectionsInv
  <1>7. phase' \in {"save best", "save latest"}
    BY DEF Validate
  <1>8. ProcessOK'
    BY <1>7 DEF Validate, ProcessOK
  <1>9. MemoryOK'
    BY <1>4, <1>6 DEF Validate, MemoryOK
  <1>10. FilesOK'
    BY DEF Validate, FilesOK, fileVars
  <1>11. StepsInv'
    BY <1>7 DEF Validate, StepsInv, fileVars
  <1>12. SelectionsInv'
    BY <1>6 DEF Validate, SelectionsInv, fileVars
  <1> QED BY <1>8, <1>9, <1>10, <1>11, <1>12

LEMMA SaveBestInv == CloningInv /\ SaveBest => CloningInv'
  <1> SUFFICES ASSUME CloningInv, SaveBest PROVE CloningInv'
    OBVIOUS
  <1> USE DEF CloningInv
  <1>1. done \in 1 .. MaxSteps /\ directory \in Directory
    BY StepNumber DEF SaveBest, MemoryOK, StepsInv
  <1>2. selection.state \in Seq(0 .. MaxSteps) \cup {Nothing}
    BY DEF MemoryOK, SelectionType
  <1>3. [step |-> done, state |-> selection.state] \in BestFile
    BY <1>1, <1>2 DEF BestFile
  <1>4. ProcessOK'
    BY DEF SaveBest, ProcessOK
  <1>5. MemoryOK'
    BY DEF SaveBest, MemoryOK
  <1>6. FilesOK'
    BY <1>3 DEF SaveBest, FilesOK
  <1>7. StepsInv'
    BY <1>1 DEF SaveBest, StepsInv
  <1>8. SelectionsInv'
    BY DEF SaveBest, SelectionsInv
  <1> QED BY <1>4, <1>5, <1>6, <1>7, <1>8

LEMMA SaveLatestInv == CloningInv /\ SaveLatest => CloningInv'
  <1> SUFFICES ASSUME CloningInv, SaveLatest PROVE CloningInv'
    OBVIOUS
  <1> USE DEF CloningInv
  <1>1. done \in 1 .. MaxSteps /\ directory \in Directory /\ drawn = done
    BY StepNumber DEF SaveLatest, MemoryOK, StepsInv
  <1>2. LatestCheckpoint \in LatestFile
    BY <1>1 DEF LatestCheckpoint, LatestFile, MemoryOK
  <1>3. /\ LatestCheckpoint.generator = LatestCheckpoint.step
        /\ LatestCheckpoint.selection = selection
    BY <1>1 DEF LatestCheckpoint
  <1>4. \A d \in Directory :
            latestFile'[d] = IF d = directory THEN LatestCheckpoint ELSE latestFile[d]
    BY DEF SaveLatest, FilesOK
  <1>5. ProcessOK'
    BY DEF SaveLatest, ProcessOK, memoryVars
  <1>6. MemoryOK'
    BY DEF SaveLatest, MemoryOK, memoryVars
  <1>7. FilesOK'
    BY <1>2 DEF SaveLatest, FilesOK
  <1>8. phase' \in {"finish", "train"} /\ done' = done /\ drawn' = drawn /\ directory' = directory
    BY DEF SaveLatest, memoryVars
  <1>9. StepsInv'
    BY <1>1, <1>3, <1>4, <1>8 DEF StepsInv
  <1>10. SelectionsInv'
    BY <1>3, <1>4 DEF SaveLatest, SelectionsInv, memoryVars
  <1> QED BY <1>5, <1>6, <1>7, <1>9, <1>10

LEMMA FinishInv == CloningInv /\ FinishTraining => CloningInv'
  <1> SUFFICES ASSUME CloningInv, FinishTraining PROVE CloningInv'
    OBVIOUS
  <1> USE DEF CloningInv
  <1>1. trained' \in Seq(0 .. MaxSteps)
    BY DEF FinishTraining, MemoryOK, SelectionType
  <1>2. phase' \in {"failed", "complete"}
    BY DEF FinishTraining
  <1>3. ProcessOK'
    BY <1>2 DEF FinishTraining, ProcessOK
  <1>4. MemoryOK'
    BY <1>1 DEF FinishTraining, MemoryOK
  <1>5. FilesOK'
    BY DEF FinishTraining, FilesOK, fileVars
  <1>6. StepsInv'
    BY <1>2 DEF FinishTraining, StepsInv, fileVars
  <1>7. SelectionsInv'
    BY DEF FinishTraining, SelectionsInv, fileVars
  <1> QED BY <1>3, <1>4, <1>5, <1>6, <1>7

LEMMA EndInv == CloningInv /\ EndProcess => CloningInv'
  <1> SUFFICES ASSUME CloningInv, EndProcess PROVE CloningInv'
    OBVIOUS
  <1> USE DEF CloningInv
  <1>1. <<>> \in Seq(0 .. MaxSteps) /\ 0 \in 0 .. MaxSteps
    BY CloningAssumption
  <1>2. ProcessOK'
    BY DEF EndProcess, ClearMemory, ProcessOK
  <1>3. MemoryOK'
    BY <1>1, NoSelectionSound DEF EndProcess, ClearMemory, MemoryOK
  <1>4. FilesOK'
    BY DEF EndProcess, FilesOK, fileVars
  <1>5. StepsInv'
    BY DEF EndProcess, ClearMemory, StepsInv, fileVars
  <1>6. SelectionsInv'
    BY NoSelectionSound DEF EndProcess, ClearMemory, SelectionsInv, fileVars
  <1> QED BY <1>2, <1>3, <1>4, <1>5, <1>6

LEMMA StutterInv == CloningInv /\ UNCHANGED cloningVars => CloningInv'
  BY DEF CloningInv, cloningVars, memoryVars, fileVars, ProcessOK, MemoryOK, FilesOK, StepsInv,
         SelectionsInv

-----------------------------------------------------------------------------

\* The generator's place, the files' contents and the soundness of every selection, in memory
\* and on disk, are inductive.
THEOREM CloningInductive == CloningSpec => []CloningInv
  <1>1. CloningInv /\ [CloningNext]_cloningVars => CloningInv'
    BY StartInv, ResumeInv, TrainInv, ValidateInv, SaveBestInv, SaveLatestInv, FinishInv, EndInv,
       StutterInv DEF CloningNext
  <1> QED BY CloningStarts, <1>1, PTL DEF CloningSpec

\* The variables keep their types.
THEOREM CloningTypeCorrect == CloningSpec => []CloningTypeOK
  <1>1. CloningInv => CloningTypeOK
    BY DEF CloningInv, ProcessOK, MemoryOK, FilesOK, CloningTypeOK
  <1> QED BY CloningInductive, <1>1, PTL

\* The selected policy is within ten percent of the smallest loss found, whatever the
\* validations find and however often training is killed and resumed
\* (behavior_validation.py:101-204).
THEOREM Eligibility == CloningSpec => []SelectedPolicyIsEligible
  <1>1. CloningInv => SelectedPolicyIsEligible
    BY DEF CloningInv, SelectionsInv, SoundSelection, SelectedPolicyIsEligible
  <1> QED BY CloningInductive, <1>1, PTL

-----------------------------------------------------------------------------

\* What a directory's training state says, also before it has one.
LatestStep(d) == IF latestFile[d] = Nothing THEN 0 ELSE latestFile[d].step
LatestSelection(d) == IF latestFile[d] = Nothing THEN NoSelection ELSE latestFile[d].selection

\* The validation at step n selects a policy when it follows the training state of d.
Found(n) == outcomes[n \div ValidationInterval]
Selects(d, n) == Improved(LatestSelection(d), Found(n))

\* Directories no run has yet are empty, and training states are written at validations.
PlacesInv ==
    /\ \A d \in Directory : d > runs => latestFile[d] = Nothing /\ bestFile[d] = Nothing
    /\ directory \in Directory => directory <= runs
    /\ phase = "idle" => done = 0 /\ selection = NoSelection
    /\ \A d \in Directory :
           latestFile[d] # Nothing => latestFile[d].step % ValidationInterval = 0

\* The file of the best policy is ahead only by the next validation, which selects that policy
\* again; otherwise both files agree.
BestAhead(d) == bestFile[d] # Nothing /\ bestFile[d].step > LatestStep(d)
PairOK(d) ==
    /\ BestAhead(d) => /\ bestFile[d].step = LatestStep(d) + ValidationInterval
                       /\ Selects(d, bestFile[d].step)
    /\ ~BestAhead(d) /\ latestFile[d] # Nothing =>
           bestFile[d] # Nothing /\ bestFile[d].state = latestFile[d].selection.state
PairsInv == \A d \in Directory : d \notin inherited => PairOK(d)

\* The run is between the training state on disk and the validation after it.
RunOK(d) ==
    /\ phase = "train" =>
           /\ LatestStep(d) <= done /\ done < LatestStep(d) + ValidationInterval
           /\ selection = LatestSelection(d)
    /\ phase = "validate" =>
           done = LatestStep(d) + ValidationInterval /\ selection = LatestSelection(d)
    /\ phase = "save best" => done = LatestStep(d) + ValidationInterval /\ Selects(d, done)
    /\ phase = "save latest" =>
           /\ done = LatestStep(d) + ValidationInterval
           /\ Selects(d, done) => /\ bestFile[d] # Nothing
                                  /\ bestFile[d].step = done
                                  /\ bestFile[d].state = selection.state
           /\ ~Selects(d, done) => /\ latestFile[d] # Nothing
                                   /\ selection.state = latestFile[d].selection.state
RunInv == directory \in Directory /\ directory \notin inherited => RunOK(directory)

DiskInv == PlacesInv /\ PairsInv /\ RunInv

\* A multiple of the interval is followed by the next one after as many steps.
LEMMA NextMultiple ==
    ASSUME NEW a \in Nat, NEW b \in Nat, a % ValidationInterval = 0,
           a < b, b <= a + ValidationInterval
    PROVE  b % ValidationInterval = 0 <=> b = a + ValidationInterval
  <1> DEFINE k == ValidationInterval
             p == a \div ValidationInterval
             q == b \div ValidationInterval
             r == b % ValidationInterval
  <1>1. ValidationInterval \in Nat \ {0}
    BY CloningAssumption
  <1>2. /\ k \in Nat \ {0} /\ p \in Nat /\ q \in Nat /\ r \in 0 .. k - 1
        /\ a = k * p /\ b = k * q + r /\ k * p < b /\ b <= k * p + k
    <2>1. /\ p \in Nat /\ q \in Nat /\ r \in 0 .. k - 1
          /\ a = k * p + (a % k) /\ b = k * q + r
      BY <1>1
    <2> QED BY <1>1, <2>1
  <1> HIDE DEF k, p, q, r
  <1>3. r = 0 => b = k * p + k
    <2>1. SUFFICES ASSUME r = 0 PROVE q = p + 1
      <3>1. q = p + 1 => k * q = k * p + k
        BY <1>2
      <3> QED BY <2>1, <3>1, <1>2
    <2>2. q > p
      <3>1. SUFFICES ASSUME q <= p PROVE FALSE
        BY <1>2
      <3>2. p - q \in Nat /\ k * p = k * q + k * (p - q)
        BY <3>1, <1>2
      <3>3. k * (p - q) \in Nat /\ k * q \in Nat
        BY <3>2, <1>2
      <3> QED BY <3>2, <3>3, <2>1, <1>2
    <2>3. q < p + 2
      <3>1. SUFFICES ASSUME q >= p + 2 PROVE FALSE
        BY <1>2
      <3>2. q - p - 2 \in Nat /\ k * q = k * p + k + k + k * (q - p - 2)
        BY <3>1, <1>2
      <3>3. k * (q - p - 2) \in Nat /\ k * p \in Nat
        BY <3>2, <1>2
      <3> QED BY <3>2, <3>3, <2>1, <1>2
    <2> QED BY <2>2, <2>3, <1>2
  <1>4. b = k * p + k => r = 0
    <2>1. SUFFICES ASSUME b = k * p + k PROVE r = 0
      OBVIOUS
    <2>2. k * (p + 1) = k * p + k /\ k * p \in Nat /\ k * q \in Nat
      BY <1>2
    <2>3. k * q + r = k * (p + 1)
      BY <2>1, <2>2, <1>2
    <2>4. q < p + 2
      <3>1. SUFFICES ASSUME q >= p + 2 PROVE FALSE
        BY <1>2
      <3>2. q - p - 2 \in Nat /\ k * q = k * p + k + k + k * (q - p - 2)
        BY <3>1, <1>2
      <3>3. k * (q - p - 2) \in Nat
        BY <3>2, <1>2
      <3> QED BY <3>2, <3>3, <2>1, <2>2, <1>2
    <2>5. q > p
      <3>1. SUFFICES ASSUME q <= p PROVE FALSE
        BY <1>2
      <3>2. p - q \in Nat /\ k * p = k * q + k * (p - q)
        BY <3>1, <1>2
      <3>3. k * (p - q) \in Nat
        BY <3>2, <1>2
      <3> QED BY <3>2, <3>3, <2>1, <2>2, <1>2
    <2>6. q = p + 1
      BY <2>4, <2>5, <1>2
    <2> QED BY <2>6, <2>2, <2>3, <1>2
  <1>5. r = 0 <=> b = k * p + k
    BY <1>3, <1>4
  <1> QED BY <1>2, <1>5 DEF k, r

\* The first validation selects a policy, whatever it finds.
LEMMA FirstSelects == ASSUME NEW found \in Outcome PROVE Improved(NoSelection, found)
  <1> DEFINE loss == found.loss
  <1>1. loss \in Nat /\ Infinity \in Nat /\ 11 * loss < 10 * Infinity
    BY CloningAssumption DEF Outcome
  <1>2. Improved(NoSelection, found)
          <=> /\ Eligible(loss, Smaller(Infinity, loss))
              /\ ~Eligible(Infinity, Smaller(Infinity, loss)) \/ found.score > -1
    BY DEF Improved, NoSelection
  <1> HIDE DEF loss
  <1>3. Smaller(Infinity, loss) = loss
    BY <1>1 DEF Smaller
  <1>4. Eligible(loss, loss) /\ ~Eligible(Infinity, loss)
    BY <1>1 DEF Eligible
  <1> QED BY <1>2, <1>3, <1>4

LEMMA DiskInit == CloningInit => DiskInv
  <1> SUFFICES ASSUME CloningInit PROVE DiskInv
    OBVIOUS
  <1>1. directory \notin Directory
    BY CloningAssumption DEF CloningInit
  <1>2. PlacesInv
    BY <1>1 DEF CloningInit, PlacesInv
  <1>3. PairsInv
    BY DEF CloningInit, PairsInv, PairOK, BestAhead
  <1> QED BY <1>1, <1>2, <1>3 DEF DiskInv, RunInv

\* The files and what they say, while neither is written.
LEMMA FilesFrame ==
    ASSUME DiskInv, UNCHANGED <<outcomes, bestFile, latestFile>>
    PROVE  \A d \in Directory :
               /\ LatestStep(d)' = LatestStep(d) /\ LatestSelection(d)' = LatestSelection(d)
               /\ \A n : Selects(d, n)' = Selects(d, n)
               /\ PairOK(d)' = PairOK(d)
  BY DEF LatestStep, LatestSelection, Selects, Found, PairOK, BestAhead

LEMMA DiskStart == CloningInv /\ DiskInv /\ StartCloning => DiskInv'
  <1> SUFFICES ASSUME CloningInv, DiskInv, StartCloning PROVE DiskInv'
    OBVIOUS
  <1>1. /\ phase = "idle" /\ phase' = "train" /\ runs' = runs + 1 /\ directory' = runs'
        /\ UNCHANGED <<outcomes, done, selection, bestFile, latestFile, inherited>>
    BY DEF StartCloning, fileVars
  <1>2. runs \in Nat /\ runs' \in Directory
    BY <1>1, CloningAssumption DEF StartCloning, CloningInv, ProcessOK, Directory
  <1>3. \A d \in Directory : d \in Nat
    BY DEF Directory
  <1> PICK d \in Directory : d = runs'
    BY <1>2
  <1>4. done = 0 /\ selection = NoSelection /\ latestFile[d] = Nothing
    BY <1>1, <1>2 DEF DiskInv, PlacesInv
  <1>5. PlacesInv'
    BY <1>1, <1>2, <1>3 DEF DiskInv, PlacesInv
  <1>6. PairsInv'
    BY <1>1, FilesFrame DEF DiskInv, PairsInv
  <1>7. RunOK(d)'
    <2>1. LatestStep(d)' = 0 /\ LatestSelection(d)' = NoSelection
      BY <1>1, <1>4 DEF LatestStep, LatestSelection
    <2> QED BY <1>1, <1>4, <2>1, CloningAssumption DEF RunOK
  <1>8. RunInv'
    BY <1>1, <1>7 DEF RunInv, RunOK, Selects, Found, LatestStep, LatestSelection
  <1> QED BY <1>5, <1>6, <1>8 DEF DiskInv

LEMMA DiskResume ==
    ASSUME NEW d \in Directory PROVE CloningInv /\ DiskInv /\ ResumeCloning(d) => DiskInv'
  <1> SUFFICES ASSUME CloningInv, DiskInv, ResumeCloning(d) PROVE DiskInv'
    OBVIOUS
  <1>1. /\ phase' = "train" /\ runs' = runs + 1 /\ latestFile[d] # Nothing
        /\ done' = latestFile[d].step /\ selection' = latestFile[d].selection
        /\ \/ directory' = d /\ inherited' = inherited
           \/ directory' = runs' /\ inherited' = inherited \cup {runs'}
        /\ UNCHANGED <<outcomes, bestFile, latestFile>>
    BY DEF ResumeCloning, RestoreRuntime, fileVars
  <1>2. runs \in Nat /\ d \in Nat /\ latestFile[d] \in LatestFile
    <2>1. runs \in 0 .. MaxTrainings /\ MaxTrainings \in Nat
      BY CloningAssumption DEF CloningInv, ProcessOK
    <2>2. d \in 1 .. MaxTrainings
      BY DEF Directory
    <2>3. latestFile[d] \in LatestFile
      BY <1>1 DEF CloningInv, FilesOK
    <2> QED BY <2>1, <2>2, <2>3
  <1>3. d <= runs
    BY <1>1, <1>2 DEF DiskInv, PlacesInv
  <1>4. PlacesInv'
    <2>1. directory' <= runs'
      BY <1>1, <1>2, <1>3
    <2>2. \A e \in Directory : e > runs' => e > runs
      BY <1>1, <1>2 DEF Directory
    <2> QED BY <1>1, <2>1, <2>2 DEF DiskInv, PlacesInv
  <1>5. PairsInv'
    BY <1>1, FilesFrame DEF DiskInv, PairsInv
  <1>6. RunInv'
    <2>1. CASE directory' = d
      <3>1. RunOK(d)'
        <4>1. LatestStep(d)' = done' /\ LatestSelection(d)' = selection' /\ done' \in Nat
          BY <1>1, <1>2 DEF LatestStep, LatestSelection, LatestFile
        <4>2. ValidationInterval \in Nat \ {0}
          BY CloningAssumption
        <4> QED BY <1>1, <4>1, <4>2 DEF RunOK
      <3> QED BY <2>1, <3>1 DEF RunInv, RunOK, Selects, Found, LatestStep, LatestSelection
    <2>2. CASE directory' \in inherited'
      BY <2>2 DEF RunInv
    <2> QED BY <1>1, <2>1, <2>2
  <1> QED BY <1>4, <1>5, <1>6 DEF DiskInv

\* A step of a running command that leaves the files alone.
LEMMA DiskRuns ==
    ASSUME CloningInv, DiskInv, NEW d \in Directory, directory = d,
           UNCHANGED <<outcomes, bestFile, latestFile, directory, runs, inherited>>,
           phase' # "idle",
           d \notin inherited => RunOK(d)'
    PROVE  DiskInv'
  <1>1. PlacesInv'
    BY DEF DiskInv, PlacesInv
  <1>2. PairsInv'
    BY FilesFrame DEF DiskInv, PairsInv
  <1>3. RunInv'
    BY DEF RunInv, RunOK, Selects, Found, LatestStep, LatestSelection
  <1> QED BY <1>1, <1>2, <1>3 DEF DiskInv

LEMMA LatestStepType ==
    ASSUME CloningInv, DiskInv, NEW d \in Directory
    PROVE  LatestStep(d) \in Nat /\ LatestStep(d) % ValidationInterval = 0
  <1>1. ValidationInterval \in Nat \ {0} /\ MaxSteps \in Nat
    BY CloningAssumption
  <1>2. 0 % ValidationInterval = 0
    BY <1>1
  <1>3. latestFile[d] # Nothing => latestFile[d].step \in 1 .. MaxSteps
    BY DEF CloningInv, FilesOK, LatestFile
  <1> QED BY <1>1, <1>2, <1>3 DEF LatestStep, DiskInv, PlacesInv

LEMMA DiskTrain == CloningInv /\ DiskInv /\ TrainBatch => DiskInv'
  <1> SUFFICES ASSUME CloningInv, DiskInv, TrainBatch PROVE DiskInv'
    OBVIOUS
  <1>1. /\ phase = "train" /\ done' = done + 1 /\ selection' = selection
        /\ phase' = IF done' % ValidationInterval = 0 THEN "validate" ELSE "train"
        /\ UNCHANGED <<outcomes, bestFile, latestFile, directory, runs, inherited>>
    BY DEF TrainBatch, fileVars
  <1> PICK d \in Directory : d = directory
    BY <1>1 DEF CloningInv, StepsInv
  <1>2. ASSUME d \notin inherited PROVE RunOK(d)'
    <2>1. /\ LatestStep(d) <= done /\ done < LatestStep(d) + ValidationInterval
          /\ selection = LatestSelection(d)
      BY <1>1, <1>2 DEF DiskInv, RunInv, RunOK
    <2>2. done \in Nat /\ ValidationInterval \in Nat \ {0}
      BY CloningAssumption DEF CloningInv, MemoryOK
    <2>3. LatestStep(d) \in Nat /\ LatestStep(d) % ValidationInterval = 0
      BY LatestStepType
    <2> DEFINE before == LatestStep(d)
               after == done'
    <2>4. /\ before \in Nat /\ after \in Nat /\ before % ValidationInterval = 0
          /\ before < after /\ after <= before + ValidationInterval
      BY <1>1, <2>1, <2>2, <2>3
    <2> HIDE DEF before, after
    <2>5. after % ValidationInterval = 0 <=> after = before + ValidationInterval
      BY <2>4, NextMultiple
    <2>6. LatestStep(d)' = before /\ LatestSelection(d)' = selection'
      BY <1>1, <2>1, FilesFrame DEF before
    <2>7. phase' = IF after = before + ValidationInterval THEN "validate" ELSE "train"
      BY <1>1, <2>5 DEF after
    <2> QED BY <2>2, <2>4, <2>6, <2>7 DEF RunOK, after
  <1>3. phase' # "idle"
    BY <1>1
  <1> QED BY <1>1, <1>2, <1>3, DiskRuns

LEMMA DiskValidate == CloningInv /\ DiskInv /\ Validate => DiskInv'
  <1> SUFFICES ASSUME CloningInv, DiskInv, Validate PROVE DiskInv'
    OBVIOUS
  <1>1. /\ phase = "validate" /\ done' = done
        /\ selection' = UpdatedSelection(selection, Found(done), trained')
        /\ phase' = IF Improved(selection, Found(done)) THEN "save best" ELSE "save latest"
        /\ UNCHANGED <<outcomes, bestFile, latestFile, directory, runs, inherited>>
    BY DEF Validate, fileVars, Found
  <1> PICK d \in Directory : d = directory
    BY <1>1 DEF CloningInv, StepsInv
  <1>2. ASSUME d \notin inherited PROVE RunOK(d)'
    <2>1. done = LatestStep(d) + ValidationInterval /\ selection = LatestSelection(d)
      BY <1>1, <1>2 DEF DiskInv, RunInv, RunOK
    <2>2. Selects(d, done) <=> Improved(selection, Found(done))
      BY <2>1 DEF Selects
    <2>3. LatestStep(d)' = LatestStep(d) /\ Selects(d, done)' = Selects(d, done)
      BY <1>1 DEF LatestStep, Selects, LatestSelection, Found
    <2>4. CASE Selects(d, done)
      BY <1>1, <2>1, <2>2, <2>3, <2>4 DEF RunOK
    <2>5. CASE ~Selects(d, done)
      <3>1. done \in 1 .. MaxSteps /\ done % ValidationInterval = 0
        BY <1>1, StepNumber DEF CloningInv, MemoryOK, StepsInv
      <3>2. Found(done) \in Outcome
        BY <3>1, ValidationNumber DEF CloningInv, ProcessOK, Found
      <3>3. latestFile[d] # Nothing
        BY <2>5, <3>2, FirstSelects DEF Selects, LatestSelection
      <3>4. selection'.state = latestFile[d].selection.state
        BY <1>1, <2>1, <2>2, <2>5, <3>3 DEF UpdatedSelection, LatestSelection
      <3>5. phase' = "save latest" /\ ~Selects(d, done)'
        BY <1>1, <2>2, <2>3, <2>5
      <3> QED BY <1>1, <2>1, <2>3, <3>3, <3>4, <3>5 DEF RunOK
    <2> QED BY <2>4, <2>5
  <1>3. phase' # "idle"
    BY <1>1
  <1> QED BY <1>1, <1>2, <1>3, DiskRuns

LEMMA DiskSaveBest == CloningInv /\ DiskInv /\ SaveBest => DiskInv'
  <1> SUFFICES ASSUME CloningInv, DiskInv, SaveBest PROVE DiskInv'
    OBVIOUS
  <1> PICK d \in Directory : d = directory
    BY DEF SaveBest, CloningInv, StepsInv
  <1> DEFINE best == [step |-> done, state |-> selection.state]
  <1>1. /\ phase = "save best" /\ phase' = "save latest"
        /\ bestFile' = [bestFile EXCEPT ![d] = best]
        /\ UNCHANGED <<outcomes, directory, done, selection, latestFile, runs, inherited>>
    BY DEF SaveBest
  <1>2. \A e \in Directory : bestFile'[e] = IF e = d THEN best ELSE bestFile[e]
    BY <1>1 DEF CloningInv, FilesOK
  <1>3. \A e \in Directory : /\ LatestStep(e)' = LatestStep(e)
                             /\ \A n : Selects(e, n)' = Selects(e, n)
    BY <1>1 DEF LatestStep, Selects, LatestSelection, Found
  <1>4. best # Nothing
    <2>1. done \in 1 .. MaxSteps
      BY <1>1, StepNumber DEF CloningInv, MemoryOK, StepsInv
    <2>2. selection.state \in Seq(0 .. MaxSteps) \cup {Nothing}
      BY DEF CloningInv, MemoryOK, SelectionType
    <2>3. best \in BestFile
      BY <2>1, <2>2 DEF BestFile
    <2> QED BY <2>3, CloningAssumption
  <1>5. best.step = done /\ best.state = selection.state
    OBVIOUS
  <1> HIDE DEF best
  <1>6. PlacesInv'
    <2>1. d \in Nat /\ runs \in Nat /\ d <= runs
      <3>1. d \in 1 .. MaxTrainings /\ runs \in 0 .. MaxTrainings /\ MaxTrainings \in Nat
        BY CloningAssumption DEF Directory, CloningInv, ProcessOK
      <3>2. d <= runs
        BY DEF DiskInv, PlacesInv
      <3> QED BY <3>1, <3>2
    <2>2. \A e \in Directory : e > runs => e # d
      BY <2>1
    <2> QED BY <1>1, <1>2, <2>2 DEF DiskInv, PlacesInv
  <1>7. ASSUME d \notin inherited
        PROVE  done = LatestStep(d) + ValidationInterval /\ Selects(d, done)
    BY <1>1, <1>7 DEF DiskInv, RunInv, RunOK
  <1>8. PairsInv'
    <2>1. SUFFICES ASSUME NEW e \in Directory, e \notin inherited PROVE PairOK(e)'
      BY <1>1 DEF PairsInv
    <2>2. CASE e = d
      <3>1. bestFile'[e] # Nothing /\ bestFile'[e].step = done
        BY <2>2, <1>2, <1>4, <1>5
      <3>2. done = LatestStep(e)' + ValidationInterval /\ Selects(e, done)'
        BY <2>1, <2>2, <1>1, <1>3, <1>7
      <3>3. LatestStep(e)' \in Nat /\ ValidationInterval \in Nat \ {0}
        BY <1>3, LatestStepType, CloningAssumption
      <3>4. BestAhead(e)'
        BY <3>1, <3>2, <3>3 DEF BestAhead
      <3>5. Selects(e, bestFile[e].step)'
        BY <3>1, <3>2, <1>1 DEF Selects, LatestSelection, Found
      <3> QED BY <3>1, <3>2, <3>4, <3>5 DEF PairOK
    <2>3. CASE e # d
      <3>1. bestFile'[e] = bestFile[e] /\ latestFile'[e] = latestFile[e] /\ outcomes' = outcomes
        BY <2>3, <1>1, <1>2
      <3>2. PairOK(e)
        BY <2>1 DEF DiskInv, PairsInv
      <3> QED BY <3>1, <3>2
              DEF PairOK, BestAhead, LatestStep, Selects, LatestSelection, Found
    <2> QED BY <2>2, <2>3
  <1>9. d \notin inherited => RunOK(d)'
    <2>1. SUFFICES ASSUME d \notin inherited PROVE RunOK(d)'
      OBVIOUS
    <2>2. /\ bestFile'[d] # Nothing /\ bestFile'[d].step = done
          /\ bestFile'[d].state = selection.state
      BY <1>2, <1>4, <1>5
    <2>3. Selects(d, done)' /\ done' = LatestStep(d)' + ValidationInterval
      BY <2>1, <1>1, <1>3, <1>7 DEF Selects, LatestSelection, Found
    <2> QED BY <2>2, <2>3, <1>1 DEF RunOK
  <1>10. RunInv'
    BY <1>1, <1>9 DEF RunInv, RunOK, Selects, Found, LatestStep, LatestSelection
  <1> QED BY <1>6, <1>8, <1>10 DEF DiskInv

LEMMA DiskSaveLatest == CloningInv /\ DiskInv /\ SaveLatest => DiskInv'
  <1> SUFFICES ASSUME CloningInv, DiskInv, SaveLatest PROVE DiskInv'
    OBVIOUS
  <1> PICK d \in Directory : d = directory
    BY DEF SaveLatest, CloningInv, StepsInv
  <1>1. /\ phase = "save latest" /\ phase' \in {"finish", "train"}
        /\ latestFile' = [latestFile EXCEPT ![d] = LatestCheckpoint]
        /\ UNCHANGED <<outcomes, directory, done, selection, bestFile, runs, inherited>>
    BY DEF SaveLatest, memoryVars
  <1>2. \A e \in Directory : latestFile'[e] = IF e = d THEN LatestCheckpoint ELSE latestFile[e]
    BY <1>1 DEF CloningInv, FilesOK
  <1>3. done \in 1 .. MaxSteps /\ done % ValidationInterval = 0
    BY <1>1, StepNumber DEF CloningInv, MemoryOK, StepsInv
  <1>4. LatestCheckpoint.step = done /\ LatestCheckpoint.selection = selection
    BY DEF LatestCheckpoint
  <1>5. LatestCheckpoint # Nothing
    <2>1. drawn = done /\ bestStep \in 0 .. MaxSteps /\ trained \in Seq(0 .. MaxSteps)
          /\ selection \in SelectionType
      BY DEF CloningInv, MemoryOK, StepsInv
    <2>2. LatestCheckpoint \in LatestFile
      BY <1>3, <2>1 DEF LatestCheckpoint, LatestFile
    <2> QED BY <2>2, CloningAssumption
  <1>6. LatestStep(d)' = done /\ LatestSelection(d)' = selection
    BY <1>2, <1>4, <1>5 DEF LatestStep, LatestSelection
  <1>7. directory <= runs
    BY <1>1 DEF DiskInv, PlacesInv
  <1>8. PlacesInv'
    <2>1. \A e \in Directory : e > runs' => latestFile'[e] = Nothing
      <3>1. d \in Nat /\ runs \in Nat /\ d <= runs
        <4>1. d \in 1 .. MaxTrainings /\ runs \in 0 .. MaxTrainings /\ MaxTrainings \in Nat
          BY CloningAssumption DEF Directory, CloningInv, ProcessOK
        <4> QED BY <4>1, <1>7
      <3>2. \A e \in Directory : e > runs => e # d
        BY <3>1
      <3> QED BY <1>1, <1>2, <3>2 DEF DiskInv, PlacesInv
    <2>2. \A e \in Directory : latestFile'[e] # Nothing =>
              latestFile'[e].step % ValidationInterval = 0
      BY <1>2, <1>3, <1>4 DEF DiskInv, PlacesInv
    <2> QED BY <1>1, <2>1, <2>2 DEF DiskInv, PlacesInv
  <1>9. ASSUME d \notin inherited
        PROVE  /\ done = LatestStep(d) + ValidationInterval
               /\ bestFile[d] # Nothing /\ bestFile[d].step <= done
               /\ bestFile[d].state = selection.state
    <2>1. /\ done = LatestStep(d) + ValidationInterval
          /\ Selects(d, done) => /\ bestFile[d] # Nothing
                                 /\ bestFile[d].step = done
                                 /\ bestFile[d].state = selection.state
          /\ ~Selects(d, done) => /\ latestFile[d] # Nothing
                                  /\ selection.state = latestFile[d].selection.state
      BY <1>1, <1>9 DEF DiskInv, RunInv, RunOK
    <2>2. LatestStep(d) \in Nat /\ done \in Nat /\ ValidationInterval \in Nat \ {0}
      BY <1>3, LatestStepType, CloningAssumption
    <2>3. PairOK(d)
      BY <1>9 DEF DiskInv, PairsInv
    <2>4. CASE Selects(d, done)
      BY <2>1, <2>2, <2>4
    <2>5. CASE ~Selects(d, done)
      <3>1. ~BestAhead(d)
        BY <2>1, <2>3, <2>5 DEF PairOK
      <3>2. bestFile[d] # Nothing /\ bestFile[d].state = latestFile[d].selection.state
        BY <3>1, <2>1, <2>3, <2>5 DEF PairOK
      <3>3. bestFile[d].step \in 1 .. MaxSteps
        BY <3>2 DEF CloningInv, FilesOK, BestFile
      <3>4. bestFile[d].step <= LatestStep(d)
        BY <3>1, <3>2, <3>3, <2>2, CloningAssumption DEF BestAhead
      <3>5. bestFile[d].step <= done
        BY <3>3, <3>4, <2>1, <2>2, CloningAssumption
      <3> QED BY <2>1, <2>5, <3>2, <3>5
    <2> QED BY <2>4, <2>5
  <1>10. PairsInv'
    <2>1. SUFFICES ASSUME NEW e \in Directory, e \notin inherited PROVE PairOK(e)'
      BY <1>1 DEF PairsInv
    <2>2. CASE e = d
      <3>1. /\ bestFile[d] # Nothing /\ bestFile[d].step <= done
            /\ bestFile[d].state = selection.state
        BY <2>1, <2>2, <1>9
      <3>2. bestFile[d].step \in 1 .. MaxSteps
        BY <3>1 DEF CloningInv, FilesOK, BestFile
      <3>3. ~BestAhead(d)'
        <4>1. bestFile[d].step \in Nat /\ done \in Nat
          BY <3>2, <1>3
        <4>2. ~(bestFile[d].step > done)
          BY <3>1, <4>1
        <4> QED BY <4>2, <1>1, <1>6 DEF BestAhead
      <3>4. bestFile'[d].state = latestFile'[d].selection.state
        BY <3>1, <1>1, <1>2, <1>4
      <3> QED BY <2>2, <3>1, <3>3, <3>4, <1>1 DEF PairOK
    <2>3. CASE e # d
      <3>1. bestFile'[e] = bestFile[e] /\ latestFile'[e] = latestFile[e] /\ outcomes' = outcomes
        BY <2>3, <1>1, <1>2
      <3>2. PairOK(e)
        BY <2>1 DEF DiskInv, PairsInv
      <3> QED BY <3>1, <3>2
              DEF PairOK, BestAhead, LatestStep, Selects, LatestSelection, Found
    <2> QED BY <2>2, <2>3
  <1>11. RunOK(d)'
    <2>1. done \in Nat /\ ValidationInterval \in Nat \ {0}
      BY <1>3, CloningAssumption
    <2>2. done <= done /\ done < done + ValidationInterval
      BY <2>1
    <2>3. done' = done /\ LatestStep(d)' = done /\ LatestSelection(d)' = selection'
      BY <1>1, <1>6
    <2>4. phase' # "validate" /\ phase' # "save best" /\ phase' # "save latest"
      BY <1>1
    <2> QED BY <2>2, <2>3, <2>4 DEF RunOK
  <1>12. RunInv'
    BY <1>1, <1>11 DEF RunInv, RunOK, Selects, Found, LatestStep, LatestSelection
  <1> QED BY <1>8, <1>10, <1>12 DEF DiskInv

LEMMA DiskFinish == CloningInv /\ DiskInv /\ FinishTraining => DiskInv'
  <1> SUFFICES ASSUME CloningInv, DiskInv, FinishTraining PROVE DiskInv'
    OBVIOUS
  <1>1. /\ phase' \in {"failed", "complete"}
        /\ UNCHANGED <<outcomes, bestFile, latestFile, directory, done, selection, runs, inherited>>
    BY DEF FinishTraining, fileVars
  <1>2. PlacesInv'
    BY <1>1 DEF DiskInv, PlacesInv
  <1>3. PairsInv'
    BY <1>1, FilesFrame DEF DiskInv, PairsInv
  <1>4. RunInv'
    BY <1>1 DEF RunInv, RunOK
  <1> QED BY <1>2, <1>3, <1>4 DEF DiskInv

LEMMA DiskEnd == CloningInv /\ DiskInv /\ EndProcess => DiskInv'
  <1> SUFFICES ASSUME CloningInv, DiskInv, EndProcess PROVE DiskInv'
    OBVIOUS
  <1>1. /\ phase' = "idle" /\ directory' = Nothing /\ done' = 0 /\ selection' = NoSelection
        /\ UNCHANGED <<outcomes, bestFile, latestFile, runs, inherited>>
    BY DEF EndProcess, ClearMemory, fileVars
  <1>2. Nothing \notin Directory
    BY CloningAssumption
  <1>3. PlacesInv'
    BY <1>1, <1>2 DEF DiskInv, PlacesInv
  <1>4. PairsInv'
    BY <1>1, FilesFrame DEF DiskInv, PairsInv
  <1>5. RunInv'
    BY <1>1, <1>2 DEF RunInv
  <1> QED BY <1>3, <1>4, <1>5 DEF DiskInv

LEMMA DiskStutter == DiskInv /\ UNCHANGED cloningVars => DiskInv'
  BY DEF DiskInv, PlacesInv, PairsInv, PairOK, RunInv, RunOK, BestAhead, Selects, Found,
         LatestStep, LatestSelection, cloningVars, memoryVars, fileVars

\* The policy that the training state of a directory has selected is on disk: the file of the
\* best policy agrees with the training state or is ahead of it by a validation, at every
\* point a command can be killed (behavior_training.py:112-137).
THEOREM OnDisk == CloningSpec => []BestPolicyIsOnDisk
  <1>1. CloningInv /\ DiskInv /\ [CloningNext]_cloningVars => DiskInv'
    <2> SUFFICES ASSUME CloningInv, DiskInv, [CloningNext]_cloningVars PROVE DiskInv'
      OBVIOUS
    <2>1. CASE StartCloning
      BY <2>1, DiskStart
    <2>2. ASSUME NEW d \in Directory, ResumeCloning(d) PROVE DiskInv'
      BY <2>2, DiskResume
    <2>3. CASE TrainBatch
      BY <2>3, DiskTrain
    <2>4. CASE Validate
      BY <2>4, DiskValidate
    <2>5. CASE SaveBest
      BY <2>5, DiskSaveBest
    <2>6. CASE SaveLatest
      BY <2>6, DiskSaveLatest
    <2>7. CASE FinishTraining
      BY <2>7, DiskFinish
    <2>8. CASE EndProcess
      BY <2>8, DiskEnd
    <2>9. CASE UNCHANGED cloningVars
      BY <2>9, DiskStutter
    <2> QED BY <2>1, <2>2, <2>3, <2>4, <2>5, <2>6, <2>7, <2>8, <2>9 DEF CloningNext
  <1>2. CloningInv /\ DiskInv => BestPolicyIsOnDisk
    <2> SUFFICES ASSUME CloningInv, DiskInv,
                        NEW d \in Directory, d \notin inherited, latestFile[d] # Nothing
                 PROVE  /\ bestFile[d] # Nothing
                        /\ \/ bestFile[d].state = latestFile[d].selection.state
                           \/ bestFile[d].step > latestFile[d].step
      BY DEF BestPolicyIsOnDisk
    <2>1. PairOK(d) /\ LatestStep(d) = latestFile[d].step
      BY DEF DiskInv, PairsInv, LatestStep
    <2> QED BY <2>1 DEF PairOK, BestAhead
  <1> QED BY <1>1, <1>2, CloningInductive, DiskInit, PTL DEF CloningSpec

-----------------------------------------------------------------------------
(* A run that was never interrupted.                                        *)

\* How sequences are flattened: one after the other.
FlattenStep(s, g, i) == IF i = 1 THEN s[i] ELSE g[i - 1] \o s[i]
Same(s, t, n) == \A i \in 1 .. n : s[i] = t[i]
Flattens(g, s, n) == g = [i \in 1 .. n |-> FlattenStep(s, g, i)]

\* There is a function that flattens a sequence, of any length.
LEMMA FlattenExists == ASSUME NEW s, NEW n \in Nat PROVE \E g : Flattens(g, s, n)
  <1> DEFINE S == {m \in Nat : \E g : Flattens(g, s, m)}
  <1>1. 0 \in S
    <2> DEFINE g == [i \in 1 .. 0 |-> FlattenStep(s, <<>>, i)]
    <2>1. g = [i \in 1 .. 0 |-> FlattenStep(s, g, i)]
      <3>1. 1 .. 0 = {}
        OBVIOUS
      <3> QED BY <3>1
    <2> QED BY <2>1 DEF Flattens
  <1>2. ASSUME NEW m \in Nat, m \in S PROVE m + 1 \in S
    <2>1. PICK g : Flattens(g, s, m)
      BY <1>2
    <2> DEFINE h == [i \in 1 .. m + 1 |-> FlattenStep(s, g, i)]
    <2>2. \A i \in 1 .. m : h[i] = g[i]
      BY <1>2, <2>1 DEF Flattens
    <2>3. \A i \in 1 .. m + 1 : FlattenStep(s, h, i) = FlattenStep(s, g, i)
      <3> SUFFICES ASSUME NEW i \in 1 .. m + 1 PROVE FlattenStep(s, h, i) = FlattenStep(s, g, i)
        OBVIOUS
      <3>1. i # 1 => i - 1 \in 1 .. m
        BY <1>2
      <3> HIDE DEF h
      <3> QED BY <2>2, <3>1 DEF FlattenStep
    <2>4. h = [i \in 1 .. m + 1 |-> FlattenStep(s, h, i)]
      <3> HIDE DEF h
      <3>1. h = [i \in 1 .. m + 1 |-> FlattenStep(s, g, i)]
        BY DEF h
      <3> QED BY <2>3, <3>1
    <2> HIDE DEF h
    <2>5. Flattens(h, s, m + 1)
      BY <2>4 DEF Flattens
    <2> QED BY <1>2, <2>5
  <1>3. n \in S
    <2> HIDE DEF S
    <2> QED BY <1>1, <1>2, SetInduction
  <1> QED BY <1>3

\* What is flattened before the end depends on nothing after it.
LEMMA FlattensAgree ==
    ASSUME NEW s, NEW t, NEW g, NEW h, NEW n \in Nat, NEW m \in 0 .. n,
           Same(s, t, m), Flattens(g, s, n), Flattens(h, t, m)
    PROVE  Same(g, h, m)
  <1> DEFINE S == {k \in Nat : k \in 1 .. m => g[k] = h[k]}
  <1>1. 0 \in S
    OBVIOUS
  <1>2. ASSUME NEW k \in Nat, k \in S PROVE k + 1 \in S
    <2> SUFFICES ASSUME k + 1 \in 1 .. m PROVE g[k + 1] = h[k + 1]
      OBVIOUS
    <2>1. k + 1 \in 1 .. n /\ s[k + 1] = t[k + 1]
      BY DEF Same
    <2>2. g[k + 1] = FlattenStep(s, g, k + 1) /\ h[k + 1] = FlattenStep(t, h, k + 1)
      BY <2>1 DEF Flattens
    <2>3. CASE k = 0
      BY <2>1, <2>2, <2>3 DEF FlattenStep
    <2>4. CASE k # 0
      <3>1. k \in 1 .. m
        BY <2>4
      <3>2. g[k] = h[k]
        BY <1>2, <3>1
      <3>3. k + 1 # 1 /\ (k + 1) - 1 = k
        BY <2>4
      <3> QED BY <2>1, <2>2, <3>2, <3>3 DEF FlattenStep
    <2> QED BY <2>3, <2>4
  <1>3. Nat \subseteq S
    <2> HIDE DEF S
    <2> QED BY <1>1, <1>2, SetInduction
  <1> QED BY <1>3 DEF Same

\* A flattened sequence is the last value of such a function.
LEMMA FlattenIs ==
    ASSUME NEW T, NEW s \in Seq(T), Len(s) # 0
    PROVE  \E g : Flattens(g, s, Len(s)) /\ FlattenSeq(s) = g[Len(s)]
  <1> DEFINE g == CHOOSE h : h = [i \in 1 .. Len(s) |-> FlattenStep(s, h, i)]
  <1>1. g = [i \in 1 .. Len(s) |-> FlattenStep(s, g, i)]
    <2>1. \E h : h = [i \in 1 .. Len(s) |-> FlattenStep(s, h, i)]
      <3>1. Len(s) \in Nat
        OBVIOUS
      <3> QED BY <3>1, FlattenExists DEF Flattens
    <2> QED BY <2>1
  <1>2. FlattenSeq(s) = g[Len(s)]
    BY DEF FlattenSeq, FlattenStep
  <1> HIDE DEF g
  <1> QED BY <1>1, <1>2 DEF Flattens

\* Flattening one sequence more adds it at the end.
LEMMA FlattenMore ==
    ASSUME NEW T, NEW s \in Seq(Seq(T)), NEW t \in Seq(Seq(T)),
           Len(t) = Len(s) + 1, \A i \in 1 .. Len(s) : s[i] = t[i], FlattenSeq(s) \in Seq(T)
    PROVE  FlattenSeq(t) = FlattenSeq(s) \o t[Len(t)]
  <1> DEFINE n == Len(t)
             m == Len(s)
  <1>0. m \in Nat /\ n \in Nat /\ n # 0 /\ n = m + 1 /\ n \in 1 .. n /\ m \in 0 .. n
    OBVIOUS
  <1>1. PICK g : Flattens(g, t, n) /\ FlattenSeq(t) = g[n]
    BY <1>0, FlattenIs
  <1> HIDE DEF n, m
  <1>2. g[n] = FlattenStep(t, g, n)
    BY <1>0, <1>1 DEF Flattens
  <1>3. CASE m = 0
    <2>1. s = <<>> /\ FlattenSeq(s) = s
      BY <1>3 DEF FlattenSeq, m
    <2>2. FlattenSeq(t) = t[1] /\ n = 1
      BY <1>0, <1>1, <1>2, <1>3 DEF FlattenStep
    <2>3. t[1] \in Seq(T)
      BY <2>2 DEF n
    <2> QED BY <2>1, <2>2, <2>3 DEF n
  <1>4. CASE m # 0
    <2>1. PICK h : Flattens(h, s, m) /\ FlattenSeq(s) = h[m]
      BY <1>0, <1>4, FlattenIs DEF m
    <2>2. Same(g, h, m)
      <3>1. Same(t, s, m)
        BY DEF m, Same
      <3> QED BY <1>0, <1>1, <2>1, <3>1, FlattensAgree
    <2>3. g[m] = FlattenSeq(s)
      <3>1. m \in 1 .. m
        BY <1>0, <1>4
      <3> QED BY <3>1, <2>1, <2>2 DEF Same
    <2>4. n # 1 /\ n - 1 = m
      BY <1>0, <1>4
    <2> QED BY <1>1, <1>2, <2>3, <2>4 DEF FlattenStep, n
  <1> QED BY <1>3, <1>4

\* What a batch, and the validation after it if it was among the first v, leave behind.
StepsOf(i, v) ==
    IF i % ValidationInterval = 0 /\ i \div ValidationInterval <= v THEN <<i, 0>> ELSE <<i>>

\* Nothing was learned before the first batch.
LEMMA ExperienceNone == ASSUME NEW v PROVE Experience(0, v) = <<>>
  <1>1. Experience(0, v) = FlattenSeq([i \in 1 .. 0 |-> StepsOf(i, v)])
    BY DEF Experience, StepsOf
  <1>2. [i \in 1 .. 0 |-> StepsOf(i, v)] = <<>>
    OBVIOUS
  <1> QED BY <1>1, <1>2 DEF FlattenSeq

\* One more batch adds what it leaves behind.
LEMMA ExperienceMore ==
    ASSUME NEW n \in Nat, NEW v, Experience(n, v) \in Seq(Nat)
    PROVE  Experience(n + 1, v) = Experience(n, v) \o StepsOf(n + 1, v)
  <1> DEFINE s == [i \in 1 .. n |-> StepsOf(i, v)]
             t == [i \in 1 .. n + 1 |-> StepsOf(i, v)]
  <1>1. \A i \in 1 .. n + 1 : StepsOf(i, v) \in Seq(Nat)
    BY DEF StepsOf
  <1>2. s \in Seq(Seq(Nat)) /\ t \in Seq(Seq(Nat)) /\ Len(s) = n /\ Len(t) = n + 1
    BY <1>1
  <1>3. /\ \A i \in 1 .. Len(s) : s[i] = t[i]
        /\ t[Len(t)] = StepsOf(n + 1, v)
    BY <1>2
  <1>4. Experience(n, v) = FlattenSeq(s) /\ Experience(n + 1, v) = FlattenSeq(t)
    BY DEF Experience, StepsOf
  <1> HIDE DEF s, t
  <1>5. FlattenSeq(t) = FlattenSeq(s) \o t[Len(t)]
    BY <1>2, <1>3, <1>4, FlattenMore
  <1> QED BY <1>3, <1>4, <1>5

\* What was learned is a sequence of numbers, and grows with every batch.
LEMMA ExperienceGrows ==
    ASSUME NEW n \in Nat, NEW v
    PROVE  /\ Experience(n, v) \in Seq(Nat)
           /\ Experience(n + 1, v) = Experience(n, v) \o StepsOf(n + 1, v)
  <1> DEFINE S == {m \in Nat : Experience(m, v) \in Seq(Nat)}
  <1>1. 0 \in S
    <2>1. <<>> \in Seq(Nat)
      OBVIOUS
    <2>2. Experience(0, v) \in Seq(Nat)
      BY <2>1, ExperienceNone, Zenon
    <2> QED BY <2>2
  <1>2. ASSUME NEW m \in Nat, m \in S PROVE m + 1 \in S
    <2>1. Experience(m, v) \in Seq(Nat)
      BY <1>2
    <2>2. Experience(m + 1, v) = Experience(m, v) \o StepsOf(m + 1, v)
      BY <2>1, ExperienceMore
    <2>3. StepsOf(m + 1, v) \in Seq(Nat)
      BY DEF StepsOf
    <2>4. ASSUME NEW s \in Seq(Nat), NEW t \in Seq(Nat) PROVE s \o t \in Seq(Nat)
      OBVIOUS
    <2>5. Experience(m + 1, v) \in Seq(Nat)
      BY <2>1, <2>2, <2>3, <2>4, Zenon
    <2> QED BY <2>5
  <1>3. n \in S
    <2> HIDE DEF S
    <2> QED BY <1>1, <1>2, SetInduction
  <1> QED BY <1>3, ExperienceMore

\* Batches leave the same behind when the same validations follow them.
LEMMA ExperienceSame ==
    ASSUME NEW n \in Nat, NEW v, NEW w, \A i \in 1 .. n : StepsOf(i, v) = StepsOf(i, w)
    PROVE  Experience(n, v) = Experience(n, w)
  <1>1. [i \in 1 .. n |-> StepsOf(i, v)] = [i \in 1 .. n |-> StepsOf(i, w)]
    OBVIOUS
  <1> QED BY <1>1 DEF Experience, StepsOf

\* Quotients are in the order of the numbers.
LEMMA QuotientOrder ==
    ASSUME NEW k \in Nat, NEW q \in Nat, NEW p \in Nat, NEW r \in 0 .. k - 1, NEW s \in 0 .. k - 1,
           k * q + r <= k * p + s
    PROVE  q <= p
  <1>1. SUFFICES ASSUME q >= p + 1 PROVE FALSE
    OBVIOUS
  <1> DEFINE e == q - p - 1
  <1>2. e \in Nat /\ q = p + 1 + e
    BY <1>1
  <1> HIDE DEF e
  <1>3. k * q = k * p + k + k * e
    BY <1>2
  <1>4. k * e \in Nat /\ k * p \in Nat
    BY <1>2
  <1> QED BY <1>3, <1>4

\* The interval divides every number, and what is left is smaller.
LEMMA Divided ==
    ASSUME NEW a \in Nat
    PROVE  /\ ValidationInterval \in Nat \ {0}
           /\ a \div ValidationInterval \in Nat
           /\ a % ValidationInterval \in 0 .. ValidationInterval - 1
           /\ a = ValidationInterval * (a \div ValidationInterval) + (a % ValidationInterval)
  <1>1. ValidationInterval \in Nat \ {0}
    BY CloningAssumption
  <1> QED BY <1>1

\* A later batch is not in an earlier interval.
LEMMA IntervalOrder ==
    ASSUME NEW a \in Nat, NEW b \in Nat, a <= b
    PROVE  a \div ValidationInterval <= b \div ValidationInterval
  <1> DEFINE k == ValidationInterval
             q == a \div k
             p == b \div k
             r == a % k
             s == b % k
  <1>1. /\ k \in Nat /\ q \in Nat /\ p \in Nat /\ r \in 0 .. k - 1 /\ s \in 0 .. k - 1
        /\ a = k * q + r /\ b = k * p + s
    BY Divided
  <1> HIDE DEF k, q, p, r, s
  <1>2. q <= p
    BY <1>1, QuotientOrder
  <1> QED BY <1>2 DEF q, p, k

\* Every batch is in the interval of the one before it, or is the first of the next one.
LEMMA NextInterval ==
    ASSUME NEW a \in Nat
    PROVE  (a + 1) \div ValidationInterval =
               a \div ValidationInterval + (IF (a + 1) % ValidationInterval = 0 THEN 1 ELSE 0)
  <1> DEFINE k == ValidationInterval
             q == a \div k
             p == (a + 1) \div k
             r == a % k
             s == (a + 1) % k
  <1>1. /\ k \in Nat \ {0} /\ q \in Nat /\ p \in Nat /\ r \in 0 .. k - 1 /\ s \in 0 .. k - 1
        /\ a = k * q + r /\ a + 1 = k * p + s
    <2>1. a + 1 \in Nat
      OBVIOUS
    <2> QED BY <2>1, Divided
  <1> HIDE DEF k, q, p, r, s
  <1>2. CASE s # 0
    <2>1. s - 1 \in 0 .. k - 1 /\ a = k * p + (s - 1)
      BY <1>1, <1>2
    <2>2. k * q + r <= k * p + (s - 1) /\ k * p + (s - 1) <= k * q + r
      BY <1>1, <2>1
    <2>3. q <= p /\ p <= q
      BY <1>1, <2>1, <2>2, QuotientOrder
    <2> QED BY <1>1, <1>2, <2>3 DEF k, q, p, s
  <1>3. CASE s = 0
    <2>1. p # 0
      BY <1>1, <1>3
    <2> DEFINE o == p - 1
    <2>2. o \in Nat /\ p = o + 1
      BY <1>1, <2>1
    <2> HIDE DEF o
    <2>3. k * p = k * o + k
      BY <1>1, <2>2
    <2>4. k - 1 \in 0 .. k - 1 /\ a = k * o + (k - 1)
      <3>1. a + 1 = k * p /\ k * p \in Nat
        BY <1>1, <1>3
      <3> DEFINE x == k * o
                 y == k * p
      <3>2. a + 1 = y /\ y = x + k /\ x \in Nat /\ y \in Nat /\ k \in Nat \ {0}
        BY <1>1, <2>2, <2>3, <3>1
      <3> HIDE DEF x, y
      <3>3. a = x + (k - 1) /\ k - 1 \in 0 .. k - 1
        BY <3>2
      <3> QED BY <3>3 DEF x
    <2>5. k * q + r <= k * o + (k - 1) /\ k * o + (k - 1) <= k * q + r
      BY <1>1, <2>2, <2>4
    <2>6. q <= o /\ o <= q
      BY <1>1, <2>2, <2>4, <2>5, QuotientOrder
    <2>7. p = q + 1
      BY <1>1, <2>2, <2>6
    <2> QED BY <1>3, <2>7 DEF k, q, p, s
  <1> QED BY <1>2, <1>3

\* What the reference selection is computed from: the one before, what is found and what was
\* learned until then.
ReferenceStep(u, v) ==
    IF v = 0 THEN NoSelection
    ELSE UpdatedSelection(u[v - 1], outcomes[v], Experience(v * ValidationInterval, v))
References(u, n) == u = [v \in 0 .. n |-> ReferenceStep(u, v)]

\* There is a reference selection after any number of validations.
LEMMA ReferenceExists == ASSUME NEW n \in Nat PROVE \E u : References(u, n)
  <1> DEFINE S == {m \in Nat : \E u : References(u, m)}
  <1>1. 0 \in S
    <2> DEFINE u == [v \in 0 .. 0 |-> NoSelection]
    <2>1. u = [v \in 0 .. 0 |-> ReferenceStep(u, v)]
      <3>1. \A v \in 0 .. 0 : ReferenceStep(u, v) = NoSelection
        BY DEF ReferenceStep
      <3> QED BY <3>1, Zenon
    <2> HIDE DEF u
    <2>2. References(u, 0)
      BY <2>1 DEF References
    <2> QED BY <2>2
  <1>2. ASSUME NEW m \in Nat, m \in S PROVE m + 1 \in S
    <2>1. PICK g : References(g, m)
      BY <1>2
    <2> DEFINE u == [v \in 0 .. m + 1 |-> ReferenceStep(g, v)]
    <2>2. \A v \in 0 .. m : u[v] = g[v]
      BY <1>2, <2>1 DEF References
    <2>3. \A v \in 0 .. m + 1 : ReferenceStep(u, v) = ReferenceStep(g, v)
      <3> SUFFICES ASSUME NEW v \in 0 .. m + 1 PROVE ReferenceStep(u, v) = ReferenceStep(g, v)
        OBVIOUS
      <3>1. v # 0 => v - 1 \in 0 .. m
        BY <1>2
      <3> HIDE DEF u
      <3> QED BY <2>2, <3>1 DEF ReferenceStep
    <2>4. u = [v \in 0 .. m + 1 |-> ReferenceStep(u, v)]
      <3> HIDE DEF u
      <3>1. u = [v \in 0 .. m + 1 |-> ReferenceStep(g, v)]
        BY DEF u
      <3> QED BY <2>3, <3>1
    <2> HIDE DEF u
    <2>5. References(u, m + 1)
      BY <2>4 DEF References
    <2> QED BY <1>2, <2>5
  <1>3. n \in S
    <2> HIDE DEF S
    <2> QED BY <1>1, <1>2, SetInduction
  <1> QED BY <1>3

\* A run that was never interrupted starts with no selection and is updated by each validation.
LEMMA ReferenceIs ==
    /\ Uninterrupted[0] = NoSelection
    /\ \A v \in 1 .. Validations :
           Uninterrupted[v] =
               UpdatedSelection(Uninterrupted[v - 1], outcomes[v],
                                Experience(v * ValidationInterval, v))
  <1> DEFINE u == CHOOSE h : h = [v \in 0 .. Validations |-> ReferenceStep(h, v)]
  <1>1. Validations \in Nat
    BY Divided, CloningAssumption DEF Validations
  <1>2. u = [v \in 0 .. Validations |-> ReferenceStep(u, v)]
    <2>1. \E h : h = [v \in 0 .. Validations |-> ReferenceStep(h, v)]
      BY <1>1, ReferenceExists DEF References
    <2> QED BY <2>1
  <1>3. Uninterrupted = u
    BY DEF Uninterrupted, ReferenceStep
  <1> HIDE DEF u
  <1>4. \A v \in 0 .. Validations : u[v] = ReferenceStep(u, v)
    BY <1>2
  <1>5. 0 \in 0 .. Validations /\ \A v \in 1 .. Validations : v \in 0 .. Validations /\ v # 0
    BY <1>1
  <1> QED BY <1>3, <1>4, <1>5 DEF ReferenceStep

\* It is the same as long as validations find the same.
LEMMA ReferenceStays == UNCHANGED outcomes => Uninterrupted' = Uninterrupted
  <1> QED BY DEF Uninterrupted

\* A selected policy is what was learned until the step it was selected at.
SelectedAt(s, step) == s.state # Nothing => s.state = Experience(step, step \div ValidationInterval)

\* A run, and what its training state says, is where an uninterrupted one would be.
Training == phase \in {"train", "validate", "save best", "save latest", "finish"}
RunExact ==
    /\ Training =>
         /\ trained = Experience(done, Validated)
         /\ selection = Uninterrupted[Validated]
         /\ phase # "save best" => SelectedAt(selection, bestStep)
    /\ phase = "save best" => selection.state = trained
    /\ phase = "idle" => done = 0 /\ trained = <<>> /\ selection = NoSelection
FilesExact ==
    \A d \in Directory :
        latestFile[d] # Nothing =>
            LET f == latestFile[d]
            IN  /\ f.learner = Experience(f.step, f.step \div ValidationInterval)
                /\ f.selection = Uninterrupted[f.step \div ValidationInterval]
                /\ SelectedAt(f.selection, f.bestStep)
ExactCloning == RunExact /\ FilesExact

\* A batch adds itself to what was learned since the validation before it.
LEMMA BatchLearned ==
    ASSUME NEW n \in Nat
    PROVE  Experience(n + 1, n \div ValidationInterval) =
               Append(Experience(n, n \div ValidationInterval), n + 1)
  <1> DEFINE q == n \div ValidationInterval
  <1>1. q \in Nat
    BY Divided
  <1>2. StepsOf(n + 1, q) = <<n + 1>>
    <2>1. (n + 1) % ValidationInterval = 0 => (n + 1) \div ValidationInterval = q + 1
      BY NextInterval
    <2> HIDE DEF q
    <2>2. (n + 1) % ValidationInterval = 0 => ~((n + 1) \div ValidationInterval <= q)
      BY <1>1, <2>1
    <2> QED BY <2>2 DEF StepsOf
  <1> HIDE DEF q
  <1>3. /\ Experience(n, q) \in Seq(Nat)
        /\ Experience(n + 1, q) = Experience(n, q) \o StepsOf(n + 1, q)
    BY ExperienceGrows
  <1>4. ASSUME NEW s \in Seq(Nat) PROVE s \o <<n + 1>> = Append(s, n + 1)
    OBVIOUS
  <1>5. Experience(n + 1, q) = Append(Experience(n, q), n + 1)
    BY <1>2, <1>3, <1>4
  <1> QED BY <1>5 DEF q

\* A validation adds itself after the batch it follows.
LEMMA ValidationLearned ==
    ASSUME NEW n \in Nat, n # 0, n % ValidationInterval = 0
    PROVE  LET q == n \div ValidationInterval
           IN  Experience(n, q) = Append(Experience(n, q - 1), 0) /\ q * ValidationInterval = n
  <1> DEFINE m == n - 1
             q == n \div ValidationInterval
             p == m \div ValidationInterval
  <1>1. m \in Nat /\ n = m + 1
    OBVIOUS
  <1> HIDE DEF m
  <1>2. p \in Nat /\ q = p + 1
    BY <1>1, Divided, NextInterval
  <1>3. \A i \in 1 .. m : StepsOf(i, q) = StepsOf(i, p)
    <2> SUFFICES ASSUME NEW i \in 1 .. m PROVE StepsOf(i, q) = StepsOf(i, p)
      OBVIOUS
    <2>1. i \in Nat /\ i <= m
      BY <1>1
    <2>2. i \div ValidationInterval <= p /\ i \div ValidationInterval \in Nat
      BY <1>1, <2>1, IntervalOrder, Divided
    <2> HIDE DEF p, q
    <2>3. i \div ValidationInterval <= q
      BY <1>2, <2>2
    <2> QED BY <2>2, <2>3 DEF StepsOf
  <1>4. q * ValidationInterval = n
    <2>1. /\ ValidationInterval \in Nat /\ q \in Nat
          /\ n = ValidationInterval * q + (n % ValidationInterval)
      BY Divided
    <2> HIDE DEF q
    <2> QED BY <2>1
  <1>5. StepsOf(n, q) = <<n, 0>> /\ StepsOf(n, p) = <<n>>
    <2>1. n \div ValidationInterval = q
      OBVIOUS
    <2> HIDE DEF p, q
    <2>2. q <= q /\ ~(q <= p)
      BY <1>2
    <2> QED BY <2>1, <2>2 DEF StepsOf
  <1> HIDE DEF p, q
  <1>6. Experience(m, q) = Experience(m, p)
    BY <1>1, <1>3, ExperienceSame
  <1>7. /\ Experience(m, p) \in Seq(Nat)
        /\ Experience(n, q) = Experience(m, q) \o StepsOf(n, q)
        /\ Experience(n, p) = Experience(m, p) \o StepsOf(n, p)
    BY <1>1, ExperienceGrows
  <1>8. ASSUME NEW s \in Seq(Nat) PROVE s \o <<n, 0>> = Append(s \o <<n>>, 0)
    OBVIOUS
  <1>9. Experience(n, q) = Append(Experience(n, p), 0)
    BY <1>5, <1>6, <1>7, <1>8
  <1>10. q - 1 = p
    BY <1>2
  <1> QED BY <1>4, <1>9, <1>10 DEF q

\* A run starts where an uninterrupted one does.
LEMMA NothingLearned == Experience(0, 0) = <<>> /\ Uninterrupted[0] = NoSelection
  BY ExperienceNone, ReferenceIs

\* What was validated, where training may begin or go on.
LEMMA ValidatedIs ==
    /\ phase # "validate" => Validated = done \div ValidationInterval
    /\ phase = "validate" => Validated = done \div ValidationInterval - 1
  BY DEF Validated

\* Without files that changed, what they say is still exact.
LEMMA FilesStayExact ==
    ASSUME FilesExact, UNCHANGED <<outcomes, latestFile>> PROVE FilesExact'
  <1>1. Uninterrupted' = Uninterrupted
    BY ReferenceStays
  <1> QED BY <1>1 DEF FilesExact, SelectedAt

\* Nothing has been learned or selected at first.
LEMMA ExactStarts == CloningInit => ExactCloning
  BY DEF CloningInit, ExactCloning, RunExact, FilesExact, Training

\* A new run starts exact.
LEMMA ExactAnew == ExactCloning /\ StartCloning => ExactCloning'
  <1> SUFFICES ASSUME ExactCloning, StartCloning PROVE ExactCloning'
    OBVIOUS
  <1>1. UNCHANGED <<outcomes, latestFile, done, trained, selection>> /\ phase' = "train"
    BY DEF StartCloning, fileVars
  <1>2. done = 0 /\ trained = <<>> /\ selection = NoSelection
    BY DEF StartCloning, ExactCloning, RunExact
  <1>3. Validated' = 0
    <2>1. 0 \div ValidationInterval = 0
      BY CloningAssumption
    <2> QED BY <1>1, <1>2, <2>1 DEF Validated
  <1>4. selection'.state = Nothing
    BY <1>1, <1>2 DEF NoSelection
  <1>5. Uninterrupted' = Uninterrupted
    BY <1>1, ReferenceStays
  <1>6. RunExact'
    <2>1. trained' = Experience(done', Validated')
      BY <1>1, <1>2, <1>3, NothingLearned
    <2>2. selection' = Uninterrupted'[Validated']
      BY <1>1, <1>2, <1>3, <1>5, NothingLearned
    <2> QED BY <1>1, <1>4, <2>1, <2>2 DEF RunExact, SelectedAt
  <1>7. FilesExact'
    BY <1>1, FilesStayExact DEF ExactCloning
  <1> QED BY <1>6, <1>7 DEF ExactCloning

\* A resumed run goes on where its file says an uninterrupted one would be.
LEMMA ExactResume ==
    ASSUME NEW d \in Directory PROVE ExactCloning /\ ResumeCloning(d) => ExactCloning'
  <1> SUFFICES ASSUME ExactCloning, ResumeCloning(d) PROVE ExactCloning'
    OBVIOUS
  <1> DEFINE f == latestFile[d]
  <1>1. UNCHANGED <<outcomes, latestFile>> /\ phase' = "train" /\ f # Nothing
    BY DEF ResumeCloning, fileVars
  <1>2. /\ done' = f.step /\ trained' = f.learner /\ selection' = f.selection
        /\ bestStep' = f.bestStep
    BY DEF ResumeCloning, RestoreRuntime
  <1>3. /\ f.learner = Experience(f.step, f.step \div ValidationInterval)
        /\ f.selection = Uninterrupted[f.step \div ValidationInterval]
        /\ SelectedAt(f.selection, f.bestStep)
    BY <1>1 DEF ExactCloning, FilesExact
  <1> HIDE DEF f
  <1>4. Validated' = done' \div ValidationInterval
    BY <1>1 DEF Validated
  <1>5. Uninterrupted' = Uninterrupted
    BY <1>1, ReferenceStays
  <1>6. RunExact'
    <2>1. trained' = Experience(done', Validated')
      BY <1>2, <1>3, <1>4
    <2>2. selection' = Uninterrupted'[Validated']
      BY <1>2, <1>3, <1>4, <1>5
    <2>3. SelectedAt(selection', bestStep')
      BY <1>2, <1>3
    <2> QED BY <1>1, <2>1, <2>2, <2>3 DEF RunExact, SelectedAt
  <1>7. FilesExact'
    BY <1>1, FilesStayExact DEF ExactCloning
  <1> QED BY <1>6, <1>7 DEF ExactCloning

\* A batch leaves the selection alone and adds itself to what was learned.
LEMMA ExactTrain == CloningInv /\ ExactCloning /\ TrainBatch => ExactCloning'
  <1> SUFFICES ASSUME CloningInv, ExactCloning, TrainBatch PROVE ExactCloning'
    OBVIOUS
  <1>1. /\ UNCHANGED <<outcomes, latestFile, selection, bestStep>>
        /\ phase = "train" /\ done' = done + 1 /\ trained' = Append(trained, drawn')
        /\ drawn' = drawn + 1
        /\ phase' = IF (done + 1) % ValidationInterval = 0 THEN "validate" ELSE "train"
    BY DEF TrainBatch, fileVars
  <1>2. done \in Nat /\ drawn = done
    <2>1. done \in 0 .. MaxSteps /\ drawn = done
      BY DEF CloningInv, MemoryOK, StepsInv
    <2> QED BY <2>1, CloningAssumption
  <1>3. Validated = done \div ValidationInterval
    BY <1>1 DEF Validated
  <1>4. /\ trained = Experience(done, Validated) /\ selection = Uninterrupted[Validated]
        /\ SelectedAt(selection, bestStep)
    BY <1>1 DEF ExactCloning, RunExact, Training
  <1>5. Validated' = Validated
    <2> DEFINE q == done \div ValidationInterval
               p == (done + 1) \div ValidationInterval
    <2>1. /\ q \in Nat
          /\ p = q + (IF (done + 1) % ValidationInterval = 0 THEN 1 ELSE 0)
      BY <1>2, NextInterval, Divided
    <2>2. Validated' = IF phase' = "validate" THEN p - 1 ELSE p
      BY <1>1 DEF Validated
    <2> HIDE DEF p, q
    <2>3. Validated' = q
      BY <1>1, <2>1, <2>2
    <2> QED BY <1>3, <2>3 DEF q
  <1>6. trained' = Experience(done', Validated')
    <2>1. Experience(done + 1, Validated) = Append(Experience(done, Validated), done + 1)
      BY <1>2, <1>3, BatchLearned
    <2> QED BY <1>1, <1>2, <1>4, <1>5, <2>1
  <1>7. Uninterrupted' = Uninterrupted
    BY <1>1, ReferenceStays
  <1>8. selection' = Uninterrupted'[Validated'] /\ SelectedAt(selection', bestStep')
    BY <1>1, <1>4, <1>5, <1>7
  <1>9. RunExact'
    <2>1. phase' \in {"train", "validate"}
      BY <1>1
    <2> QED BY <1>6, <1>8, <2>1 DEF RunExact, SelectedAt
  <1>10. FilesExact'
    BY <1>1, FilesStayExact DEF ExactCloning
  <1> QED BY <1>9, <1>10 DEF ExactCloning

\* A validation updates the selection as it would have been without interruptions.
LEMMA ExactValidate == CloningInv /\ ExactCloning /\ Validate => ExactCloning'
  <1> SUFFICES ASSUME CloningInv, ExactCloning, Validate PROVE ExactCloning'
    OBVIOUS
  <1> DEFINE q == done \div ValidationInterval
  <1>1. /\ UNCHANGED <<outcomes, latestFile, done, bestStep>>
        /\ phase = "validate" /\ trained' = Append(trained, 0)
        /\ selection' = UpdatedSelection(selection, outcomes[q], trained')
        /\ phase' = IF Improved(selection, outcomes[q]) THEN "save best" ELSE "save latest"
    BY DEF Validate, fileVars
  <1>2. done \in 1 .. MaxSteps /\ done # 0 /\ done \in Nat /\ done % ValidationInterval = 0
    <2>1. done \in 0 .. MaxSteps /\ done # 0 /\ done % ValidationInterval = 0
      BY <1>1 DEF CloningInv, MemoryOK, StepsInv
    <2> QED BY <2>1, StepNumber
  <1>3. q \in 1 .. Validations
    BY <1>2, ValidationNumber
  <1>4. Validated = q - 1 /\ Validated' = q
    BY <1>1 DEF Validated
  <1>5. /\ trained = Experience(done, q - 1) /\ selection = Uninterrupted[q - 1]
        /\ SelectedAt(selection, bestStep)
    BY <1>1, <1>4 DEF ExactCloning, RunExact, Training
  <1>6. Experience(done, q) = Append(Experience(done, q - 1), 0) /\ q * ValidationInterval = done
    BY <1>2, ValidationLearned
  <1> HIDE DEF q
  <1>7. trained' = Experience(done, q)
    BY <1>1, <1>5, <1>6
  <1>8. selection' = Uninterrupted[q]
    <2>1. Uninterrupted[q] =
              UpdatedSelection(Uninterrupted[q - 1], outcomes[q],
                               Experience(q * ValidationInterval, q))
      BY <1>3, ReferenceIs
    <2> QED BY <1>1, <1>5, <1>6, <1>7, <2>1
  <1>9. /\ phase' = "save best" => selection'.state = trained'
        /\ phase' # "save best" => selection'.state = selection.state
    <2>1. UpdatedSelection(selection, outcomes[q], trained').state =
              IF Improved(selection, outcomes[q]) THEN trained' ELSE selection.state
      BY DEF UpdatedSelection
    <2> QED BY <1>1, <2>1
  <1>10. Uninterrupted' = Uninterrupted
    BY <1>1, ReferenceStays
  <1>11. RunExact'
    <2>1. phase' \in {"save best", "save latest"}
      BY <1>1
    <2>2. trained' = Experience(done', Validated') /\ selection' = Uninterrupted'[Validated']
      BY <1>1, <1>4, <1>7, <1>8, <1>10
    <2>3. phase' # "save best" => SelectedAt(selection', bestStep')
      BY <1>1, <1>5, <1>9 DEF SelectedAt
    <2> QED BY <1>9, <2>1, <2>2, <2>3 DEF RunExact, SelectedAt
  <1>12. FilesExact'
    BY <1>1, FilesStayExact DEF ExactCloning
  <1> QED BY <1>11, <1>12 DEF ExactCloning

\* The step of the selected policy is the one it was selected at once its file is written.
LEMMA ExactSaveBest == ExactCloning /\ SaveBest => ExactCloning'
  <1> SUFFICES ASSUME ExactCloning, SaveBest PROVE ExactCloning'
    OBVIOUS
  <1>1. /\ UNCHANGED <<outcomes, latestFile, done, trained, selection>>
        /\ phase = "save best" /\ phase' = "save latest" /\ bestStep' = done
    BY DEF SaveBest
  <1>2. Validated = done \div ValidationInterval /\ Validated' = Validated
    BY <1>1 DEF Validated
  <1>3. /\ trained = Experience(done, Validated) /\ selection = Uninterrupted[Validated]
        /\ selection.state = trained
    BY <1>1 DEF ExactCloning, RunExact, Training
  <1>4. Uninterrupted' = Uninterrupted
    BY <1>1, ReferenceStays
  <1>5. RunExact'
    <2>1. trained' = Experience(done', Validated') /\ selection' = Uninterrupted'[Validated']
      BY <1>1, <1>2, <1>3, <1>4
    <2>2. SelectedAt(selection', bestStep')
      BY <1>1, <1>2, <1>3 DEF SelectedAt
    <2> QED BY <1>1, <2>1, <2>2 DEF RunExact, SelectedAt
  <1>6. FilesExact'
    BY <1>1, FilesStayExact DEF ExactCloning
  <1> QED BY <1>5, <1>6 DEF ExactCloning

\* The training state says where the run is.
LEMMA ExactSaveLatest == CloningInv /\ ExactCloning /\ SaveLatest => ExactCloning'
  <1> SUFFICES ASSUME CloningInv, ExactCloning, SaveLatest PROVE ExactCloning'
    OBVIOUS
  <1>1. /\ UNCHANGED <<outcomes, done, trained, selection, bestStep>>
        /\ phase = "save latest" /\ phase' \in {"finish", "train"}
    BY DEF SaveLatest, memoryVars
  <1>2. \A d \in Directory :
            latestFile'[d] = IF d = directory THEN LatestCheckpoint ELSE latestFile[d]
    BY DEF SaveLatest, CloningInv, FilesOK
  <1>3. Validated = done \div ValidationInterval /\ Validated' = Validated
    BY <1>1 DEF Validated
  <1>4. /\ trained = Experience(done, Validated) /\ selection = Uninterrupted[Validated]
        /\ SelectedAt(selection, bestStep)
    BY <1>1 DEF ExactCloning, RunExact, Training
  <1>5. Uninterrupted' = Uninterrupted
    BY <1>1, ReferenceStays
  <1>6. RunExact'
    <2>1. trained' = Experience(done', Validated') /\ selection' = Uninterrupted'[Validated']
      BY <1>1, <1>3, <1>4, <1>5
    <2>2. SelectedAt(selection', bestStep')
      BY <1>1, <1>4 DEF SelectedAt
    <2> QED BY <1>1, <2>1, <2>2 DEF RunExact, SelectedAt
  <1>7. FilesExact'
    <2> SUFFICES ASSUME NEW d \in Directory, latestFile'[d] # Nothing
                 PROVE  /\ latestFile'[d].learner =
                               Experience(latestFile'[d].step,
                                          latestFile'[d].step \div ValidationInterval)
                        /\ latestFile'[d].selection =
                               Uninterrupted[latestFile'[d].step \div ValidationInterval]
                        /\ SelectedAt(latestFile'[d].selection, latestFile'[d].bestStep)
      BY <1>5 DEF FilesExact, SelectedAt
    <2>1. CASE d = directory
      <3>1. latestFile'[d] = LatestCheckpoint
        BY <1>2, <2>1
      <3>2. /\ LatestCheckpoint.learner = trained /\ LatestCheckpoint.step = done
            /\ LatestCheckpoint.selection = selection /\ LatestCheckpoint.bestStep = bestStep
        BY DEF LatestCheckpoint
      <3> QED BY <1>3, <1>4, <3>1, <3>2
    <2>2. CASE d # directory
      <3>1. latestFile'[d] = latestFile[d]
        BY <1>2, <2>2
      <3> QED BY <3>1 DEF ExactCloning, FilesExact
    <2> QED BY <2>1, <2>2
  <1> QED BY <1>6, <1>7 DEF ExactCloning

\* A run that ended is no longer compared; its files stay.
LEMMA ExactEnds == ExactCloning /\ (FinishTraining \/ EndProcess) => ExactCloning'
  <1> SUFFICES ASSUME ExactCloning, FinishTraining \/ EndProcess PROVE ExactCloning'
    OBVIOUS
  <1>1. UNCHANGED <<outcomes, latestFile>>
    BY DEF FinishTraining, EndProcess, fileVars
  <1>2. RunExact'
    <2>1. CASE FinishTraining
      <3>1. phase' \in {"failed", "complete"}
        BY <2>1 DEF FinishTraining
      <3> QED BY <3>1 DEF RunExact, Training
    <2>2. CASE EndProcess
      <3>1. phase' = "idle" /\ done' = 0 /\ trained' = <<>> /\ selection' = NoSelection
        BY <2>2 DEF EndProcess, ClearMemory
      <3> QED BY <3>1 DEF RunExact, Training
    <2> QED BY <2>1, <2>2
  <1>3. FilesExact'
    BY <1>1, FilesStayExact DEF ExactCloning
  <1> QED BY <1>2, <1>3 DEF ExactCloning

\* Nothing changes when nothing happens.
LEMMA ExactStutter == ExactCloning /\ UNCHANGED cloningVars => ExactCloning'
  <1> SUFFICES ASSUME ExactCloning, UNCHANGED cloningVars PROVE ExactCloning'
    OBVIOUS
  <1>1. UNCHANGED <<outcomes, phase, done, trained, selection, bestStep, latestFile>>
    BY DEF cloningVars, memoryVars, fileVars
  <1>2. Uninterrupted' = Uninterrupted
    BY <1>1, ReferenceStays
  <1>3. FilesExact'
    BY <1>1, FilesStayExact DEF ExactCloning
  <1>4. RunExact'
    BY <1>1, <1>2 DEF ExactCloning, RunExact, Training, Validated, SelectedAt
  <1> QED BY <1>3, <1>4 DEF ExactCloning

\* A killed and resumed run of behavior cloning draws the batches, follows the learning-rate
\* schedule and selects the policies of a run that was never interrupted, for any losses,
\* scores, interval, patience and number of kills (commands/behavior_training.py:67-137).
THEOREM ExactInductive == CloningSpec => [](CloningInv /\ ExactCloning)
  <1>1. CloningInv /\ ExactCloning /\ [CloningNext]_cloningVars => ExactCloning'
    BY ExactAnew, ExactResume, ExactTrain, ExactValidate, ExactSaveBest, ExactSaveLatest,
       ExactEnds, ExactStutter DEF CloningNext
  <1> QED BY ExactStarts, CloningInductive, <1>1, PTL DEF CloningSpec

\* What cloning promises across kills and resumes: the run is exact, the policy its training
\* state selected is on disk, and it is within ten percent of the smallest loss
\* (commands/behavior_training.py:67-137, behavior_validation.py:101-204).
THEOREM Resumes == CloningSpec => []CloningResumes
  <1>1. CloningInv /\ ExactCloning => ResumesAreExact
    BY DEF CloningInv, StepsInv, ExactCloning, RunExact, Training, SelectedAt, ResumesAreExact
  <1> QED BY ExactInductive, OnDisk, Eligibility, <1>1, PTL DEF CloningResumes

-----------------------------------------------------------------------------
(* The leaders of a run.  A leader on disk may only be replaced by a better one
   of its family: that no leader is above the rank in memory (TopInv) is what
   keeps every rank backed (BackedInv), and the two hold each other up through
   the reservation of a rank, the write, its failure and the next process.   *)

-----------------------------------------------------------------------------
(* The inductive invariant.                                                *)

\* TypeOK in parts.
StoreOK ==
    /\ journal \in Seq(Batch)
    /\ files \subseteq Checkpoint
    /\ pruned \in Nat
LoopOK ==
    /\ learner \in {"down", "loop", "record", "leaders", "passes", "final", "wait",
                   "interrupted", "close"}
    /\ updates \in Nat /\ frontier \in 0 .. Len(journal)
    /\ passes \in 0 .. (frontier - base) /\ stopped \in BOOLEAN
    /\ base \in 0 .. Len(journal) /\ starts \in Nat
    /\ split \in BOOLEAN /\ behind \in BOOLEAN
PolicyOK ==
    /\ weights \in Weights /\ policy \in Snapshot /\ exact \in Weights
    /\ published \subseteq Snapshot
    /\ remembered \in Seq(Snapshot)
WriterOK ==
    /\ ranks \in [Kind -> Nat] /\ todo \subseteq Kind
    /\ writer \in [stage : {"idle", "pending", "written", "failed"}, file : Checkpoint,
                   previous : Nat]

\* The learner is recording a batch, or may record more; the last batch that is recorded.
Recording == learner \in {"record", "leaders", "passes"}
Active == learner = "loop" \/ Recording
Done == IF Recording THEN frontier - 1 ELSE frontier

\* What a learner that is down leaves, and where a batch is at hand.
ProcessInv ==
    /\ learner = "down" =>
         /\ frontier = 0 /\ base = 0 /\ updates = 0 /\ weights = NoWeights /\ ranks = NoRanks
         /\ remembered = <<>> /\ passes = 0 /\ ~stopped /\ writer = IdleWriter
    /\ learner # "leaders" => todo = {}
    /\ Active => passes <= Done - base
    /\ Serving => starts > 0
    /\ starts = 0 => journal = <<>> /\ files = {} /\ published = {} /\ policy = NoSnapshot
    /\ base <= frontier

\* What the files and the file being written say fits the journal, and a leader carries the
\* rank it has earned.
OnFile == files \cup {writer.file}
FilesInv ==
    \A f \in OnFile :
        /\ f.frontier <= Len(journal)
        /\ f.family \in Kind => /\ f.frontier > 0
                                /\ f.ranks[f.family] = RankOf(f.batch.result, f.family)

ShapeInv == StoreOK /\ LoopOK /\ PolicyOK /\ WriterOK /\ ProcessInv /\ FilesInv

-----------------------------------------------------------------------------
(* The policies that recovery recalls.                                     *)

\* Remembering and evicting keep a sequence of snapshots of some set.
LEMMA RememberType ==
    ASSUME NEW S, NEW memory \in Seq(S), NEW snapshot \in S
    PROVE  Remember(memory, snapshot) \in Seq(S)
  <1>1. CASE \E i \in DOMAIN memory : memory[i].version = snapshot.version
    <2>1. Remember(memory, snapshot) = [i \in 1 .. Len(memory) |->
            IF memory[i].version = snapshot.version THEN snapshot ELSE memory[i]]
      BY <1>1 DEF Remember
    <2> QED BY <2>1
  <1>2. CASE ~ \E i \in DOMAIN memory : memory[i].version = snapshot.version
    BY <1>2 DEF Remember
  <1> QED BY <1>1, <1>2

LEMMA EvictType ==
    ASSUME NEW S, NEW memory \in Seq(S)
    PROVE  Evict(memory) \in Seq(S)
  <1>1. Remembered \in Nat \ {0}
    BY LeadersAssumption
  <1>2. CASE Len(memory) <= Remembered
    BY <1>2 DEF Evict
  <1>3. CASE ~(Len(memory) <= Remembered)
    <2>1. Evict(memory) = SubSeq(memory, Len(memory) - Remembered + 1, Len(memory))
      BY <1>3 DEF Evict
    <2>2. Len(memory) - Remembered + 1 \in 1 .. Len(memory) + 1
      BY <1>1, <1>3
    <2> QED BY <2>1, <2>2
  <1> QED BY <1>2, <1>3

\* What recovery recalls is a sequence of snapshots.
LEMMA RecalledType ==
    ASSUME journal \in Seq(Batch), NEW f \in Checkpoint, f.frontier <= Len(journal)
    PROVE  Recalled(f) \in Seq(Snapshot)
  <1> DEFINE a == f.frontier
             Step(g, n) == [i \in a .. n |->
                 IF i = a THEN <<>> ELSE Remember(g[i - 1], journal[i].snapshot)]
             S == {n \in Nat : \E g : g = Step(g, a + n)}
             memory == CHOOSE g : g = Step(g, Len(journal))
  <1>1. a \in Nat /\ Len(journal) \in Nat /\ Len(journal) - a \in Nat
    BY DEF Checkpoint
  <1>2. Recalled(f) = memory[Len(journal)]
    BY DEF Recalled
  <1>3. 0 \in S
    <2> DEFINE g == [i \in a .. a |-> <<>>]
    <2>1. g = Step(g, a + 0)
      BY <1>1
    <2> QED BY <2>1
  <1>4. ASSUME NEW n \in Nat, n \in S PROVE n + 1 \in S
    <2>1. PICK g : g = Step(g, a + n)
      BY <1>4
    <2> DEFINE h == [i \in a .. a + n + 1 |->
                 IF i <= a + n THEN g[i] ELSE Remember(g[a + n], journal[a + n + 1].snapshot)]
    <2>2. h = Step(h, a + (n + 1))
      <3>1. ASSUME NEW i \in a .. a + n + 1
            PROVE  h[i] = IF i = a THEN <<>> ELSE Remember(h[i - 1], journal[i].snapshot)
        <4>1. CASE i = a
          BY <1>1, <2>1, <4>1
        <4>2. CASE i # a /\ i <= a + n
          <5>1. i - 1 \in a .. a + n /\ i \in a .. a + n
            BY <1>1, <4>2
          <5>2. h[i] = g[i] /\ h[i - 1] = g[i - 1]
            BY <5>1, <1>1
          <5>3. g[i] = Remember(g[i - 1], journal[i].snapshot)
            BY <2>1, <4>2, <5>1
          <5> QED BY <5>2, <5>3, <4>2
        <4>3. CASE i = a + n + 1
          BY <1>1, <4>3
        <4> QED BY <1>1, <4>1, <4>2, <4>3
      <3>2. a + (n + 1) = a + n + 1
        BY <1>1
      <3> QED BY <3>1, <3>2
    <2>3. \E k : k = Step(k, a + (n + 1))
      <3> HIDE DEF h
      <3> WITNESS h
      <3> QED BY <2>2
    <2> HIDE DEF Step
    <2> QED BY <2>3
  <1>5. memory = Step(memory, Len(journal))
    <2>1. Len(journal) - a \in S
      <3> HIDE DEF S
      <3> QED BY <1>1, <1>3, <1>4, SetInduction
    <2>2. a + (Len(journal) - a) = Len(journal)
      BY <1>1
    <2>3. \E g : g = Step(g, Len(journal))
      BY <2>1, <2>2
    <2> QED BY <2>3
  <1> DEFINE U == {n \in Nat : a + n <= Len(journal) => memory[a + n] \in Seq(Snapshot)}
  <1>6. 0 \in U
    <2>1. memory[a] = <<>>
      <3> HIDE DEF memory
      <3> QED BY <1>1, <1>5
    <2>2. a + 0 = a /\ <<>> \in Seq(Snapshot)
      BY <1>1
    <2> HIDE DEF memory
    <2> QED BY <2>1, <2>2
  <1>7. ASSUME NEW n \in Nat, n \in U PROVE n + 1 \in U
    <2> SUFFICES ASSUME a + n + 1 <= Len(journal) PROVE memory[a + n + 1] \in Seq(Snapshot)
      BY <1>1
    <2>1. memory[a + n] \in Seq(Snapshot)
      BY <1>1, <1>7
    <2>2. memory[a + n + 1] = Remember(memory[a + n], journal[a + n + 1].snapshot)
      <3> HIDE DEF memory
      <3>1. a + n + 1 \in a .. Len(journal) /\ a + n + 1 # a /\ (a + n + 1) - 1 = a + n
        BY <1>1
      <3> QED BY <1>5, <3>1
    <2>3. journal[a + n + 1].snapshot \in Snapshot
      <3>1. a + n + 1 \in 1 .. Len(journal)
        BY <1>1
      <3>2. journal[a + n + 1] \in Batch
        BY <3>1
      <3> QED BY <3>2 DEF Batch
    <2> HIDE DEF memory
    <2> QED BY <2>1, <2>2, <2>3, RememberType
  <1>8. Len(journal) - a \in U
    <2> HIDE DEF U
    <2> QED BY <1>1, <1>6, <1>7, SetInduction
  <1>9. a + (Len(journal) - a) = Len(journal)
    BY <1>1
  <1> HIDE DEF memory
  <1> QED BY <1>1, <1>2, <1>8, <1>9

-----------------------------------------------------------------------------
(* Types.                                                                  *)

LEMMA RankType ==
    ASSUME NEW r \in Results \cup {NoBatch.result}, NEW kind \in Kind
    PROVE  RankOf(r, kind) \in Nat
  <1>1. r \in [reliable : Nat, fastest : Nat, passed : BOOLEAN]
    <2>1. NoBatch.result = [reliable |-> 0, fastest |-> 0, passed |-> FALSE]
      BY DEF NoBatch
    <2>2. NoBatch.result \in [reliable : Nat, fastest : Nat, passed : BOOLEAN]
      BY <2>1
    <2> QED BY <2>2, LeadersAssumption
  <1> QED BY <1>1 DEF RankOf

LEMMA BatchRank ==
    ASSUME NEW b \in Batch \cup {NoBatch}, NEW kind \in Kind
    PROVE  RankOf(b.result, kind) \in Nat
  <1>1. b.result \in Results \cup {NoBatch.result}
    BY DEF Batch
  <1> QED BY <1>1, RankType

LEMMA CheckpointTypes ==
    ASSUME NEW f \in Checkpoint
    PROVE  /\ f.family \in Kind \cup {"distributed"} /\ f.batch \in Batch \cup {NoBatch}
           /\ f.weights \in Weights /\ f.updates \in Nat /\ f.frontier \in Nat
           /\ f.ranks \in [Kind -> Nat]
           /\ \A kind \in Kind : f.ranks[kind] \in Nat /\ RankOf(f.batch.result, kind) \in Nat
  <1>1. f.batch \in Batch \cup {NoBatch} /\ f.ranks \in [Kind -> Nat]
    BY DEF Checkpoint
  <1> QED BY <1>1, BatchRank DEF Checkpoint

LEMMA NothingTypes ==
    /\ NoWeights \in Weights /\ NoSnapshot \in Snapshot /\ NoRanks \in [Kind -> Nat]
    /\ NoCheckpoint \in Checkpoint /\ NoCheckpoint.frontier = 0
    /\ NoCheckpoint.family \notin Kind /\ NoCheckpoint.ranks = NoRanks
    /\ IdleWriter \in [stage : {"idle", "pending", "written", "failed"}, file : Checkpoint,
                       previous : Nat]
    /\ IdleWriter.stage = "idle" /\ IdleWriter.file = NoCheckpoint
  <1>1. /\ NoWeights \in Weights /\ NoSnapshot \in Snapshot /\ NoRanks \in [Kind -> Nat]
    BY DEF NoWeights, Weights, NoSnapshot, Snapshot, NoRanks
  <1>2. /\ NoCheckpoint \in Checkpoint /\ NoCheckpoint.frontier = 0
        /\ NoCheckpoint.family \notin Kind /\ NoCheckpoint.ranks = NoRanks
    BY <1>1 DEF NoCheckpoint, Checkpoint, Kind
  <1> QED BY <1>1, <1>2 DEF IdleWriter

LEMMA TypeParts == TypeOK <=> StoreOK /\ LoopOK /\ PolicyOK /\ WriterOK
  BY DEF TypeOK, StoreOK, LoopOK, PolicyOK, WriterOK

\* Every way a process ends loses its memory.
Ends == Exit \/ RaiseWriteFailure \/ RaiseSnapshotMissing \/ Crash
LEMMA EndsLose == Ends => MemoryIsLost /\ learner # "down"
  BY DEF Ends, Exit, RaiseWriteFailure, RaiseSnapshotMissing, Crash

\* The kinds of step, by what they leave alone.
InterruptsSave == \E kind \in Kind : InterruptSaveLeader(kind)
SavesLeader == \E kind \in Kind : SaveLeader(kind)
LEMMA StepKinds ==
    Next <=> \/ AssignEvaluation \/ ReceiveBatch \/ Update \/ Publish \/ Ingest \/ Promote
            \/ SavesLeader \/ LeadersSaved \/ RecordPasses \/ SaveRegular \/ WriteFile
            \/ FinishWrite \/ WriteFails \/ StopLearning \/ SaveFinal \/ Interrupt
            \/ InterruptsSave \/ Ends \/ StartFresh \/ Resume
  BY DEF Next, Ends, InterruptsSave, SavesLeader

LEMMA StoreFrame ==
    ASSUME Next PROVE ReceiveBatch \/ WriteFile \/ FinishWrite \/ UNCHANGED store
  <1>1. Ends => UNCHANGED store
    BY EndsLose DEF MemoryIsLost, store
  <1> QED
    BY <1>1, StepKinds DEF AssignEvaluation, Update, Publish, Ingest, Promote, SavesLeader,
       SaveLeader, LeadersSaved, RecordPasses, SaveRegular, WriteFails, StopLearning, SaveFinal,
       Interrupt, InterruptsSave, InterruptSaveLeader, Interrupted, StartFresh, Resume

LEMMA PolicyFrame ==
    ASSUME Next
    PROVE  AssignEvaluation \/ Update \/ Publish \/ Ingest \/ Promote \/ LeadersSaved
           \/ Interrupt \/ InterruptsSave \/ Ends \/ StartFresh \/ Resume
           \/ UNCHANGED <<weights, policy, published, remembered, exact>>
  BY StepKinds DEF training, ReceiveBatch, SavesLeader, SaveLeader, RecordPasses, SaveRegular,
     WriteFile, FinishWrite, WriteFails, StopLearning, SaveFinal

LEMMA WriterFrame ==
    ASSUME Next
    PROVE  Promote \/ SavesLeader \/ SaveRegular \/ WriteFile \/ FinishWrite \/ WriteFails
           \/ SaveFinal \/ Interrupt \/ InterruptsSave \/ Ends \/ Resume
           \/ UNCHANGED <<ranks, todo, writer>>
  BY StepKinds DEF AssignEvaluation, ReceiveBatch, Update, Publish, Ingest, LeadersSaved,
     RecordPasses, StopLearning, StartFresh

LEMMA CountFrame ==
    ASSUME Next
    PROVE  \/ Ingest \/ RecordPasses \/ Ends \/ Resume
           \/ UNCHANGED <<frontier, base, passes, stopped>>
  BY StepKinds DEF stopping, process, AssignEvaluation, ReceiveBatch, Update, Publish, Promote,
     SavesLeader, SaveLeader, LeadersSaved, SaveRegular, WriteFile, FinishWrite, WriteFails,
     StopLearning, SaveFinal, Interrupt, InterruptsSave, InterruptSaveLeader, Interrupted,
     StartFresh

LEMMA StoreStep == ASSUME ShapeInv, Next PROVE StoreOK'
  <1>1. CASE UNCHANGED store
    BY <1>1 DEF store, ShapeInv, StoreOK
  <1>2. CASE ReceiveBatch
    <2>1. journal \in Seq(Batch) /\ published \subseteq Snapshot
      BY DEF ShapeInv, StoreOK, PolicyOK
    <2>2. PICK snapshot \in published, result \in Results :
              journal' = Append(journal, [snapshot |-> snapshot, result |-> result])
      BY <1>2 DEF ReceiveBatch
    <2>3. [snapshot |-> snapshot, result |-> result] \in Batch
      BY <2>1 DEF Batch
    <2>4. journal' \in Seq(Batch)
      BY <2>1, <2>2, <2>3
    <2> QED BY <1>2, <2>4 DEF ReceiveBatch, ShapeInv, StoreOK
  <1>3. CASE WriteFile
    <2>1. files \subseteq Checkpoint /\ writer.file \in Checkpoint
      BY DEF ShapeInv, StoreOK, WriterOK
    <2>2. files' \subseteq Checkpoint
      BY <1>3, <2>1 DEF WriteFile
    <2> QED BY <1>3, <2>2 DEF WriteFile, ShapeInv, StoreOK
  <1>4. CASE FinishWrite
    <2>1. writer.file.frontier \in Nat /\ pruned \in Nat
      BY CheckpointTypes DEF ShapeInv, WriterOK, StoreOK
    <2> QED BY <1>4, <2>1 DEF FinishWrite, ShapeInv, StoreOK
  <1> QED BY <1>1, <1>2, <1>3, <1>4, StoreFrame

\* The journal grows, and its rows stay.
LEMMA JournalGrows ==
    ASSUME StoreOK, Next
    PROVE  /\ Len(journal) <= Len(journal') /\ Len(journal) \in Nat /\ Len(journal') \in Nat
           /\ \A i \in 1 .. Len(journal) : journal'[i] = journal[i]
  <1>1. CASE ReceiveBatch
    <2>1. PICK snapshot \in published, result \in Results :
              journal' = Append(journal, [snapshot |-> snapshot, result |-> result])
      BY <1>1 DEF ReceiveBatch
    <2> QED BY <2>1 DEF StoreOK
  <1>2. CASE journal' = journal
    BY <1>2 DEF StoreOK
  <1> QED BY <1>1, <1>2, StoreFrame DEF store, WriteFile, FinishWrite

LEMMA LoopStep == ASSUME ShapeInv, Next PROVE LoopOK'
  <1>1. /\ LoopOK /\ ProcessInv /\ Len(journal) <= Len(journal')
        /\ Len(journal) \in Nat /\ Len(journal') \in Nat
    BY JournalGrows DEF ShapeInv
  <1> DEFINE Counts == /\ frontier' \in 0 .. Len(journal') /\ base' \in 0 .. Len(journal')
                       /\ passes' \in 0 .. (frontier' - base') /\ stopped' \in BOOLEAN
             Rest == /\ learner' \in {"down", "loop", "record", "leaders", "passes", "final",
                                      "wait", "interrupted", "close"}
                     /\ updates' \in Nat /\ starts' \in Nat
                     /\ split' \in BOOLEAN /\ behind' \in BOOLEAN
  <1>2. Counts
    <2>1. CASE UNCHANGED <<frontier, base, passes, stopped>>
      BY <1>1, <2>1 DEF LoopOK
    <2>2. CASE Ingest
      BY <1>1, <2>2 DEF LoopOK, Ingest, stopping, process, store
    <2>3. CASE RecordPasses
      <3>1. passes <= frontier - 1 - base /\ passes' \in {passes, passes + 1, 0}
        BY <1>1, <2>3 DEF RecordPasses, ProcessInv, Active, Recording, Done, PassesAfter, stopping
      <3>2. stopped' \in BOOLEAN
        BY <1>1, <2>3 DEF RecordPasses, LoopOK, stopping
      <3> QED BY <1>1, <2>3, <3>1, <3>2 DEF RecordPasses, LoopOK, process
    <2>4. CASE Ends
      <3>1. frontier' = 0 /\ base' = 0 /\ passes' = 0 /\ stopped' = FALSE
        BY <2>4, EndsLose DEF MemoryIsLost
      <3>2. 0 \in 0 .. Len(journal') /\ 0 \in 0 .. (0 - 0)
        BY <1>1
      <3> QED BY <3>1, <3>2
    <2>5. CASE Resume
      <3>1. passes = 0 /\ ~stopped
        BY <1>1, <2>5 DEF Resume, ProcessInv
      <3>2. /\ frontier' = Len(journal) /\ base' = Len(journal)
            /\ UNCHANGED <<journal, passes, stopped>>
        BY <2>5 DEF Resume, stopping, store
      <3>3. 0 \in 0 .. (Len(journal) - Len(journal)) /\ Len(journal) \in 0 .. Len(journal)
        BY <1>1
      <3> QED BY <1>1, <3>1, <3>2, <3>3 DEF LoopOK
    <2> QED BY <2>1, <2>2, <2>3, <2>4, <2>5, CountFrame
  <1>3. Rest
    <2>1. CASE AssignEvaluation \/ ReceiveBatch \/ Publish \/ SavesLeader \/ SaveRegular
               \/ WriteFile \/ FinishWrite \/ WriteFails
      BY <1>1, <2>1 DEF LoopOK, AssignEvaluation, ReceiveBatch, Publish, SavesLeader, SaveLeader,
         SaveRegular, WriteFile, FinishWrite, WriteFails, training, process
    <2>2. CASE Update \/ Ingest \/ Promote \/ LeadersSaved \/ RecordPasses \/ StopLearning
               \/ SaveFinal
      BY <1>1, <2>2 DEF LoopOK, Update, Ingest, Promote, LeadersSaved, RecordPasses, StopLearning,
         SaveFinal, training, process
    <2>3. CASE Interrupt \/ InterruptsSave
      BY <1>1, <2>3 DEF LoopOK, Interrupt, InterruptsSave, InterruptSaveLeader, Interrupted,
         training
    <2>4. CASE Ends
      BY <1>1, <2>4, EndsLose DEF MemoryIsLost, LoopOK
    <2>5. CASE StartFresh
      BY <1>1, <2>5 DEF StartFresh, BeginServing, LoopOK
    <2>6. CASE Resume
      <3>1. PICK f \in files : updates' = f.updates /\ behind' = (behind \/ IsBehind(f))
        BY <2>6 DEF Resume
      <3>2. f.updates \in Nat
        BY CheckpointTypes DEF ShapeInv, StoreOK
      <3>3. IsBehind(f) \in BOOLEAN
        BY DEF IsBehind
      <3>4. behind' \in BOOLEAN
        BY <1>1, <3>1, <3>3 DEF LoopOK
      <3> QED BY <1>1, <2>6, <3>1, <3>2, <3>4 DEF Resume, BeginServing, LoopOK
    <2> QED BY <2>1, <2>2, <2>3, <2>4, <2>5, <2>6, StepKinds
  <1> HIDE DEF Counts, Rest
  <1>4. Counts /\ Rest => LoopOK'
    BY DEF Counts, Rest, LoopOK
  <1> QED BY <1>2, <1>3, <1>4

\* The snapshot of the row after the frontier, and of the row at it.
LEMMA RowType ==
    ASSUME StoreOK, NEW i \in 1 .. Len(journal)
    PROVE  journal[i] \in Batch /\ journal[i].snapshot \in Snapshot
           /\ journal[i].result \in Results
  <1>1. journal[i] \in Batch
    BY DEF StoreOK
  <1> QED BY <1>1 DEF Batch

LEMMA PolicyStep == ASSUME ShapeInv, Next PROVE PolicyOK'
  <1>1. PolicyOK /\ LoopOK /\ StoreOK /\ ProcessInv
    BY DEF ShapeInv
  <1>2. CASE UNCHANGED <<weights, policy, published, remembered, exact>>
    BY <1>1, <1>2 DEF PolicyOK
  <1>3. CASE AssignEvaluation
    <2>1. remembered' \in Seq(Snapshot)
      BY <1>1, <1>3, RememberType, EvictType DEF AssignEvaluation, PolicyOK
    <2> QED BY <1>1, <1>3, <2>1 DEF AssignEvaluation, PolicyOK, training
  <1>4. CASE Update
    <2>1. weights' \in Weights
      BY <1>1, <1>4 DEF Update, LoopOK, Weights
    <2> QED BY <1>1, <1>4, <2>1 DEF Update, PolicyOK
  <1>5. CASE Publish
    <2>1. policy' \in Snapshot
      BY <1>1, <1>5 DEF Publish, LoopOK, PolicyOK, Snapshot
    <2> QED BY <1>1, <1>5, <2>1 DEF Publish, PolicyOK
  <1>6. CASE Ingest
    <2>1. frontier + 1 \in 1 .. Len(journal)
      BY <1>1, <1>6 DEF Ingest, LoopOK
    <2>2. remembered' \in Seq(Snapshot)
      BY <1>1, <1>6, <2>1, RowType, RememberType DEF Ingest, PolicyOK
    <2> QED BY <1>1, <1>6, <2>2 DEF Ingest, PolicyOK, training
  <1>7. CASE Promote
    <2>1. CASE Promotions = {}
      BY <1>1, <1>7, <2>1 DEF Promote, PolicyOK, training
    <2>2. CASE Promotions # {}
      <3>1. /\ IsRemembered(Current.snapshot.version)
            /\ exact' = StateOf(Current.snapshot.version)
        BY <1>7, <2>2 DEF Promote
      <3>2. \E i \in DOMAIN remembered : remembered[i].version = Current.snapshot.version
        BY <3>1 DEF IsRemembered
      <3>3. PICK i \in DOMAIN remembered : StateOf(Current.snapshot.version) = remembered[i].weights
        BY <3>2 DEF StateOf
      <3>4. remembered[i] \in Snapshot
        BY <1>1 DEF PolicyOK
      <3>5. exact' \in Weights
        BY <3>1, <3>3, <3>4 DEF Snapshot
      <3> QED BY <1>1, <1>7, <3>5 DEF Promote, PolicyOK, training
    <2> QED BY <2>1, <2>2
  <1>8. CASE LeadersSaved \/ Interrupt \/ InterruptsSave
    <2>1. exact' = NoWeights /\ UNCHANGED <<weights, policy, published, remembered>>
      BY <1>8 DEF LeadersSaved, Interrupt, InterruptsSave, InterruptSaveLeader, Interrupted,
         training
    <2> QED BY <1>1, <2>1, NothingTypes DEF PolicyOK
  <1>9. CASE Ends
    <2>1. <<>> \in Seq(Snapshot)
      OBVIOUS
    <2> QED BY <1>1, <1>9, <2>1, EndsLose, NothingTypes DEF MemoryIsLost, PolicyOK
  <1>10. CASE StartFresh
    <2>1. starts \in Nat /\ updates \in Nat /\ files \subseteq Checkpoint
      BY <1>1 DEF LoopOK, StoreOK
    <2>2. weights' \in Weights
      BY <1>10, <2>1, CheckpointTypes DEF StartFresh, Weights
    <2>3. policy' \in Snapshot
      BY <1>10, <2>1, <2>2 DEF StartFresh, BeginServing, Snapshot
    <2> QED BY <1>1, <1>10, <2>2, <2>3 DEF StartFresh, BeginServing, PolicyOK
  <1>11. CASE Resume
    <2>1. PICK f \in files : updates' = f.updates /\ weights' = f.weights
                            /\ remembered' = Recalled(f)
      BY <1>11 DEF Resume
    <2>2. f \in Checkpoint /\ f.frontier <= Len(journal) /\ journal \in Seq(Batch)
      BY <1>1 DEF StoreOK, ShapeInv, FilesInv, OnFile
    <2>3. weights' \in Weights /\ updates' \in Nat
      BY <2>1, <2>2, CheckpointTypes
    <2>4. policy' \in Snapshot
      BY <1>11, <2>3 DEF Resume, BeginServing, Snapshot
    <2>5. remembered' \in Seq(Snapshot)
      BY <2>1, <2>2, RecalledType
    <2> QED BY <1>1, <1>11, <2>3, <2>4, <2>5 DEF Resume, BeginServing, PolicyOK
  <1> QED
    BY <1>2, <1>3, <1>4, <1>5, <1>6, <1>7, <1>8, <1>9, <1>10, <1>11, PolicyFrame

\* The batch at hand, and what is reserved for it and written about it.
LEMMA AtHand ==
    ASSUME ShapeInv, Recording
    PROVE  /\ frontier \in 1 .. Len(journal) /\ Current \in Batch /\ Current = journal[frontier]
           /\ \A kind \in Kind : RankOf(Current.result, kind) \in Nat
           /\ base < frontier
  <1>1. LoopOK /\ StoreOK /\ ProcessInv
    BY DEF ShapeInv
  <1>2. Active /\ passes <= frontier - 1 - base /\ passes \in Nat /\ base \in Nat
    BY <1>1 DEF Active, ProcessInv, Done, LoopOK
  <1>3. frontier \in 1 .. Len(journal) /\ base < frontier
    BY <1>1, <1>2 DEF LoopOK
  <1> QED BY <1>1, <1>3, RowType, BatchRank DEF Current

LEMMA LeaderTypes ==
    ASSUME ShapeInv, Recording, NEW kind \in Kind
    PROVE  /\ Reserved(kind) \in [Kind -> Nat]
           /\ Reserved(kind)[kind] = RankOf(Current.result, kind)
           /\ \A k \in Kind \ {kind} : Reserved(kind)[k] = ranks[k]
           /\ LeaderCheckpoint(kind) \in Checkpoint
           /\ LeaderCheckpoint(kind).family = kind
           /\ LeaderCheckpoint(kind).batch = Current
           /\ LeaderCheckpoint(kind).weights = exact
           /\ LeaderCheckpoint(kind).frontier = frontier
           /\ LeaderCheckpoint(kind).ranks = Reserved(kind)
  <1>1. /\ ranks \in [Kind -> Nat] /\ exact \in Weights /\ updates \in Nat /\ frontier \in Nat
    BY DEF ShapeInv, WriterOK, PolicyOK, LoopOK
  <1>2. Current \in Batch /\ RankOf(Current.result, kind) \in Nat
    BY AtHand
  <1>3. /\ Reserved(kind) \in [Kind -> Nat]
        /\ Reserved(kind)[kind] = RankOf(Current.result, kind)
        /\ \A k \in Kind \ {kind} : Reserved(kind)[k] = ranks[k]
    BY <1>1, <1>2 DEF Reserved
  <1> QED BY <1>1, <1>2, <1>3 DEF LeaderCheckpoint, Checkpoint

LEMMA RegularTypes ==
    ASSUME ShapeInv
    PROVE  /\ RegularCheckpoint \in Checkpoint /\ RegularCheckpoint.family \notin Kind
           /\ RegularCheckpoint.frontier = frontier /\ RegularCheckpoint.ranks = ranks
  <1>1. /\ ranks \in [Kind -> Nat] /\ weights \in Weights /\ updates \in Nat /\ frontier \in Nat
    BY DEF ShapeInv, WriterOK, PolicyOK, LoopOK
  <1> QED BY <1>1 DEF RegularCheckpoint, Checkpoint, Kind

\* What becomes of the writer in each step that touches it.
LEMMA QueuedLeader ==
    ASSUME ShapeInv, NEW kind \in Kind, SaveLeader(kind) \/ InterruptSaveLeader(kind)
    PROVE  /\ learner = "leaders" /\ Recording /\ writer.stage = "idle" /\ kind \in todo
           /\ \/ /\ writer' = [stage |-> "pending", file |-> LeaderCheckpoint(kind),
                               previous |-> ranks[kind]]
                 /\ \/ ranks' = Reserved(kind) /\ todo' = todo \ {kind} /\ learner' = learner
                    \/ ranks' = ranks /\ todo' = {} /\ learner' \in {"interrupted", "close"}
                 /\ split' = split
              \/ /\ writer' = writer /\ ranks' = Reserved(kind) /\ todo' = {} /\ split'
                 /\ learner' \in {"interrupted", "close"}
  BY DEF SaveLeader, InterruptSaveLeader, Interrupted, NextKind, QueueLeader, Recording, process

LEMMA RolledBackFacts ==
    ASSUME ShapeInv
    PROVE  /\ RolledBack \in [Kind -> Nat]
           /\ \A kind \in Kind :
                  \/ /\ RolledBack[kind] = ranks[kind]
                     /\ writer.file.family = kind => ranks[kind] # writer.file.ranks[kind]
                  \/ /\ RolledBack[kind] = writer.previous
                     /\ writer.file.family = kind /\ ranks[kind] = writer.file.ranks[kind]
  <1>1. ranks \in [Kind -> Nat] /\ writer.previous \in Nat
    BY DEF ShapeInv, WriterOK
  <1> DEFINE own == writer.file.family
  <1>2. CASE own \in Kind /\ ranks[own] = writer.file.ranks[own]
    <2>1. RolledBack = [ranks EXCEPT ![own] = writer.previous]
      BY <1>2 DEF RolledBack
    <2> QED BY <1>1, <1>2, <2>1
  <1>3. CASE ~(own \in Kind /\ ranks[own] = writer.file.ranks[own])
    <2>1. RolledBack = ranks
      BY <1>3 DEF RolledBack
    <2> QED BY <1>1, <1>3, <2>1
  <1> QED BY <1>2, <1>3

LEMMA WriterStep == ASSUME ShapeInv, Next PROVE WriterOK'
  <1> DEFINE Writer == [stage : {"idle", "pending", "written", "failed"}, file : Checkpoint,
                        previous : Nat]
  <1>1. ranks \in [Kind -> Nat] /\ todo \subseteq Kind /\ writer \in Writer
    BY DEF ShapeInv, WriterOK
  <1>2. CASE UNCHANGED <<ranks, todo, writer>>
    BY <1>1, <1>2 DEF WriterOK
  <1>3. CASE Promote
    <2>1. todo' \subseteq Kind
      BY <1>1, <1>3 DEF Promote, Promotions
    <2> QED BY <1>1, <1>3, <2>1 DEF Promote, WriterOK
  <1>4. CASE SavesLeader \/ InterruptsSave
    <2>1. PICK kind \in Kind : SaveLeader(kind) \/ InterruptSaveLeader(kind)
      BY <1>4 DEF SavesLeader, InterruptsSave
    <2>2. Recording /\ ranks[kind] \in Nat
      BY <1>1, <2>1, QueuedLeader
    <2>3. LeaderCheckpoint(kind) \in Checkpoint /\ Reserved(kind) \in [Kind -> Nat]
      BY <2>2, LeaderTypes
    <2>4. [stage |-> "pending", file |-> LeaderCheckpoint(kind), previous |-> ranks[kind]]
              \in Writer
      BY <2>2, <2>3
    <2>5. writer' \in Writer
      BY <1>1, <2>1, <2>4, QueuedLeader
    <2>6. ranks' \in [Kind -> Nat] /\ todo' \subseteq Kind
      BY <1>1, <2>1, <2>3, QueuedLeader
    <2> QED BY <2>5, <2>6 DEF WriterOK
  <1>5. CASE SaveRegular \/ SaveFinal
    <2>1. /\ writer' = [stage |-> "pending", previous |-> 0, file |-> RegularCheckpoint]
          /\ UNCHANGED <<ranks, todo>>
      BY <1>5 DEF SaveRegular, SaveFinal, QueueCheckpoint
    <2>2. writer' \in Writer
      BY <2>1, RegularTypes
    <2> QED BY <1>1, <2>1, <2>2 DEF WriterOK
  <1>6. CASE WriteFile \/ WriteFails
    <2>1. \/ writer' = [writer EXCEPT !.stage = "written"]
          \/ writer' = [writer EXCEPT !.stage = "failed"]
      BY <1>6 DEF WriteFile, WriteFails
    <2>2. writer' \in Writer
      BY <1>1, <2>1
    <2>3. ranks' \in [Kind -> Nat] /\ todo' = todo
      BY <1>1, <1>6, RolledBackFacts DEF WriteFile, WriteFails
    <2> QED BY <1>1, <2>2, <2>3 DEF WriterOK
  <1>7. CASE FinishWrite \/ Interrupt
    <2>1. writer' = IdleWriter \/ writer' = writer
      BY <1>7 DEF FinishWrite, Interrupt
    <2>2. ranks' = ranks /\ (todo' = todo \/ todo' = {})
      BY <1>7 DEF FinishWrite, Interrupt, Interrupted
    <2> QED BY <1>1, <2>1, <2>2, NothingTypes DEF WriterOK
  <1>8. CASE Ends
    BY <1>8, EndsLose, NothingTypes DEF MemoryIsLost, WriterOK
  <1>9. CASE Resume
    <2>1. PICK f \in files : ranks' = f.ranks
      BY <1>9 DEF Resume
    <2>2. ranks' \in [Kind -> Nat]
      BY <2>1, CheckpointTypes DEF ShapeInv, StoreOK
    <2> QED BY <1>1, <1>9, <2>2 DEF Resume, WriterOK
  <1> QED BY <1>2, <1>3, <1>4, <1>5, <1>6, <1>7, <1>8, <1>9, WriterFrame

\* Which files there may be after a step: those that were there, the one that was being written
\* and the one that is queued.
LEMMA OnFileStep ==
    ASSUME ShapeInv, Next, NEW f \in OnFile'
    PROVE  \/ f \in OnFile
           \/ f = NoCheckpoint
           \/ f = RegularCheckpoint
           \/ /\ Recording /\ learner = "leaders"
              /\ \E kind \in Kind : f = LeaderCheckpoint(kind) /\ kind \in todo
  <1>1. f \in files' \/ f = writer'.file
    BY DEF OnFile
  <1>2. CASE f \in files'
    <2>1. CASE WriteFile
      BY <1>2, <2>1 DEF WriteFile, OnFile
    <2>2. CASE UNCHANGED files
      BY <1>2, <2>2 DEF OnFile
    <2> QED BY <2>1, <2>2, StoreFrame DEF store, ReceiveBatch, FinishWrite
  <1>3. CASE f = writer'.file
    <2>1. CASE writer'.file = writer.file
      BY <1>3, <2>1 DEF OnFile
    <2>2. CASE SavesLeader \/ InterruptsSave
      <3>1. PICK kind \in Kind : SaveLeader(kind) \/ InterruptSaveLeader(kind)
        BY <2>2 DEF SavesLeader, InterruptsSave
      <3> QED BY <1>3, <3>1, <2>1, QueuedLeader
    <2>3. CASE SaveRegular \/ SaveFinal
      BY <1>3, <2>3 DEF SaveRegular, SaveFinal, QueueCheckpoint
    <2>4. CASE WriteFile \/ WriteFails
      <3>1. writer'.file = writer.file
        BY <2>4 DEF WriteFile, WriteFails, ShapeInv, WriterOK
      <3> QED BY <2>1, <3>1
    <2>5. CASE FinishWrite \/ Interrupt
      BY <1>3, <2>1, <2>5, NothingTypes DEF FinishWrite, Interrupt
    <2>6. CASE Ends
      BY <1>3, <2>6, EndsLose, NothingTypes DEF MemoryIsLost
    <2>7. CASE Promote \/ Resume
      BY <2>1, <2>7 DEF Promote, Resume
    <2> QED BY <2>1, <2>2, <2>3, <2>4, <2>5, <2>6, <2>7, WriterFrame
  <1> QED BY <1>1, <1>2, <1>3

LEMMA FilesStep == ASSUME ShapeInv, Next PROVE FilesInv'
  <1>1. /\ LoopOK /\ Len(journal) <= Len(journal')
        /\ Len(journal) \in Nat /\ Len(journal') \in Nat
    BY JournalGrows DEF ShapeInv
  <1>2. SUFFICES ASSUME NEW f \in OnFile'
                 PROVE  /\ f.frontier <= Len(journal')
                        /\ f.family \in Kind =>
                              f.frontier > 0 /\ f.ranks[f.family] = RankOf(f.batch.result, f.family)
    BY DEF FilesInv
  <1>3. CASE f \in OnFile
    <2>1. f \in Checkpoint /\ f.frontier <= Len(journal)
      BY <1>3 DEF OnFile, FilesInv, ShapeInv, StoreOK, WriterOK
    <2>2. f.frontier \in Nat
      BY <2>1, CheckpointTypes
    <2> QED BY <1>1, <1>3, <2>1, <2>2 DEF FilesInv, ShapeInv
  <1>4. CASE f = NoCheckpoint
    BY <1>1, <1>4, NothingTypes
  <1>5. CASE f = RegularCheckpoint
    BY <1>1, <1>5, RegularTypes DEF LoopOK
  <1>6. ASSUME NEW kind \in Kind, f = LeaderCheckpoint(kind), Recording
        PROVE  /\ f.frontier <= Len(journal')
               /\ f.family \in Kind =>
                     f.frontier > 0 /\ f.ranks[f.family] = RankOf(f.batch.result, f.family)
    BY <1>1, <1>6, LeaderTypes, AtHand
  <1> QED BY <1>3, <1>4, <1>5, <1>6, OnFileStep

LEMMA DownStep == ASSUME ShapeInv, learner = "down", Next PROVE StartFresh \/ Resume
  <1>1. writer.stage = "idle"
    BY NothingTypes DEF ShapeInv, ProcessInv
  <1> QED
    BY <1>1, StepKinds, EndsLose DEF AssignEvaluation, ReceiveBatch, Serving, Update, Publish,
       Ingest, Promote, SavesLeader, SaveLeader, LeadersSaved, RecordPasses, SaveRegular,
       WriteFile, FinishWrite, WriteFails, StopLearning, SaveFinal, Interrupt, InterruptsSave,
       InterruptSaveLeader, Interrupted

LEMMA LearnerFrame ==
    ASSUME ShapeInv, Next, learner # "down"
    PROVE  \/ Ingest \/ Promote \/ LeadersSaved \/ RecordPasses \/ Ends
           \/ learner' \in {"final", "wait", "interrupted", "close"}
                /\ UNCHANGED <<frontier, base, passes, stopped, journal, starts>>
                /\ ((todo' = todo /\ learner # "leaders") \/ todo' = {})
           \/ learner' = learner /\ UNCHANGED <<frontier, base, passes, stopped, starts>>
                /\ todo' \subseteq todo
  BY StepKinds DEF AssignEvaluation, ReceiveBatch, Update, Publish, SavesLeader, SaveLeader,
     SaveRegular, WriteFile, FinishWrite, WriteFails, StopLearning, SaveFinal, Interrupt,
     InterruptsSave, InterruptSaveLeader, Interrupted, StartFresh, Resume, process, stopping, store

LEMMA ProcessStep == ASSUME ShapeInv, Next PROVE ProcessInv'
  <1>1. /\ StoreOK /\ LoopOK /\ ProcessInv /\ todo \subseteq Kind
    BY DEF ShapeInv, WriterOK
  <1>2. CASE learner = "down"
    <2>1. StartFresh \/ Resume
      BY <1>2, DownStep
    <2>2. /\ learner' = "loop" /\ starts' = starts + 1 /\ todo' = todo
          /\ UNCHANGED <<passes, stopped>>
          /\ UNCHANGED <<frontier, base>> \/ (frontier' = Len(journal) /\ base' = Len(journal))
      <3>1. /\ learner' = "loop" /\ starts' = starts + 1 /\ todo' = todo
            /\ UNCHANGED <<passes, stopped>>
        BY <2>1 DEF StartFresh, Resume, BeginServing, stopping
      <3>2. CASE StartFresh
        <4>1. UNCHANGED <<frontier, base>>
          BY <3>2 DEF StartFresh
        <4> QED BY <3>1, <4>1
      <3>3. CASE Resume
        BY <3>1, <3>3 DEF Resume
      <3> QED BY <2>1, <3>2, <3>3
    <2> QED
      BY <1>1, <1>2, <2>2 DEF ProcessInv, LoopOK, Active, Recording, Done, Serving
  <1>3. CASE Ends
    <2>1. starts # 0
      BY <1>1, <1>3, EndsLose DEF ProcessInv, Serving
    <2> QED
      BY <1>1, <1>3, <2>1, EndsLose DEF MemoryIsLost, ProcessInv, Active, Recording, Serving
  <1>4. CASE learner # "down" /\ ~Ends
    <2>1. starts > 0
      BY <1>1, <1>4 DEF ProcessInv, Serving
    <2>2. starts' > 0 /\ base' = base
      BY <1>1, <1>4, <2>1, LearnerFrame DEF Ingest, Promote, LeadersSaved, RecordPasses, process
    <2>3. learner' # "down"
      BY <1>1, <1>4, LearnerFrame DEF Ingest, Promote, LeadersSaved, RecordPasses
    <2>4. learner' # "leaders" => todo' = {}
      BY <1>1, <1>4, LearnerFrame DEF Ingest, Promote, LeadersSaved, RecordPasses, ProcessInv
    <2>5. (Active => passes <= Done - base)' /\ base' <= frontier'
      <3>1. CASE Ingest
        BY <1>1, <3>1 DEF Ingest, stopping, process, ProcessInv, LoopOK, Active, Recording, Done
      <3>2. CASE RecordPasses
        <4>1. passes <= frontier - 1 - base /\ passes' \in {passes, passes + 1, 0}
          BY <1>1, <3>2
             DEF RecordPasses, ProcessInv, Active, Recording, Done, PassesAfter, stopping
        <4> QED
          BY <1>1, <3>2, <4>1 DEF RecordPasses, process, LoopOK, ProcessInv, Active, Recording, Done
      <3>3. CASE Promote \/ LeadersSaved
        BY <1>1, <3>3
           DEF Promote, LeadersSaved, stopping, process, ProcessInv, LoopOK, Active, Recording, Done
      <3>4. CASE /\ UNCHANGED <<frontier, base, passes>>
                 /\ learner' = learner \/ learner' \in {"final", "wait", "interrupted", "close"}
        BY <1>1, <3>4 DEF ProcessInv, Active, Recording, Done
      <3> QED BY <1>4, <3>1, <3>2, <3>3, <3>4, LearnerFrame
    <2> QED BY <2>1, <2>2, <2>3, <2>4, <2>5 DEF ProcessInv, Serving
  <1> QED BY <1>2, <1>3, <1>4

LEMMA ShapeInit == Init => ShapeInv
  <1> SUFFICES ASSUME Init PROVE ShapeInv
    OBVIOUS
  <1>1. StoreOK
    BY DEF Init, StoreOK
  <1>2. LoopOK
    <2>1. 0 \in 0 .. Len(<<>>) /\ 0 \in 0 .. (0 - 0)
      OBVIOUS
    <2> QED BY <2>1 DEF Init, LoopOK
  <1>3. PolicyOK
    BY NothingTypes DEF Init, PolicyOK
  <1>4. WriterOK
    BY NothingTypes DEF Init, WriterOK
  <1>5. ProcessInv
    BY DEF Init, ProcessInv, Active, Recording, Done, Serving
  <1>6. FilesInv
    <2>1. OnFile = {NoCheckpoint}
      BY NothingTypes DEF Init, OnFile
    <2> QED BY <2>1, NothingTypes DEF Init, FilesInv
  <1> QED BY <1>1, <1>2, <1>3, <1>4, <1>5, <1>6 DEF ShapeInv

LEMMA ShapeStutter == ASSUME ShapeInv, UNCHANGED vars PROVE ShapeInv'
  <1>1. StoreOK' /\ LoopOK'
    BY DEF vars, ShapeInv, StoreOK, LoopOK
  <1>2. PolicyOK' /\ WriterOK'
    BY DEF vars, ShapeInv, PolicyOK, WriterOK
  <1>3. ProcessInv' /\ FilesInv'
    BY DEF vars, ShapeInv, ProcessInv, Active, Recording, Done, Serving, FilesInv, OnFile
  <1> QED BY <1>1, <1>2, <1>3 DEF ShapeInv

\* The shape of the state: types, what a learner that is down leaves, and what files say.
THEOREM Shape == Spec => []ShapeInv
  <1>1. ShapeInv /\ [Next]_vars => ShapeInv'
    BY StoreStep, LoopStep, PolicyStep, WriterStep, ProcessStep, FilesStep, ShapeStutter
       DEF ShapeInv
  <1> QED BY <1>1, ShapeInit, PTL DEF Spec

\* TypeOK holds of every reachable state.
THEOREM LeadersTypeCorrect == Spec => []TypeOK
  <1>1. ShapeInv => TypeOK
    BY TypeParts DEF ShapeInv
  <1> QED BY <1>1, Shape, PTL

-----------------------------------------------------------------------------
(* The stop of training.                                                   *)

\* The passes are the last batches that passed, and the one before them did not.
PassesInv ==
    /\ RequiredBatches = 0 => passes = 0
    /\ Active =>
         /\ \A j \in Done - passes + 1 .. Done : journal[j].result.passed
         /\ passes < Done - base /\ RequiredBatches > 0 => ~journal[Done - passes].result.passed

\* RequiredBatches batches have passed in a row by some batch up to the n-th.
PassedInARow(n) ==
    \E i \in (base + RequiredBatches) .. n :
        \A j \in (i - RequiredBatches + 1) .. i : journal[j].result.passed
StopInv == Active /\ RequiredBatches > 0 => (stopped <=> PassedInARow(Done))

\* The rows that are recorded say the same after a step that leaves the counts alone.
LEMMA PassesStay ==
    ASSUME ShapeInv, Next, PassesInv, StopInv, Active, Active', Done' = Done,
           UNCHANGED <<base, passes, stopped>>
    PROVE  PassesInv' /\ StopInv'
  <1>1. /\ Done \in Int /\ base \in Nat /\ passes \in Nat /\ passes <= Done - base
        /\ Done <= Len(journal) /\ RequiredBatches \in Nat
    BY LeadersAssumption DEF ShapeInv, LoopOK, ProcessInv, Done
  <1>2. \A j \in (base + 1) .. Done : journal'[j] = journal[j]
    BY <1>1, JournalGrows DEF ShapeInv
  <1>3. PassesInv'
    BY <1>1, <1>2 DEF PassesInv
  <1>4. RequiredBatches > 0 => (PassedInARow(Done) <=> PassedInARow(Done)')
    <2> SUFFICES ASSUME RequiredBatches > 0
                 PROVE  PassedInARow(Done) <=> PassedInARow(Done)'
      OBVIOUS
    <2>1. \A i \in (base + RequiredBatches) .. Done : \A j \in (i - RequiredBatches + 1) .. i :
              journal'[j] = journal[j]
      BY <1>1, <1>2
    <2> QED BY <2>1 DEF PassedInARow
  <1> QED BY <1>3, <1>4 DEF StopInv

\* Recording one more batch.
LEMMA PassesCount ==
    ASSUME ShapeInv, PassesInv, StopInv, RecordPasses
    PROVE  PassesInv' /\ StopInv'
  <1>1. /\ learner = "passes" /\ learner' = "loop" /\ UNCHANGED <<frontier, base, journal>>
    BY DEF RecordPasses, process, store
  <1>2. Active /\ Recording /\ Done = frontier - 1 /\ Active' /\ Done' = frontier
    BY <1>1 DEF Active, Recording, Done
  <1>3. /\ frontier \in Nat /\ base \in Nat /\ passes \in Nat /\ passes <= frontier - 1 - base
        /\ RequiredBatches \in Nat
    BY <1>2, LeadersAssumption DEF ShapeInv, LoopOK, ProcessInv
  <1>4. CASE RequiredBatches = 0
    <2>1. UNCHANGED <<passes, stopped>>
      BY <1>4 DEF RecordPasses, stopping
    <2>2. passes = 0
      BY <1>4 DEF PassesInv
    <2> QED BY <1>1, <1>2, <1>3, <1>4, <2>1, <2>2 DEF PassesInv, StopInv
  <1>5. CASE RequiredBatches > 0
    <2>1. /\ \/ journal[frontier].result.passed /\ passes' = passes + 1
             \/ ~journal[frontier].result.passed /\ passes' = 0
          /\ stopped' = (stopped \/ passes' >= RequiredBatches)
      BY <1>3, <1>5 DEF RecordPasses, Current, PassesAfter
    <2>2. PassesInv'
      <3>1. CASE passes' = 0 /\ ~journal[frontier].result.passed
        BY <1>1, <1>2, <1>3, <1>5, <3>1 DEF PassesInv
      <3>2. CASE passes' = passes + 1 /\ journal[frontier].result.passed
        <4>1. frontier - passes' = (frontier - 1) - passes
          BY <1>3, <3>2
        <4>2. \A j \in frontier - passes' + 1 .. frontier :
                  j = frontier \/ j \in (frontier - 1) - passes + 1 .. frontier - 1
          BY <1>3, <3>2
        <4>3. \A j \in (frontier - 1) - passes + 1 .. frontier - 1 : journal[j].result.passed
          BY <1>2 DEF PassesInv
        <4>4. passes' < frontier - base => ~journal[frontier - passes'].result.passed
          BY <1>2, <1>3, <1>5, <3>2, <4>1 DEF PassesInv
        <4> QED BY <1>1, <1>2, <1>5, <3>2, <4>2, <4>3, <4>4 DEF PassesInv
      <3> QED BY <2>1, <3>1, <3>2
    <2> DEFINE p == passes'
    <2>3. p \in Nat /\ p <= frontier - base
      BY <1>3, <2>1
    <2>4. p < frontier - base => ~journal[frontier - p].result.passed
      BY <1>1, <1>2, <1>5, <2>2 DEF PassesInv
    <2>5. \A j \in frontier - p + 1 .. frontier : journal[j].result.passed
      BY <1>1, <1>2, <2>2 DEF PassesInv
    <2> HIDE DEF p
    <2>6. p >= RequiredBatches => PassedInARow(frontier)
      <3> SUFFICES ASSUME p >= RequiredBatches PROVE PassedInARow(frontier)
        OBVIOUS
      <3>2. /\ frontier \in (base + RequiredBatches) .. frontier
            /\ \A j \in (frontier - RequiredBatches + 1) .. frontier :
                   j \in frontier - p + 1 .. frontier
        BY <1>3, <2>3
      <3> QED BY <2>5, <3>2 DEF PassedInARow
    <2>7. PassedInARow(frontier - 1) => PassedInARow(frontier)
      BY <1>3 DEF PassedInARow
    <2>8. ASSUME PassedInARow(frontier)
          PROVE  PassedInARow(frontier - 1) \/ p >= RequiredBatches
      <3>1. PICK i \in (base + RequiredBatches) .. frontier :
                \A j \in (i - RequiredBatches + 1) .. i : journal[j].result.passed
        BY <2>8 DEF PassedInARow
      <3>2. CASE i # frontier
        <4>1. i \in (base + RequiredBatches) .. (frontier - 1)
          BY <1>3, <3>2
        <4> QED BY <3>1, <4>1 DEF PassedInARow
      <3>3. CASE i = frontier
        <4>1. SUFFICES ASSUME p < RequiredBatches PROVE FALSE
          BY <1>3, <2>3
        <4>2. ~journal[frontier - p].result.passed
          BY <1>3, <2>3, <2>4, <3>1, <3>3, <4>1
        <4>3. frontier - p \in (i - RequiredBatches + 1) .. i
          BY <1>3, <2>3, <3>3, <4>1
        <4> QED BY <3>1, <4>2, <4>3
      <3> QED BY <3>2, <3>3
    <2>9. stopped <=> PassedInARow(frontier - 1)
      BY <1>2, <1>5 DEF StopInv
    <2>10. PassedInARow(frontier)' <=> PassedInARow(frontier)
      BY <1>1 DEF PassedInARow
    <2>11. StopInv'
      BY <1>1, <1>2, <2>1, <2>6, <2>7, <2>8, <2>9, <2>10 DEF StopInv, p
    <2> QED BY <2>2, <2>11
  <1> QED BY <1>3, <1>4, <1>5

\* Without a required number of batches no passes are counted.
LEMMA NoPasses == ASSUME RequiredBatches = 0, passes = 0, Next PROVE passes' = 0
  <1>1. CASE RecordPasses
    BY <1>1 DEF RecordPasses, stopping
  <1>2. CASE Ends
    BY <1>2, EndsLose DEF MemoryIsLost
  <1> QED BY <1>1, <1>2, CountFrame DEF Ingest, Resume, stopping

LEMMA PassesStep ==
    ASSUME ShapeInv, Next, PassesInv, StopInv
    PROVE  PassesInv' /\ StopInv'
  <1>1. CASE ~Active'
    BY <1>1, NoPasses DEF PassesInv, StopInv
  <1>2. CASE Active' /\ learner = "down"
    <2>1. StartFresh \/ Resume
      BY <1>2, DownStep
    <2>2. learner' = "loop" /\ passes' = 0 /\ ~stopped' /\ base' = frontier' /\ frontier' \in Nat
      <3>1. passes = 0 /\ ~stopped /\ frontier = 0 /\ base = 0 /\ Len(journal) \in Nat
        BY <1>2 DEF ShapeInv, ProcessInv, StoreOK
      <3>2. CASE StartFresh
        BY <3>1, <3>2 DEF StartFresh, BeginServing, stopping
      <3>3. CASE Resume
        BY <3>1, <3>3 DEF Resume, BeginServing, stopping
      <3> QED BY <2>1, <3>2, <3>3
    <2>3. Done' = frontier'
      BY <2>2 DEF Done, Recording
    <2>4. PassesInv'
      <3> DEFINE n == frontier'
      <3>1. n \in Nat /\ Done' = n /\ base' = n /\ passes' = 0
        BY <2>2, <2>3
      <3> HIDE DEF n
      <3>2. ~(0 < n - n) /\ n - 0 + 1 .. n = {}
        BY <3>1
      <3> QED BY <3>1, <3>2 DEF PassesInv
    <2>5. RequiredBatches > 0 => ~PassedInARow(Done)'
      <3> SUFFICES ASSUME RequiredBatches > 0, PassedInARow(Done)' PROVE FALSE
        OBVIOUS
      <3>1. PICK i \in (base' + RequiredBatches) .. Done' : TRUE
        BY DEF PassedInARow
      <3> DEFINE n == frontier'
      <3>2. n \in Nat /\ Done' = n /\ base' = n /\ RequiredBatches \in Nat
        BY <2>2, <2>3, LeadersAssumption
      <3> HIDE DEF n
      <3> QED BY <3>1, <3>2
    <2> QED BY <2>2, <2>4, <2>5 DEF StopInv
  <1>3. CASE Active' /\ learner # "down"
    <2>1. ~Ends
      BY <1>3, EndsLose DEF MemoryIsLost, Active, Recording
    <2>2. CASE RecordPasses
      BY <2>2, PassesCount
    <2>3. CASE ~RecordPasses
      <3>1. Active /\ Done' = Done /\ UNCHANGED <<base, passes, stopped>>
        <4>1. CASE Ingest
          <5>1. frontier \in Nat
            BY DEF ShapeInv, LoopOK
          <5> QED
            BY <4>1, <5>1 DEF Ingest, Active, Recording, Done, stopping, process
        <4>2. CASE Promote \/ LeadersSaved
          BY <4>2 DEF Promote, LeadersSaved, Active, Recording, Done, stopping, process
        <4>3. CASE ~Ingest /\ ~Promote /\ ~LeadersSaved
          BY <1>3, <2>1, <2>3, <4>3, LearnerFrame DEF Active, Recording, Done
        <4> QED BY <4>1, <4>2, <4>3
      <3> QED BY <1>3, <3>1, PassesStay
    <2> QED BY <2>2, <2>3
  <1> QED BY <1>1, <1>2, <1>3

\* Training stops exactly when RequiredBatches batches of this process passed in a row
\* (record_evaluation_stop).
THEOREM Stops == Spec => []StopsAfterConsecutivePasses
  <1> DEFINE I == PassesInv /\ StopInv
  <1>1. Init => I
    BY DEF Init, PassesInv, StopInv, Active, Recording
  <1>2. ShapeInv /\ I /\ [Next]_vars => I'
    <2>1. ASSUME ShapeInv, I, UNCHANGED vars PROVE I'
      BY <2>1 DEF vars, PassesInv, StopInv, Active, Recording, Done, PassedInARow
    <2> QED BY <2>1, PassesStep
  <1>3. I => StopsAfterConsecutivePasses
    BY DEF StopInv, StopsAfterConsecutivePasses, Active, Recording, Done, PassedInARow
  <1> QED BY <1>1, <1>2, <1>3, Shape, PTL DEF Spec

-----------------------------------------------------------------------------
(* Leaders hold the policy that was evaluated.                             *)

\* In the first process a version stands for the weights of one update.
Exact == {s \in Snapshot : s.weights = [start |-> 1, update |-> s.version]}
ExactInv ==
    starts <= 1 =>
        /\ published \subseteq Exact /\ remembered \in Seq(Exact)
        /\ \A i \in 1 .. Len(journal) : journal[i].snapshot \in Exact
        /\ Serving => policy \in Exact /\ weights = [start |-> 1, update |-> updates]
        /\ learner = "leaders" => exact = Current.snapshot.weights
        /\ \A f \in OnFile : f.family \in Kind => f.weights = f.batch.snapshot.weights

\* What the update before a publication is called.
LEMMA ExactSnapshot ==
    ASSUME NEW n \in Nat
    PROVE  [version |-> n, weights |-> [start |-> 1, update |-> n]] \in Exact
  <1>1. [start |-> 1, update |-> n] \in Weights
    BY DEF Weights
  <1> QED BY <1>1 DEF Exact, Snapshot

\* The first process begins with nothing.
LEMMA ExactStart ==
    ASSUME ShapeInv, ExactInv, Next, learner = "down", starts' <= 1 PROVE ExactInv'
  <1>1. StartFresh \/ Resume
    BY DownStep
  <1>2. starts \in Nat /\ starts' = starts + 1
    BY <1>1 DEF StartFresh, Resume, BeginServing, ShapeInv, LoopOK
  <1>3. starts = 0
    BY <1>2
  <1>4. /\ journal = <<>> /\ files = {} /\ published = {} /\ remembered = <<>> /\ updates = 0
        /\ writer = IdleWriter
    BY <1>3 DEF ShapeInv, ProcessInv
  <1>5. /\ weights' = [start |-> 1, update |-> 0] /\ learner' = "loop"
        /\ policy' = [version |-> 0, weights |-> weights'] /\ published' = {policy'}
        /\ UNCHANGED <<journal, files, remembered, updates, writer>>
    BY <1>1, <1>3, <1>4 DEF StartFresh, Resume, BeginServing, store
  <1>6. policy' \in Exact
    BY <1>5, ExactSnapshot
  <1>7. OnFile' = {NoCheckpoint}
    BY <1>4, <1>5, NothingTypes DEF OnFile
  <1>8. \A f \in OnFile' : f.family \notin Kind
    BY <1>7, NothingTypes
  <1>9. remembered' \in Seq(Exact) /\ 1 .. Len(journal') = {}
    BY <1>4, <1>5
  <1> QED BY <1>4, <1>5, <1>6, <1>8, <1>9 DEF ExactInv

LEMMA ExactStep ==
    ASSUME ShapeInv, ExactInv, Next, learner # "down", starts' <= 1 PROVE ExactInv'
  <1>1. /\ StoreOK /\ LoopOK /\ PolicyOK /\ WriterOK /\ ProcessInv
    BY DEF ShapeInv
  <1>2. starts' = starts /\ starts = 1
    <2>1. starts' = starts
      BY LearnerFrame, EndsLose
         DEF MemoryIsLost, Ingest, Promote, LeadersSaved, RecordPasses, process
    <2> QED BY <1>1, <2>1 DEF ProcessInv, Serving, LoopOK
  <1>3. /\ published \subseteq Exact /\ remembered \in Seq(Exact)
        /\ \A i \in 1 .. Len(journal) : journal[i].snapshot \in Exact
        /\ policy \in Exact /\ weights = [start |-> 1, update |-> updates]
        /\ learner = "leaders" => exact = Current.snapshot.weights
        /\ \A f \in OnFile : f.family \in Kind => f.weights = f.batch.snapshot.weights
    BY <1>2 DEF ExactInv, Serving
  <1>4. UNCHANGED <<weights, updates, policy, published>> \/ Update \/ Publish \/ Ends
    BY StepKinds DEF training, AssignEvaluation, ReceiveBatch, Ingest, Promote, SavesLeader,
       SaveLeader, LeadersSaved, RecordPasses, SaveRegular, WriteFile, FinishWrite, WriteFails,
       StopLearning, SaveFinal, Interrupt, InterruptsSave, InterruptSaveLeader, Interrupted,
       StartFresh, Resume
  <1>5. published' \subseteq Exact
    <2>1. CASE Publish
      <3>1. policy' \in Exact
        BY <1>1, <1>3, <2>1, ExactSnapshot DEF Publish, LoopOK
      <3> QED BY <1>3, <2>1, <3>1 DEF Publish
    <2> QED BY <1>3, <1>4, <2>1, EndsLose DEF MemoryIsLost, Update
  <1>6. (Serving => policy \in Exact /\ weights = [start |-> 1, update |-> updates])'
    <2>1. CASE Publish
      <3>1. policy' \in Exact
        BY <1>1, <1>3, <2>1, ExactSnapshot DEF Publish, LoopOK
      <3> QED BY <1>3, <2>1, <3>1 DEF Publish
    <2>2. CASE Update
      BY <1>2, <1>3, <2>2 DEF Update, training
    <2>3. CASE Ends
      BY <2>3, EndsLose DEF MemoryIsLost, Serving
    <2> QED BY <1>3, <1>4, <2>1, <2>2, <2>3
  <1>7. (\A i \in 1 .. Len(journal) : journal[i].snapshot \in Exact)'
    <2>1. CASE ReceiveBatch
      <3>1. PICK snapshot \in published, result \in Results :
                journal' = Append(journal, [snapshot |-> snapshot, result |-> result])
        BY <2>1 DEF ReceiveBatch
      <3>2. snapshot \in Exact
        BY <1>3
      <3> QED BY <1>1, <1>3, <3>1, <3>2 DEF StoreOK
    <2>2. CASE journal' = journal
      BY <1>3, <2>2
    <2> QED BY <2>1, <2>2, StoreFrame DEF store, WriteFile, FinishWrite
  <1>8. remembered' \in Seq(Exact)
    <2>1. CASE AssignEvaluation
      BY <1>3, <2>1, RememberType, EvictType DEF AssignEvaluation
    <2>2. CASE Ingest
      <3>1. frontier + 1 \in 1 .. Len(journal)
        BY <1>1, <2>2 DEF Ingest, LoopOK
      <3> QED BY <1>3, <2>2, <3>1, RememberType DEF Ingest
    <2>3. CASE Ends
      <3>1. <<>> \in Seq(Exact)
        OBVIOUS
      <3> QED BY <2>3, <3>1, EndsLose DEF MemoryIsLost
    <2>4. CASE UNCHANGED remembered
      BY <1>3, <2>4
    <2> QED
      BY <2>1, <2>2, <2>3, <2>4, PolicyFrame DEF Update, Publish, Promote, LeadersSaved, Interrupt,
         InterruptsSave, InterruptSaveLeader, Interrupted, StartFresh, Resume
  <1>9. (learner = "leaders" => exact = Current.snapshot.weights)'
    <2>1. CASE Promote
      <3>1. SUFFICES ASSUME learner' = "leaders" PROVE exact' = Current'.snapshot.weights
        OBVIOUS
      <3>2. /\ IsRemembered(Current.snapshot.version)
            /\ exact' = StateOf(Current.snapshot.version)
            /\ learner = "record"
        BY <2>1, <3>1 DEF Promote
      <3>3. Current.snapshot \in Exact /\ Current' = Current
        <4>1. frontier \in 1 .. Len(journal)
          BY <3>2, AtHand DEF Recording
        <4> QED BY <1>3, <2>1, <4>1 DEF Current, Promote, store
      <3>4. PICK i \in DOMAIN remembered :
                /\ remembered[i].version = Current.snapshot.version
                /\ StateOf(Current.snapshot.version) = remembered[i].weights
        BY <3>2 DEF IsRemembered, StateOf
      <3>5. remembered[i] \in Exact
        BY <1>3
      <3> QED BY <3>2, <3>3, <3>4, <3>5 DEF Exact
    <2>2. CASE learner' = "leaders" /\ ~Promote
      <3>1. learner = "leaders" /\ frontier' = frontier
        BY <2>2, LearnerFrame, EndsLose DEF MemoryIsLost, Ingest, LeadersSaved, RecordPasses
      <3>2. exact' = exact
        BY <1>1, <2>2, <3>1, PolicyFrame, EndsLose DEF MemoryIsLost, AssignEvaluation, Update,
           Publish, Ingest, LeadersSaved, Interrupt, InterruptsSave, InterruptSaveLeader,
           Interrupted, StartFresh, Resume
      <3>3. Current' = Current
        <4>1. frontier \in 1 .. Len(journal)
          BY <3>1, AtHand DEF Recording
        <4> QED BY <1>1, <3>1, <4>1, JournalGrows DEF Current
      <3> QED BY <1>3, <3>1, <3>2, <3>3
    <2> QED BY <2>1, <2>2
  <1>10. \A f \in OnFile' : f.family \in Kind => f.weights = f.batch.snapshot.weights
    <2> SUFFICES ASSUME NEW f \in OnFile'
                 PROVE  f.family \in Kind => f.weights = f.batch.snapshot.weights
      OBVIOUS
    <2>1. ASSUME NEW kind \in Kind, f = LeaderCheckpoint(kind), learner = "leaders", Recording
          PROVE  f.weights = f.batch.snapshot.weights
      BY <1>3, <2>1, LeaderTypes
    <2>2. \/ f \in OnFile \/ f = NoCheckpoint \/ f = RegularCheckpoint
          \/ /\ Recording /\ learner = "leaders"
             /\ \E kind \in Kind : f = LeaderCheckpoint(kind)
      BY OnFileStep
    <2> QED BY <1>3, <2>1, <2>2, NothingTypes, RegularTypes
  <1> QED BY <1>5, <1>6, <1>7, <1>8, <1>9, <1>10 DEF ExactInv

\* A leader checkpoint of the first process holds the very policy that was evaluated
\* (record_evaluation_leaders).
THEOREM LeadersExact == Spec => []LeadersAreExact
  <1>1. Init => ExactInv
    <2> SUFFICES ASSUME Init PROVE ExactInv
      OBVIOUS
    <2>1. OnFile = {NoCheckpoint}
      BY NothingTypes DEF Init, OnFile
    <2>2. remembered \in Seq(Exact) /\ 1 .. Len(journal) = {}
      BY DEF Init
    <2> QED BY <2>1, <2>2, NothingTypes DEF Init, ExactInv, Serving
  <1>2. ShapeInv /\ ExactInv /\ [Next]_vars => ExactInv'
    <2>1. ASSUME ShapeInv, ExactInv, Next PROVE ExactInv'
      <3>1. CASE ~(starts' <= 1)
        BY <3>1 DEF ExactInv
      <3> QED BY <2>1, <3>1, ExactStart, ExactStep
    <2>2. ASSUME ExactInv, UNCHANGED vars PROVE ExactInv'
      BY <2>2 DEF vars, ExactInv, Serving, Current, OnFile
    <2> QED BY <2>1, <2>2
  <1>3. ShapeInv /\ ExactInv => LeadersAreExact
    BY DEF ShapeInv, ExactInv, LeadersAreExact, Leaders, OnFile
  <1> QED BY <1>1, <1>2, <1>3, Shape, PTL DEF Spec

-----------------------------------------------------------------------------
(* Leaders and ranks.                                                      *)

\* The writer is busy with a leader of a family.
Writing(kind) == writer.stage \in {"pending", "written"} /\ writer.file.family = kind

\* The learner may record more batches, and no write has failed that it has not met yet.
Sound == Active /\ writer.stage # "failed"

\* A family's rank is higher than the one it replaces, and no batch recorded so far is above
\* the rank of its family, unless its leader is still to be saved.
RanksInv ==
    /\ \A kind \in Kind : Writing(kind) => writer.previous < writer.file.ranks[kind]
    /\ \A kind \in todo : ranks[kind] < RankOf(Current.result, kind)
    /\ Sound =>
         /\ \A kind \in Kind : Writing(kind) => ranks[kind] = writer.file.ranks[kind]
         /\ \A i \in (base + 1) .. frontier, kind \in Kind :
              \/ i = frontier /\ (learner = "record" \/ kind \in todo)
              \/ RankOf(journal[i].result, kind) <= ranks[kind]

\* A rank has a leader on disk, the one that is being written apart.
HasLeader(disk, rank, kind) ==
    rank > 0 => \E g \in disk : g.family = kind /\ RankOf(g.batch.result, kind) >= rank
BackedInv ==
    Regular =>
        /\ \A f \in files, kind \in Kind : HasLeader(files, f.ranks[kind], kind)
        /\ \A kind \in Kind :
             \/ writer.stage = "pending" /\ writer.file.family = kind
                  /\ ranks[kind] = writer.file.ranks[kind]
             \/ HasLeader(files, ranks[kind], kind)
        /\ \A kind \in Kind :
             writer.stage = "pending" /\ writer.file.family # kind =>
                 HasLeader(files, writer.file.ranks[kind], kind)
        /\ \A kind \in Kind : Writing(kind) => HasLeader(files, writer.previous, kind)

\* No leader on disk is above the rank of its family, so that none is replaced by a worse one.
TopInv ==
    Regular =>
        \A kind \in Kind, g \in files : g.family = kind =>
            /\ Sound => RankOf(g.batch.result, kind) <= ranks[kind]
            /\ writer.stage = "pending" /\ writer.file.family = kind =>
                 RankOf(g.batch.result, kind) <= writer.file.ranks[kind]

LeadersInv == ShapeInv /\ RanksInv /\ BackedInv /\ TopInv

\* What is left of the steps when it comes to files and ranks.
Saves(kind) == SaveLeader(kind) \/ InterruptSaveLeader(kind)
Quiet == /\ UNCHANGED <<files, ranks, todo, writer, split, behind, frontier, base>>
         /\ learner' \in {learner, "final", "wait"}
LEMMA LeaderSteps ==
    ASSUME Next
    PROVE  \/ \E kind \in Kind : Saves(kind)
           \/ SaveRegular \/ SaveFinal \/ WriteFile \/ FinishWrite \/ WriteFails
           \/ Ingest \/ Promote \/ LeadersSaved \/ RecordPasses
           \/ Interrupt \/ Ends \/ StartFresh \/ Resume \/ Quiet
  BY StepKinds DEF SavesLeader, InterruptsSave, Saves, Quiet, AssignEvaluation, ReceiveBatch,
     Update, Publish, StopLearning, process, store

\* The numbers.
LEMMA RankNumbers ==
    ASSUME ShapeInv
    PROVE  /\ \A kind \in Kind : /\ ranks[kind] \in Nat /\ writer.file.ranks[kind] \in Nat
                                 /\ RankOf(writer.file.batch.result, kind) \in Nat
                                 /\ \A g \in files : /\ g.ranks[kind] \in Nat
                                                     /\ RankOf(g.batch.result, kind) \in Nat
           /\ writer.previous \in Nat
           /\ writer.stage \in {"idle", "pending", "written", "failed"}
  <1>1. /\ ranks \in [Kind -> Nat] /\ files \subseteq Checkpoint
        /\ writer \in [stage : {"idle", "pending", "written", "failed"}, file : Checkpoint,
                       previous : Nat]
    BY DEF ShapeInv, StoreOK, WriterOK
  <1> QED BY <1>1, CheckpointTypes

\* What a family's reservation does to the writer and the ranks.
LEMMA SavedLeader ==
    ASSUME ShapeInv, RanksInv, NEW kind \in Kind, Saves(kind)
    PROVE  /\ Sound /\ writer.stage = "idle" /\ ranks[kind] < RankOf(Current.result, kind)
           /\ kind \in todo /\ learner = "leaders"
           /\ \/ /\ writer'.stage = "pending" /\ writer'.file.family = kind
                 /\ writer'.file.ranks = Reserved(kind) /\ writer'.previous = ranks[kind]
                 /\ \/ ranks' = Reserved(kind) /\ todo' = todo \ {kind} /\ learner' = learner
                    \/ ranks' = ranks /\ todo' = {} /\ learner' \in {"interrupted", "close"}
              \/ writer' = writer /\ todo' = {} /\ split' /\ learner' \in {"interrupted", "close"}
           /\ UNCHANGED <<files, frontier, base, journal>>
  <1>1. /\ learner = "leaders" /\ Recording /\ writer.stage = "idle" /\ kind \in todo
    BY QueuedLeader DEF Saves
  <1>2. /\ LeaderCheckpoint(kind).family = kind /\ LeaderCheckpoint(kind).ranks = Reserved(kind)
    BY <1>1, LeaderTypes
  <1>3. UNCHANGED <<files, frontier, base, journal>>
    BY DEF Saves, SaveLeader, InterruptSaveLeader, Interrupted, store, process
  <1>4. Sound /\ ranks[kind] < RankOf(Current.result, kind)
    BY <1>1 DEF RanksInv, Sound, Active
  <1> QED BY <1>1, <1>2, <1>3, <1>4, QueuedLeader DEF Saves

LEMMA ReservedRanks ==
    ASSUME ShapeInv, Recording, NEW kind \in Kind
    PROVE  /\ Reserved(kind)[kind] = RankOf(Current.result, kind)
           /\ \A k \in Kind \ {kind} : Reserved(kind)[k] = ranks[k]
           /\ RankOf(Current.result, kind) \in Nat
  BY LeaderTypes, AtHand

\* A process that may record more did so before the step, or has just started.
LEMMA SoundBefore ==
    ASSUME ShapeInv, Next, Sound'
    PROVE  Sound \/ learner = "down"
  <1>1. Active \/ learner = "down"
    BY LearnerFrame, EndsLose
       DEF MemoryIsLost, Sound, Active, Recording, Ingest, Promote, LeadersSaved, RecordPasses
  <1>2. ASSUME writer.stage = "failed", learner # "down" PROVE FALSE
    <2>1. CASE writer' = writer
      BY <1>2, <2>1 DEF Sound
    <2>2. CASE Interrupt \/ Ends
      BY <2>2, EndsLose DEF MemoryIsLost, Interrupt, Interrupted, Sound, Active, Recording
    <2>3. CASE \E kind \in Kind : Saves(kind)
      BY <1>2, <2>3, QueuedLeader DEF Saves
    <2> QED
      BY <1>2, <2>1, <2>2, <2>3, LeaderSteps DEF SaveRegular, SaveFinal, QueueCheckpoint,
         WriteFile, FinishWrite, WriteFails, Ingest, Promote, LeadersSaved, RecordPasses,
         StartFresh, Resume, Quiet, Sound
  <1> QED BY <1>1, <1>2 DEF Sound

\* The batch at hand is the same after a step that leaves the frontier.
LEMMA SameBatch ==
    ASSUME ShapeInv, Next, Recording, frontier' = frontier
    PROVE  Current' = Current
  <1>1. frontier \in 1 .. Len(journal) /\ StoreOK
    BY AtHand DEF ShapeInv
  <1> QED BY <1>1, JournalGrows DEF Current

LEMMA RanksRise ==
    ASSUME LeadersInv, Next
    PROVE  (\A kind \in Kind : Writing(kind) => writer.previous < writer.file.ranks[kind])'
  <1> SUFFICES ASSUME NEW kind \in Kind, Writing(kind)'
               PROVE  writer'.previous < writer'.file.ranks[kind]
    OBVIOUS
  <1>1. ShapeInv /\ RanksInv /\ (Writing(kind) => writer.previous < writer.file.ranks[kind])
    BY DEF LeadersInv, RanksInv
  <1>2. CASE writer' = writer
    BY <1>1, <1>2 DEF Writing
  <1>3. CASE \E k \in Kind : Saves(k)
    <2>1. PICK k \in Kind : Saves(k)
      BY <1>3
    <2>2. writer' # writer => /\ writer'.file.family = k /\ writer'.file.ranks = Reserved(k)
                              /\ writer'.previous = ranks[k]
      BY <1>1, <2>1, SavedLeader
    <2>3. ranks[k] < RankOf(Current.result, k) /\ Recording
      BY <1>1, <2>1, SavedLeader DEF Recording
    <2>4. Reserved(k)[k] = RankOf(Current.result, k)
      BY <1>1, <2>3, ReservedRanks
    <2> QED BY <1>2, <2>2, <2>3, <2>4 DEF Writing
  <1>4. CASE SaveRegular \/ SaveFinal
    <2>1. writer'.file = RegularCheckpoint
      BY <1>4 DEF SaveRegular, SaveFinal, QueueCheckpoint
    <2> QED BY <1>1, <2>1, RegularTypes DEF Writing
  <1>5. CASE WriteFile
    <2>1. writer'.file = writer.file /\ writer'.previous = writer.previous
          /\ writer.stage = "pending"
      BY <1>1, <1>5 DEF WriteFile, ShapeInv, WriterOK
    <2> QED BY <1>1, <2>1 DEF Writing
  <1>6. CASE WriteFails
    <2>1. writer'.stage = "failed"
      BY <1>1, <1>6 DEF WriteFails, ShapeInv, WriterOK
    <2> QED BY <2>1 DEF Writing
  <1>7. CASE writer' = IdleWriter
    BY <1>7, NothingTypes DEF Writing
  <1> QED
    BY <1>2, <1>3, <1>4, <1>5, <1>6, <1>7, LeaderSteps, EndsLose DEF MemoryIsLost, FinishWrite,
       Interrupt, Ingest, Promote, LeadersSaved, RecordPasses, StartFresh, Resume, Quiet

LEMMA TodoRises ==
    ASSUME LeadersInv, Next
    PROVE  (\A kind \in todo : ranks[kind] < RankOf(Current.result, kind))'
  <1> SUFFICES ASSUME NEW kind \in todo' PROVE ranks'[kind] < RankOf(Current'.result, kind)
    OBVIOUS
  <1>1. /\ ShapeInv /\ RanksInv /\ ProcessInv /\ ProcessInv'
        /\ todo \subseteq Kind /\ todo' \subseteq Kind
    BY ProcessStep, WriterStep DEF LeadersInv, ShapeInv, WriterOK
  <1>2. learner' = "leaders" /\ kind \in Kind
    BY <1>1 DEF ProcessInv
  <1>3. CASE Promote
    <2>1. todo' = Promotions /\ ranks' = ranks /\ learner = "record" /\ frontier' = frontier
      BY <1>2, <1>3 DEF Promote
    <2>2. Current' = Current
      BY <1>1, <2>1, SameBatch DEF Recording
    <2>3. RankOf(Current.result, kind) > ranks[kind]
      BY <2>1 DEF Promotions
    <2>4. RankOf(Current.result, kind) \in Nat /\ ranks[kind] \in Nat
      BY <1>1, <1>2, <2>1, AtHand, RankNumbers DEF Recording
    <2> QED BY <2>1, <2>2, <2>3, <2>4
  <1>4. CASE ~Promote
    <2>1. ~Ends /\ learner # "down"
      BY <1>1, <1>2, DownStep, EndsLose DEF MemoryIsLost, StartFresh, Resume, BeginServing
    <2>2. learner = "leaders" /\ frontier' = frontier /\ kind \in todo
      BY <1>1, <1>2, <1>4, <2>1, LearnerFrame DEF Ingest, LeadersSaved, RecordPasses
    <2>3. Current' = Current /\ ranks[kind] < RankOf(Current.result, kind)
      BY <1>1, <2>2, SameBatch DEF Recording, RanksInv
    <2>4. CASE \E k \in Kind : Saves(k)
      <3>1. PICK k \in Kind : Saves(k)
        BY <2>4
      <3>2. ranks' = Reserved(k) /\ k # kind
        BY <1>1, <1>2, <3>1, SavedLeader
      <3>3. ranks'[kind] = ranks[kind]
        BY <1>1, <1>2, <2>2, <3>2, ReservedRanks DEF Recording
      <3> QED BY <2>3, <3>3
    <2>5. CASE WriteFails
      <3>1. ranks' = RolledBack /\ writer.stage \in {"pending", "written"}
        BY <2>5 DEF WriteFails
      <3>2. \/ ranks'[kind] = ranks[kind]
            \/ ranks'[kind] = writer.previous /\ writer.previous < ranks[kind]
        BY <1>1, <1>2, <3>1, RolledBackFacts DEF RanksInv, Writing
      <3>3. /\ ranks[kind] \in Nat /\ writer.previous \in Nat
            /\ RankOf(Current.result, kind) \in Nat
        BY <1>1, <1>2, <2>2, RankNumbers, AtHand DEF Recording
      <3> QED BY <2>3, <3>2, <3>3
    <2>6. CASE ranks' = ranks
      BY <2>3, <2>6
    <2> QED
      BY <1>2, <1>4, <2>1, <2>2, <2>4, <2>5, <2>6, LeaderSteps DEF SaveRegular, SaveFinal,
         WriteFile, FinishWrite, Ingest, LeadersSaved, RecordPasses, Interrupt, StartFresh,
         Resume, BeginServing, Quiet
  <1> QED BY <1>3, <1>4

LEMMA RanksReserved ==
    ASSUME LeadersInv, Next, Sound'
    PROVE  (\A kind \in Kind : Writing(kind) => ranks[kind] = writer.file.ranks[kind])'
  <1> SUFFICES ASSUME NEW kind \in Kind, Writing(kind)'
               PROVE  ranks'[kind] = writer'.file.ranks[kind]
    OBVIOUS
  <1>1. ShapeInv /\ RanksInv
    BY DEF LeadersInv
  <1>2. CASE learner = "down"
    <2>1. writer' = IdleWriter
      BY <1>1, <1>2, DownStep DEF StartFresh, Resume, ShapeInv, ProcessInv
    <2> QED BY <2>1, NothingTypes DEF Writing
  <1>3. CASE learner # "down"
    <2>1. Sound /\ (Writing(kind) => ranks[kind] = writer.file.ranks[kind])
      BY <1>1, <1>3, SoundBefore DEF RanksInv
    <2>2. CASE ranks' = ranks /\ writer' = writer
      BY <2>1, <2>2 DEF Writing
    <2>3. CASE \E k \in Kind : Saves(k)
      <3>1. PICK k \in Kind : Saves(k)
        BY <2>3
      <3>2. /\ writer'.file.family = k /\ writer'.file.ranks = Reserved(k)
            /\ ranks' = Reserved(k)
        BY <1>1, <3>1, SavedLeader DEF Sound, Active, Recording
      <3> QED BY <3>2
    <2>4. CASE SaveRegular \/ SaveFinal
      <3>1. writer'.file = RegularCheckpoint
        BY <2>4 DEF SaveRegular, SaveFinal, QueueCheckpoint
      <3> QED BY <1>1, <3>1, RegularTypes DEF Writing
    <2>5. CASE WriteFile
      <3>1. writer'.file = writer.file /\ writer.stage = "pending" /\ ranks' = ranks
        BY <1>1, <2>5 DEF WriteFile, ShapeInv, WriterOK
      <3> QED BY <2>1, <3>1 DEF Writing
    <2>6. CASE WriteFails
      <3>1. writer'.stage = "failed"
        BY <1>1, <2>6 DEF WriteFails, ShapeInv, WriterOK
      <3> QED BY <3>1 DEF Writing
    <2>7. CASE writer' = IdleWriter
      BY <2>7, NothingTypes DEF Writing
    <2> QED
      BY <1>3, <2>2, <2>3, <2>4, <2>5, <2>6, <2>7, LeaderSteps, EndsLose DEF MemoryIsLost,
         FinishWrite, Interrupt, Ingest, Promote, LeadersSaved, RecordPasses, StartFresh, Resume,
         Quiet
  <1> QED BY <1>2, <1>3

\* What is known of a batch that is recorded.
Recorded(i, kind) ==
    \/ i = frontier /\ (learner = "record" \/ kind \in todo)
    \/ RankOf(journal[i].result, kind) <= ranks[kind]

LEMMA RanksCover ==
    ASSUME LeadersInv, Next, Sound'
    PROVE  (\A i \in (base + 1) .. frontier, kind \in Kind : Recorded(i, kind))'
  <1>1. ShapeInv /\ RanksInv /\ StoreOK /\ LoopOK /\ ProcessInv /\ ShapeInv'
    BY StoreStep, LoopStep, PolicyStep, WriterStep, ProcessStep, FilesStep
       DEF LeadersInv, ShapeInv
  <1>2. CASE learner = "down"
    <2>1. base' = frontier' /\ frontier' \in Nat
      BY <1>1, <1>2, DownStep DEF StartFresh, Resume, ProcessInv, StoreOK
    <2>2. ((base + 1) .. frontier)' = {}
      <3> DEFINE n == frontier'
      <3>1. n \in Nat /\ base' = n
        BY <2>1
      <3> HIDE DEF n
      <3>2. n + 1 .. n = {}
        BY <3>1
      <3> QED BY <3>1, <3>2 DEF n
    <2> QED BY <2>2
  <1>3. CASE learner # "down"
    <2> SUFFICES ASSUME NEW i \in (base' + 1) .. frontier', NEW kind \in Kind
                 PROVE  Recorded(i, kind)'
      OBVIOUS
    <2>1. Sound /\ \A j \in (base + 1) .. frontier, k \in Kind : Recorded(j, k)
      BY <1>1, <1>3, SoundBefore DEF RanksInv, Recorded
    <2>2. base' = base /\ base \in Nat /\ frontier \in 0 .. Len(journal) /\ ~Ends
      BY <1>1, <1>3, LearnerFrame, EndsLose DEF MemoryIsLost, LoopOK, Sound, Active, Recording,
         Ingest, Promote, LeadersSaved, RecordPasses, process
    <2>3. CASE Ingest
      <3>1. frontier' = frontier + 1 /\ learner' = "record" /\ learner = "loop"
            /\ UNCHANGED <<journal, ranks>>
        BY <2>3 DEF Ingest, store
      <3>2. CASE i = frontier + 1
        BY <3>1, <3>2 DEF Recorded
      <3>3. CASE i # frontier + 1
        <4>1. i \in (base + 1) .. frontier
          BY <2>2, <3>1, <3>3
        <4>2. Recorded(i, kind) /\ todo = {}
          BY <1>1, <2>1, <3>1, <4>1 DEF ProcessInv
        <4> QED BY <3>1, <4>2 DEF Recorded
      <3> QED BY <3>2, <3>3
    <2>4. CASE ~Ingest
      <3>1. frontier' = frontier
        BY <1>1, <1>3, <2>2, <2>4, LearnerFrame
             DEF Promote, LeadersSaved, RecordPasses, Sound, Active, Recording
      <3>2. /\ i \in 1 .. Len(journal) /\ i \in (base + 1) .. frontier
            /\ journal'[i] = journal[i] /\ Recorded(i, kind)
        BY <1>1, <2>1, <2>2, <3>1, JournalGrows
      <3>3. RankOf(journal[i].result, kind) \in Nat /\ ranks[kind] \in Nat
        BY <1>1, <3>2, RowType, BatchRank, RankNumbers
      <3>4. CASE Promote
        <4>1. /\ learner = "record" /\ ranks' = ranks
              /\ (Promotions = {} \/ todo' = Promotions)
          BY <2>4, <3>4 DEF Promote
        <4>2. CASE i = frontier
          <5>1. Current = journal[i]
            BY <4>2 DEF Current
          <5>2. kind \in Promotions \/ RankOf(journal[i].result, kind) <= ranks[kind]
            BY <3>3, <5>1 DEF Promotions
          <5> QED BY <3>1, <3>2, <4>1, <4>2, <5>2 DEF Recorded
        <4>3. CASE i # frontier
          BY <3>1, <3>2, <4>1, <4>3 DEF Recorded
        <4> QED BY <4>2, <4>3
      <3>5. CASE \E k \in Kind : Saves(k)
        <4>1. PICK k \in Kind : Saves(k)
          BY <3>5
        <4>2. /\ ranks' = Reserved(k) /\ todo' = todo \ {k} /\ learner = "leaders"
              /\ ranks[k] < RankOf(Current.result, k)
          BY <1>1, <4>1, SavedLeader DEF Sound, Active, Recording
        <4>3. /\ Reserved(k)[k] = RankOf(Current.result, k)
              /\ \A m \in Kind \ {k} : Reserved(k)[m] = ranks[m]
              /\ RankOf(Current.result, k) \in Nat
          BY <1>1, <4>2, ReservedRanks DEF Recording
        <4>4. ranks[kind] <= ranks'[kind] /\ ranks'[kind] \in Nat
          BY <3>3, <4>2, <4>3
        <4>5. CASE i = frontier
          <5>1. Current = journal[i]
            BY <4>5 DEF Current
          <5> QED BY <3>1, <3>2, <3>3, <4>2, <4>3, <4>4, <4>5, <5>1 DEF Recorded
        <4>6. CASE i # frontier
          BY <3>1, <3>2, <3>3, <4>2, <4>4, <4>6 DEF Recorded
        <4> QED BY <4>5, <4>6
      <3>6. CASE LeadersSaved
        BY <3>1, <3>2, <3>6 DEF LeadersSaved, Recorded
      <3>7. CASE RecordPasses
        BY <3>1, <3>2, <3>7 DEF RecordPasses, Recorded
      <3>8. CASE /\ ranks' = ranks /\ todo' = todo
                 /\ (learner' = learner \/ learner # "record")
        BY <3>1, <3>2, <3>8 DEF Recorded
      <3>9. CASE WriteFails
        BY <1>1, <3>9 DEF WriteFails, ShapeInv, WriterOK, Sound
      <3> QED
        BY <1>1, <1>3, <2>2, <2>4, <3>4, <3>5, <3>6, <3>7, <3>8, <3>9, LeaderSteps DEF SaveRegular,
           SaveFinal, QueueCheckpoint, WriteFile, FinishWrite, Interrupt, Interrupted, StartFresh,
           Resume, Quiet, Sound, Active, Recording
    <2> QED BY <2>3, <2>4
  <1> QED BY <1>2, <1>3

LEMMA RanksStep == ASSUME LeadersInv, Next PROVE RanksInv'
  <1>1. ASSUME Sound'
        PROVE  /\ (\A kind \in Kind : Writing(kind) => ranks[kind] = writer.file.ranks[kind])'
               /\ (\A i \in (base + 1) .. frontier, kind \in Kind : Recorded(i, kind))'
    BY <1>1, RanksReserved, RanksCover
  <1> QED BY <1>1, RanksRise, TodoRises DEF RanksInv, Recorded

\* A leader that has earned a rank stays on disk, or a better one takes its place.
LEMMA LeaderStays ==
    ASSUME LeadersInv, Next, Regular, NEW kind \in Kind, NEW rank \in Nat,
           HasLeader(files, rank, kind)
    PROVE  HasLeader(files', rank, kind)
  <1>1. ShapeInv /\ TopInv /\ FilesInv
    BY DEF LeadersInv, ShapeInv
  <1> SUFFICES ASSUME rank > 0
               PROVE  \E g \in files' : g.family = kind /\ RankOf(g.batch.result, kind) >= rank
    BY DEF HasLeader
  <1>2. PICK g \in files : g.family = kind /\ RankOf(g.batch.result, kind) >= rank
    BY DEF HasLeader
  <1>3. CASE g \in files'
    BY <1>2, <1>3
  <1>4. CASE g \notin files'
    <2>1. WriteFile
      BY <1>4, StoreFrame DEF store, ReceiveBatch, FinishWrite
    <2> DEFINE f == writer.file
    <2>2. /\ f \in files' /\ f.family = g.family /\ writer.stage = "pending"
      BY <1>4, <2>1 DEF WriteFile, SamePath
    <2>3. /\ RankOf(g.batch.result, kind) <= f.ranks[kind]
          /\ f.ranks[kind] = RankOf(f.batch.result, kind)
      BY <1>1, <1>2, <2>2 DEF TopInv, FilesInv, OnFile
    <2>4. RankOf(g.batch.result, kind) \in Nat /\ RankOf(f.batch.result, kind) \in Nat
      BY <1>1, RankNumbers
    <2>5. RankOf(f.batch.result, kind) >= rank
      <3> HIDE DEF f
      <3> QED BY <1>2, <2>3, <2>4
    <2> HIDE DEF f
    <2> QED BY <1>2, <2>2, <2>5
  <1> QED BY <1>3, <1>4

\* The exceptions are for good.
LEMMA RegularBefore == ASSUME ShapeInv, Next, Regular' PROVE Regular
  <1>1. split \in BOOLEAN /\ behind \in BOOLEAN
    BY DEF ShapeInv, LoopOK
  <1>2. split' = split \/ split'
    BY LeaderSteps, EndsLose DEF MemoryIsLost, Saves, SaveLeader, InterruptSaveLeader, SaveRegular,
       SaveFinal, WriteFile, FinishWrite, WriteFails, Ingest, Promote, LeadersSaved, RecordPasses,
       Interrupt, StartFresh, Resume, Quiet, process
  <1>3. behind' = behind \/ \E f \in files : behind' = (behind \/ IsBehind(f))
    BY LeaderSteps, EndsLose DEF MemoryIsLost, Saves, SaveLeader, InterruptSaveLeader, Interrupted,
       SaveRegular, SaveFinal, WriteFile, FinishWrite, WriteFails, Ingest, Promote, LeadersSaved,
       RecordPasses, Interrupt, StartFresh, Resume, Quiet, process
  <1> QED BY <1>1, <1>2, <1>3 DEF Regular

LEMMA FilesBacked ==
    ASSUME LeadersInv, Next, Regular
    PROVE  (\A f \in files, kind \in Kind : HasLeader(files, f.ranks[kind], kind))'
  <1>1. ShapeInv /\ BackedInv /\ FilesInv
    BY DEF LeadersInv, ShapeInv
  <1> SUFFICES ASSUME NEW f \in files', NEW kind \in Kind
               PROVE  HasLeader(files', f.ranks[kind], kind)
    OBVIOUS
  <1>2. CASE f \in files
    <2>1. f.ranks[kind] \in Nat /\ HasLeader(files, f.ranks[kind], kind)
      BY <1>1, <1>2, RankNumbers DEF BackedInv
    <2> DEFINE rank == f.ranks[kind]
    <2> HIDE DEF rank
    <2>2. HasLeader(files', rank, kind)
      BY <2>1, LeaderStays DEF rank
    <2> QED BY <2>2 DEF rank
  <1>3. CASE f \notin files
    <2>1. WriteFile /\ f = writer.file /\ writer.stage = "pending"
      <3>1. WriteFile
        BY <1>3, StoreFrame DEF store, ReceiveBatch, FinishWrite
      <3> QED BY <1>3, <3>1 DEF WriteFile
    <2> DEFINE rank == f.ranks[kind]
    <2>2. rank \in Nat
      BY <1>1, <2>1, RankNumbers
    <2>3. CASE f.family = kind
      <3>1. RankOf(f.batch.result, kind) = rank
        BY <1>1, <2>1, <2>3 DEF FilesInv, OnFile
      <3>2. RankOf(f.batch.result, kind) >= rank
        BY <2>2, <3>1
      <3> QED BY <2>3, <3>2 DEF HasLeader
    <2>4. CASE f.family # kind
      <3>1. HasLeader(files, rank, kind)
        BY <1>1, <2>1, <2>4 DEF BackedInv
      <3> HIDE DEF rank
      <3>2. HasLeader(files', rank, kind)
        BY <2>2, <3>1, LeaderStays
      <3> QED BY <3>2 DEF rank
    <2> QED BY <2>3, <2>4
  <1> QED BY <1>2, <1>3

\* The rank in memory.
MemoryBacked(kind) ==
    \/ /\ writer.stage = "pending" /\ writer.file.family = kind
       /\ ranks[kind] = writer.file.ranks[kind]
    \/ HasLeader(files, ranks[kind], kind)

LEMMA MemoryBackedStep ==
    ASSUME LeadersInv, Next, Regular', NEW kind \in Kind PROVE MemoryBacked(kind)'
  <1>1. /\ ShapeInv /\ RanksInv /\ FilesInv /\ Regular /\ BackedInv /\ MemoryBacked(kind)
    BY RegularBefore DEF LeadersInv, ShapeInv, BackedInv, MemoryBacked
  <1>2. /\ ranks[kind] \in Nat /\ writer.previous \in Nat /\ writer.file.ranks[kind] \in Nat
        /\ RankOf(writer.file.batch.result, kind) \in Nat
    BY <1>1, RankNumbers
  <1>3. \A rank \in Nat : HasLeader(files, rank, kind) => HasLeader(files', rank, kind)
    BY <1>1, LeaderStays
  <1>4. CASE ranks' = ranks /\ writer' = writer
    BY <1>1, <1>2, <1>3, <1>4 DEF MemoryBacked
  <1>5. CASE \E k \in Kind : Saves(k)
    <2>1. PICK k \in Kind : Saves(k)
      BY <1>5
    <2>2. /\ writer.stage = "idle" /\ Recording
          /\ writer'.stage = "pending" /\ writer'.file.family = k
          /\ writer'.file.ranks = Reserved(k)
          /\ ranks' = Reserved(k) \/ ranks' = ranks
      BY <1>1, <2>1, SavedLeader DEF Regular, Recording
    <2>3. HasLeader(files', ranks[kind], kind)
      BY <1>1, <1>2, <1>3, <2>2 DEF MemoryBacked
    <2>4. CASE k # kind /\ ranks' = Reserved(k)
      <3>1. ranks'[kind] = ranks[kind]
        BY <1>1, <2>2, <2>4, ReservedRanks
      <3> QED BY <2>3, <3>1 DEF MemoryBacked
    <2> QED BY <2>2, <2>3, <2>4 DEF MemoryBacked
  <1>6. CASE SaveRegular \/ SaveFinal \/ FinishWrite \/ Interrupt
    <2>1. ranks' = ranks /\ (writer' = writer \/ writer.stage # "pending")
      BY <1>6 DEF SaveRegular, SaveFinal, QueueCheckpoint, FinishWrite, Interrupt
    <2> QED BY <1>1, <1>2, <1>3, <1>4, <2>1 DEF MemoryBacked
  <1>7. CASE WriteFile
    <2>1. /\ ranks' = ranks /\ writer.file \in files'
      BY <1>7 DEF WriteFile
    <2>2. CASE writer.file.family = kind /\ ranks[kind] = writer.file.ranks[kind]
      <3>1. RankOf(writer.file.batch.result, kind) = ranks[kind]
        BY <1>1, <2>2 DEF FilesInv, OnFile
      <3>2. RankOf(writer.file.batch.result, kind) >= ranks[kind]
        BY <1>2, <3>1
      <3> QED BY <2>1, <2>2, <3>2 DEF MemoryBacked, HasLeader
    <2>3. CASE ~(writer.file.family = kind /\ ranks[kind] = writer.file.ranks[kind])
      BY <1>1, <1>2, <1>3, <2>1, <2>3 DEF MemoryBacked
    <2> QED BY <2>2, <2>3
  <1>8. CASE WriteFails
    <2>1. ranks' = RolledBack /\ writer.stage \in {"pending", "written"}
      BY <1>8 DEF WriteFails
    <2>2. CASE ranks'[kind] = writer.previous /\ writer.file.family = kind
      <3>1. HasLeader(files, writer.previous, kind)
        BY <1>1, <2>1, <2>2 DEF BackedInv, Writing
      <3> QED BY <1>2, <1>3, <2>2, <3>1 DEF MemoryBacked
    <2>3. CASE /\ ranks'[kind] = ranks[kind]
               /\ writer.file.family = kind => ranks[kind] # writer.file.ranks[kind]
      BY <1>1, <1>2, <1>3, <2>3 DEF MemoryBacked
    <2> QED BY <1>1, <2>1, <2>2, <2>3, RolledBackFacts
  <1>9. CASE Ends
    <2>1. ranks'[kind] = 0
      BY <1>9, EndsLose DEF MemoryIsLost, NoRanks
    <2> QED BY <2>1 DEF MemoryBacked, HasLeader
  <1>10. CASE Resume
    <2>1. PICK f \in files : ranks' = f.ranks
      BY <1>10 DEF Resume
    <2>2. HasLeader(files', ranks'[kind], kind)
      <3>1. f.ranks[kind] \in Nat /\ HasLeader(files, f.ranks[kind], kind)
        BY <1>1, RankNumbers DEF BackedInv
      <3> QED BY <1>3, <2>1, <3>1
    <2> QED BY <2>2 DEF MemoryBacked
  <1> QED
    BY <1>4, <1>5, <1>6, <1>7, <1>8, <1>9, <1>10, LeaderSteps
       DEF Ingest, Promote, LeadersSaved, RecordPasses, StartFresh, Quiet

\* The ranks in the file that is queued, and the rank that its leader replaced.
WriterBacked(kind) ==
    /\ writer.stage = "pending" /\ writer.file.family # kind =>
           HasLeader(files, writer.file.ranks[kind], kind)
    /\ Writing(kind) => HasLeader(files, writer.previous, kind)

LEMMA WriterBackedStep ==
    ASSUME LeadersInv, Next, Regular', NEW kind \in Kind PROVE WriterBacked(kind)'
  <1>1. /\ ShapeInv /\ RanksInv /\ Regular /\ MemoryBacked(kind) /\ WriterBacked(kind)
    BY RegularBefore DEF LeadersInv, ShapeInv, BackedInv, MemoryBacked, WriterBacked
  <1>2. /\ ranks[kind] \in Nat /\ writer.previous \in Nat /\ writer.file.ranks[kind] \in Nat
    BY <1>1, RankNumbers
  <1>3. \A rank \in Nat : HasLeader(files, rank, kind) => HasLeader(files', rank, kind)
    BY <1>1, LeaderStays
  <1>4. CASE writer' = writer
    BY <1>1, <1>2, <1>3, <1>4 DEF WriterBacked, Writing
  <1>5. CASE \E k \in Kind : Saves(k)
    <2>1. PICK k \in Kind : Saves(k)
      BY <1>5
    <2>2. /\ writer.stage = "idle" /\ Recording
          /\ writer'.stage = "pending" /\ writer'.file.family = k
          /\ writer'.file.ranks = Reserved(k) /\ writer'.previous = ranks[k]
      BY <1>1, <2>1, SavedLeader DEF Regular, Recording
    <2>3. HasLeader(files', ranks[kind], kind)
      BY <1>1, <1>2, <1>3, <2>2 DEF MemoryBacked
    <2>4. k # kind => Reserved(k)[kind] = ranks[kind]
      BY <1>1, <2>2, ReservedRanks
    <2> QED BY <2>2, <2>3, <2>4 DEF WriterBacked, Writing
  <1>6. CASE SaveRegular \/ SaveFinal
    <2>1. /\ writer'.file = RegularCheckpoint /\ writer.stage = "idle"
      BY <1>6 DEF SaveRegular, SaveFinal, QueueCheckpoint
    <2>2. writer'.file.family \notin Kind /\ writer'.file.ranks = ranks
      BY <1>1, <2>1, RegularTypes
    <2>3. HasLeader(files', ranks[kind], kind)
      BY <1>1, <1>2, <1>3, <2>1 DEF MemoryBacked
    <2> QED BY <2>2, <2>3 DEF WriterBacked, Writing
  <1>7. CASE WriteFile \/ WriteFails
    <2>1. /\ writer'.file = writer.file /\ writer'.previous = writer.previous
          /\ writer'.stage \in {"written", "failed"} /\ writer.stage \in {"pending", "written"}
      BY <1>1, <1>7 DEF WriteFile, WriteFails, ShapeInv, WriterOK
    <2> QED BY <1>1, <1>2, <1>3, <2>1 DEF WriterBacked, Writing
  <1>8. CASE writer' = IdleWriter
    BY <1>8, NothingTypes DEF WriterBacked, Writing
  <1> QED
    BY <1>4, <1>5, <1>6, <1>7, <1>8, LeaderSteps, EndsLose DEF MemoryIsLost, FinishWrite,
       Interrupt, Ingest, Promote, LeadersSaved, RecordPasses, StartFresh, Resume, Quiet

LEMMA BackedStep == ASSUME LeadersInv, Next PROVE BackedInv'
  <1> SUFFICES ASSUME Regular' PROVE BackedInv'
    BY DEF BackedInv
  <1>1. (\A f \in files, kind \in Kind : HasLeader(files, f.ranks[kind], kind))'
    BY FilesBacked, RegularBefore DEF LeadersInv
  <1>2. \A kind \in Kind : MemoryBacked(kind)' /\ WriterBacked(kind)'
    BY MemoryBackedStep, WriterBackedStep
  <1> QED BY <1>1, <1>2 DEF BackedInv, MemoryBacked, WriterBacked

LEMMA TopStep == ASSUME LeadersInv, Next PROVE TopInv'
  <1> SUFFICES ASSUME Regular', NEW kind \in Kind, NEW g \in files', g.family = kind
               PROVE  /\ Sound' => RankOf(g.batch.result, kind) <= ranks'[kind]
                      /\ writer'.stage = "pending" /\ writer'.file.family = kind =>
                           RankOf(g.batch.result, kind) <= writer'.file.ranks[kind]
    BY DEF TopInv
  <1>1. ShapeInv /\ RanksInv /\ TopInv /\ FilesInv /\ Regular
    BY RegularBefore DEF LeadersInv, ShapeInv
  <1>2. CASE g \notin files
    <2>1. WriteFile
      BY <1>2, StoreFrame DEF store, ReceiveBatch, FinishWrite
    <2>2. g = writer.file /\ writer.stage = "pending" /\ ranks' = ranks /\ learner' = learner
      BY <1>2, <2>1 DEF WriteFile
    <2>3. writer'.stage = "written"
      BY <1>1, <2>1 DEF WriteFile, ShapeInv, WriterOK
    <2>4. RankOf(g.batch.result, kind) = g.ranks[kind] /\ g.ranks[kind] \in Nat
      BY <1>1, <2>2, RankNumbers DEF FilesInv, OnFile
    <2>5. Sound' => ranks[kind] = g.ranks[kind]
      BY <1>1, <2>2 DEF RanksInv, Writing, Sound, Active, Recording
    <2> QED BY <2>2, <2>3, <2>4, <2>5
  <1>3. CASE g \in files
    <2>1. /\ RankOf(g.batch.result, kind) \in Nat /\ ranks[kind] \in Nat
          /\ Sound => RankOf(g.batch.result, kind) <= ranks[kind]
          /\ writer.stage = "pending" /\ writer.file.family = kind =>
               RankOf(g.batch.result, kind) <= writer.file.ranks[kind]
      BY <1>1, <1>3, RankNumbers DEF TopInv
    <2>2. CASE learner = "down"
      <3>1. writer' = IdleWriter
        BY <1>1, <2>2, DownStep DEF StartFresh, Resume, ShapeInv, ProcessInv
      <3>2. CASE StartFresh
        <4>1. journal = <<>> /\ g.frontier <= Len(journal) /\ g.frontier > 0 /\ g.frontier \in Nat
          BY <1>1, <1>3, <3>2, CheckpointTypes DEF StartFresh, FilesInv, OnFile, ShapeInv, StoreOK
        <4> QED BY <4>1
      <3>3. CASE Resume
        <4>1. PICK f \in files : ranks' = f.ranks /\ behind' = (behind \/ IsBehind(f))
          BY <3>3 DEF Resume
        <4>2. ~IsBehind(f)
          BY <4>1 DEF Regular
        <4>3. ~(RankOf(g.batch.result, kind) > f.ranks[kind])
          BY <1>3, <4>2 DEF IsBehind
        <4>4. f.ranks[kind] \in Nat
          BY <1>1, RankNumbers
        <4> QED BY <2>1, <3>1, <4>1, <4>3, <4>4, NothingTypes
      <3> QED BY <1>1, <2>2, <3>2, <3>3, DownStep
    <2>3. CASE learner # "down"
      <3>1. Sound' => Sound
        BY <1>1, <2>3, SoundBefore
      <3>2. CASE ranks' = ranks /\ (writer' = writer \/ writer'.stage # "pending")
        BY <2>1, <3>1, <3>2
      <3>3. CASE \E k \in Kind : Saves(k)
        <4>1. PICK k \in Kind : Saves(k)
          BY <3>3
        <4>2. /\ Sound /\ Recording /\ ranks[k] < RankOf(Current.result, k)
              /\ writer'.stage = "pending" /\ writer'.file.family = k
              /\ writer'.file.ranks = Reserved(k)
              /\ ranks' = Reserved(k) \/ ranks' = ranks
          BY <1>1, <4>1, SavedLeader DEF Regular, Recording
        <4>3. /\ Reserved(k)[k] = RankOf(Current.result, k)
              /\ \A m \in Kind \ {k} : Reserved(k)[m] = ranks[m]
              /\ RankOf(Current.result, k) \in Nat
          BY <1>1, <4>2, ReservedRanks
        <4>4. RankOf(g.batch.result, kind) <= Reserved(k)[kind]
          BY <2>1, <4>2, <4>3
        <4> QED BY <2>1, <4>2, <4>4
      <3>4. CASE SaveRegular \/ SaveFinal
        <4>1. writer'.file = RegularCheckpoint /\ ranks' = ranks
          BY <3>4 DEF SaveRegular, SaveFinal, QueueCheckpoint
        <4> QED BY <1>1, <2>1, <3>1, <4>1, RegularTypes
      <3>5. CASE WriteFile
        <4>1. writer'.stage = "written" /\ ranks' = ranks
          BY <1>1, <3>5 DEF WriteFile, ShapeInv, WriterOK
        <4> QED BY <3>2, <4>1
      <3>6. CASE WriteFails
        <4>1. writer'.stage = "failed"
          BY <1>1, <3>6 DEF WriteFails, ShapeInv, WriterOK
        <4> QED BY <4>1 DEF Sound
      <3>7. CASE Ends
        BY <3>7, EndsLose, NothingTypes DEF MemoryIsLost, Sound, Active, Recording
      <3>8. CASE FinishWrite \/ Interrupt
        <4>1. ranks' = ranks /\ (writer' = writer \/ writer' = IdleWriter)
          BY <3>8 DEF FinishWrite, Interrupt
        <4> QED BY <3>2, <4>1, NothingTypes
      <3> QED
        BY <2>3, <3>2, <3>3, <3>4, <3>5, <3>6, <3>7, <3>8, LeaderSteps DEF Ingest, Promote,
           LeadersSaved, RecordPasses, StartFresh, Resume, Quiet
    <2> QED BY <2>2, <2>3
  <1> QED BY <1>2, <1>3

LEMMA LeadersInit == Init => LeadersInv
  <1> SUFFICES ASSUME Init PROVE LeadersInv
    OBVIOUS
  <1>1. ShapeInv
    BY ShapeInit
  <1>2. /\ files = {} /\ writer = IdleWriter /\ ranks = NoRanks /\ todo = {} /\ learner = "down"
    BY DEF Init
  <1>3. RanksInv
    BY <1>2, NothingTypes DEF RanksInv, Writing, Sound, Active, Recording
  <1>4. BackedInv
    BY <1>2, NothingTypes DEF BackedInv, Writing, HasLeader, NoRanks
  <1>5. TopInv
    BY <1>2 DEF TopInv
  <1> QED BY <1>1, <1>3, <1>4, <1>5 DEF LeadersInv

\* Leaders, ranks in memory, ranks in files and the file being written fit each other.
THEOREM LeadersInductive == Spec => []LeadersInv
  <1>1. ASSUME LeadersInv, Next PROVE LeadersInv'
    <2>1. ShapeInv'
      BY <1>1, StoreStep, LoopStep, PolicyStep, WriterStep, ProcessStep, FilesStep
         DEF LeadersInv, ShapeInv
    <2> QED BY <1>1, <2>1, RanksStep, BackedStep, TopStep DEF LeadersInv
  <1>2. ASSUME LeadersInv, UNCHANGED vars PROVE LeadersInv'
    <2>1. ShapeInv'
      BY <1>2, ShapeStutter DEF LeadersInv
    <2>2. RanksInv' /\ BackedInv' /\ TopInv'
      BY <1>2 DEF vars, LeadersInv, RanksInv, BackedInv, TopInv, Writing, Sound, Active, Recording,
         Current, Regular
    <2> QED BY <2>1, <2>2 DEF LeadersInv
  <1> QED BY <1>1, <1>2, LeadersInit, PTL DEF Spec

\* A rank, in memory or in a checkpoint, is backed by a leader on disk that is at least as good,
\* and so is every batch that is recorded (record_evaluation_leaders,
\* _rollback_reserved_rank).
THEOREM LeadersBacked == Spec => []LeadersAreBacked
  <1>1. LeadersInv => RanksAreBacked
    BY DEF LeadersInv, BackedInv, HasLeader, RanksAreBacked, Leaders
  <1>2. LeadersInv => RecordedBatchesHaveLeaders
    <2> SUFFICES ASSUME LeadersInv, Regular, learner = "loop", writer.stage = "idle",
                        NEW i \in (base + 1) .. frontier, NEW kind \in Kind,
                        RankOf(journal[i].result, kind) > 0
                 PROVE  \E f \in Leaders(kind) :
                            RankOf(f.batch.result, kind) >= RankOf(journal[i].result, kind)
      BY DEF RecordedBatchesHaveLeaders
    <2>1. ShapeInv /\ RanksInv /\ BackedInv /\ todo = {} /\ StoreOK /\ LoopOK
      BY DEF LeadersInv, ShapeInv, ProcessInv
    <2>2. RankOf(journal[i].result, kind) <= ranks[kind]
      BY <2>1 DEF RanksInv, Sound, Active
    <2>3. HasLeader(files, ranks[kind], kind)
      BY <2>1 DEF BackedInv
    <2>4. RankOf(journal[i].result, kind) \in Nat /\ ranks[kind] \in Nat
      <3>1. i \in 1 .. Len(journal)
        BY <2>1 DEF LoopOK
      <3> QED BY <2>1, <3>1, RowType, BatchRank, RankNumbers
    <2>5. PICK g \in files : g.family = kind /\ RankOf(g.batch.result, kind) >= ranks[kind]
      BY <2>2, <2>3, <2>4 DEF HasLeader
    <2>6. RankOf(g.batch.result, kind) \in Nat
      BY <2>1, RankNumbers
    <2>7. RankOf(g.batch.result, kind) >= RankOf(journal[i].result, kind)
      BY <2>2, <2>4, <2>5, <2>6
    <2> QED BY <2>5, <2>7 DEF Leaders
  <1> QED BY <1>1, <1>2, LeadersInductive, PTL DEF LeadersAreBacked

-----------------------------------------------------------------------------
(* Both together.                                                          *)

\* A behavior of one of the two is a behavior of each, the other standing still.
LEMMA SelectionParts == SelectionSpec => Spec /\ CloningSpec
  <1>1. SelectionInit => Init /\ CloningInit
    BY DEF SelectionInit
  <1>2. [SelectionNext]_selectionVars => [Next]_vars /\ [CloningNext]_cloningVars
    BY DEF SelectionNext, selectionVars, MCNext
  <1> QED BY <1>1, <1>2, PTL DEF SelectionSpec, Spec, CloningSpec

\* Whichever of the two a policy is selected by, the run and its files keep the types of
\* their variables (distributed/learner.py, commands/behavior_training.py).
THEOREM SelectionTypeCorrect == SelectionSpec => []SelectionTypeOK
  <1> QED BY SelectionParts, CloningTypeCorrect, LeadersTypeCorrect, PTL DEF SelectionTypeOK

=============================================================================
