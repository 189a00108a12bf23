--------------------------- MODULE Processes_proofs ---------------------------
(***************************************************************************)
(* What the launcher reports is true, a run's counters add up over its     *)
(* restarts, and its remote log agrees with the local one: for every       *)
(* target, length and interval, any threads and any queue.  Then the parts *)
(* together, as MCProcesses runs them.                                     *)
(***************************************************************************)
EXTENDS MCProcesses, ActorSpool_proofs

-----------------------------------------------------------------------------
(* The launcher and its two children.                                       *)

\* The types, in three parts.
FlagsOK == {byUser, forced, signal, stopFile, passed, finalSaved} \subseteq BOOLEAN
PlacesOK ==
    /\ launcher \in {"start", "startActor", "watch", "drain", "signal", "joinActor", "joinLearner",
                     "terminateActor", "terminateLearner", "report", "done", "aborted"}
    /\ verdict \in {"none", "refused", "interrupted", "safe", "unconfirmed", "finished", "failed"}
    /\ learnerProcess \in ExitCodes \cup {"new", "booting", "working", "saving", "closing", "stuck"}
    /\ actorProcess \in ExitCodes \cup {"new", "booting", "working", "closing", "stuck"}

\* Updates are only earned by transitions, and transitions only wanted up to the target.
EarnedInv == ingested \in 0 .. Target /\ credit \in Nat /\ credit <= ingested

\* The children are started once, and the launcher reports at its end, when nothing is left to
\* change.
ReportInv ==
    /\ verdict \in {"refused", "safe", "unconfirmed", "finished", "failed"} => launcher = "done"
    /\ launcher = "start" => learnerProcess = "new" /\ actorProcess = "new"
    /\ launcher = "startActor" => learnerProcess # "new" /\ actorProcess = "new"
    /\ launcher \in {"watch", "drain"} => learnerProcess # "new" /\ actorProcess # "new"
    /\ launcher \in {"terminateLearner", "report"} => ~Lives(actorProcess)
    /\ launcher = "report" => ~Lives(learnerProcess)

\* A learner closes only after its final checkpoint.
SavedInv == learnerProcess \in {"closing", Clean} /\ SavesFinal => finalSaved

\* Reasons for a learner to end its loop and close cleanly that keep the launcher from
\* reporting a run that finished on its own, or that make that report true.
Excused ==
    \/ byUser \/ stopFile \/ passed \/ verdict = "interrupted"
    \/ actorProcess \in {Failed, Killed} \/ learnerProcess \in {Failed, Killed}
    \/ TargetReached /\ credit = 0

\* The launcher signals a stop, and the learner ends its loop, only for such a reason.
ExcuseInv ==
    /\ signal \/ launcher = "signal" => Excused
    /\ learnerProcess \in {"saving", "closing", Clean} => Excused

SupervisorInv ==
    /\ FlagsOK /\ PlacesOK /\ EarnedInv
    /\ ReportInv /\ SavedInv /\ ExcuseInv /\ VerdictsAreTrue

-----------------------------------------------------------------------------
USE DEF Clean, Failed, Killed, ExitCodes, Lives, TargetReached

\* An update has credit to spend, and changes nothing but the credit.
Spends ==
    /\ credit # 0 /\ UNCHANGED <<launcher, byUser, verdict, signal, stopFile, learnerProcess>>
    /\ UNCHANGED <<actorProcess, ingested, passed, finalSaved>>

LEMMA UpdateKeepsPlaces == EarnedInv /\ UpdateOnce => Spends
<1> SUFFICES ASSUME EarnedInv, UpdateOnce PROVE Spends OBVIOUS
<1>1. credit # 0
  <2>1. credit \in Nat BY DEF EarnedInv
  <2>2. credit > 0 BY DEF UpdateOnce
  <2> QED BY <2>1, <2>2
<1> QED BY <1>1 DEF UpdateOnce, Spends, reportVars

\* The processes start in a state that satisfies the invariant.
LEMMA SupervisorInit0 == SupervisorInit => SupervisorInv
<1> SUFFICES ASSUME SupervisorInit PROVE SupervisorInv OBVIOUS
<1>1. FlagsOK /\ PlacesOK BY DEF SupervisorInit, FlagsOK, PlacesOK
<1>2. EarnedInv BY SupervisorAssumption DEF SupervisorInit, EarnedInv
<1>3. ReportInv /\ SavedInv BY DEF SupervisorInit, ReportInv, SavedInv
<1>4. ExcuseInv BY DEF SupervisorInit, ExcuseInv
<1>5. VerdictsAreTrue BY DEF SupervisorInit, VerdictsAreTrue, SafeMeansSaved, FinishedMeansDrained
<1> QED BY <1>1, <1>2, <1>3, <1>4, <1>5 DEF SupervisorInv

\* Every step keeps the types of the flags.
LEMMA FlagsKept ==
  ASSUME FlagsOK,
         [SupervisorNext]_supervisorVars
  PROVE  FlagsOK'
<1> USE DEF FlagsOK, Goes, reportVars, childVars
<1>1. CASE UpdateOnce BY <1>1 DEF UpdateOnce
<1>2. CASE Deliver BY <1>2 DEF Deliver, Wanted
<1>3. CASE BootLearner \/ LearningEnds \/ FinalCheckpointSaved \/ LearnerExits \/ BootActor
            \/ ActorStops \/ ActorExits \/ EvaluationPasses \/ ChildBreaks
  BY <1>3
  DEF BootLearner, LearningEnds, FinalCheckpointSaved, LearnerExits, BootActor, ActorStops,
      ActorExits, EvaluationPasses, ChildBreaks
<1>4. CASE StartLearner \/ RefuseStopFile \/ StartActor \/ WatchEnds \/ DrainEnds \/
            StopFileSeen \/ WriteStopFile
  BY <1>4
  DEF StartLearner, RefuseStopFile, StartActor, WatchEnds, DrainEnds, StopFileSeen,
      WriteStopFile, AfterWatch
<1>5. CASE SignalShutdown \/ JoinActor \/ JoinLearner \/ TerminateActor \/ TerminateLearner
            \/ Report
  BY <1>5
  DEF SignalShutdown, JoinActor, JoinLearner, TerminateActor, TerminateLearner, Report,
      Terminated, UserVerdict
<1>6. CASE InterruptWatching \/ InterruptStarting \/ InterruptJoining \/ InterruptShutdown
  BY <1>6
  DEF InterruptWatching, InterruptStarting, InterruptJoining, InterruptShutdown,
      SigintReachesTheChildren, AfterSigint
<1>7. CASE UNCHANGED supervisorVars BY <1>7 DEF supervisorVars
<1> QED
  BY <1>1, <1>2, <1>3, <1>4, <1>5, <1>6, <1>7
  DEF SupervisorNext, LauncherStep, LearnerStep, ActorStep

\* Every step keeps the types of the processes.
LEMMA PlacesKept ==
  ASSUME PlacesOK,
         [SupervisorNext]_supervisorVars
  PROVE  PlacesOK'
<1> USE DEF PlacesOK, Goes, reportVars, childVars
<1>1. CASE UpdateOnce BY <1>1 DEF UpdateOnce
<1>2. CASE Deliver BY <1>2 DEF Deliver, Wanted
<1>3. CASE BootLearner BY <1>3 DEF BootLearner
<1>4. CASE LearningEnds BY <1>4 DEF LearningEnds
<1>5. CASE FinalCheckpointSaved BY <1>5 DEF FinalCheckpointSaved
<1>6. CASE LearnerExits BY <1>6 DEF LearnerExits
<1>7. CASE BootActor BY <1>7 DEF BootActor
<1>8. CASE ActorStops BY <1>8 DEF ActorStops
<1>9. CASE ActorExits BY <1>9 DEF ActorExits
<1>10. CASE EvaluationPasses BY <1>10 DEF EvaluationPasses
<1>11. CASE ChildBreaks BY <1>11 DEF ChildBreaks
<1>12. CASE StartLearner \/ RefuseStopFile \/ StartActor \/ WatchEnds \/ DrainEnds \/
            StopFileSeen \/ WriteStopFile
  BY <1>12
  DEF StartLearner, RefuseStopFile, StartActor, WatchEnds, DrainEnds, StopFileSeen,
      WriteStopFile, AfterWatch
<1>13. CASE SignalShutdown \/ JoinActor \/ JoinLearner \/ TerminateActor \/ TerminateLearner
            \/ Report
  BY <1>13
  DEF SignalShutdown, JoinActor, JoinLearner, TerminateActor, TerminateLearner, Report,
      Terminated, UserVerdict
<1>14. CASE InterruptWatching \/ InterruptStarting \/ InterruptJoining \/ InterruptShutdown
  BY <1>14
  DEF InterruptWatching, InterruptStarting, InterruptJoining, InterruptShutdown,
      SigintReachesTheChildren, AfterSigint
<1>15. CASE UNCHANGED supervisorVars BY <1>15 DEF supervisorVars
<1> QED
  BY <1>1, <1>2, <1>3, <1>4, <1>5, <1>6, <1>7, <1>8, <1>9, <1>10, <1>11, <1>12, <1>13,
     <1>14, <1>15
  DEF SupervisorNext, LauncherStep, LearnerStep, ActorStep

\* Every step keeps the credit below what was ingested.
LEMMA CreditKept ==
  ASSUME EarnedInv,
         [SupervisorNext]_supervisorVars
  PROVE  EarnedInv'
<1> USE SupervisorAssumption DEF EarnedInv, Goes, reportVars, childVars
<1>1. CASE UpdateOnce BY <1>1 DEF UpdateOnce
<1>2. CASE Deliver BY <1>2 DEF Deliver, Wanted
<1>3. CASE BootLearner \/ LearningEnds \/ FinalCheckpointSaved \/ LearnerExits \/ BootActor
            \/ ActorStops \/ ActorExits \/ EvaluationPasses \/ ChildBreaks
  BY <1>3
  DEF BootLearner, LearningEnds, FinalCheckpointSaved, LearnerExits, BootActor, ActorStops,
      ActorExits, EvaluationPasses, ChildBreaks
<1>4. CASE StartLearner \/ RefuseStopFile \/ StartActor \/ WatchEnds \/ DrainEnds \/
            StopFileSeen \/ WriteStopFile
  BY <1>4
  DEF StartLearner, RefuseStopFile, StartActor, WatchEnds, DrainEnds, StopFileSeen,
      WriteStopFile, AfterWatch
<1>5. CASE SignalShutdown \/ JoinActor \/ JoinLearner \/ TerminateActor \/ TerminateLearner
            \/ Report
  BY <1>5
  DEF SignalShutdown, JoinActor, JoinLearner, TerminateActor, TerminateLearner, Report,
      Terminated, UserVerdict
<1>6. CASE InterruptWatching \/ InterruptStarting \/ InterruptJoining \/ InterruptShutdown
  BY <1>6
  DEF InterruptWatching, InterruptStarting, InterruptJoining, InterruptShutdown,
      SigintReachesTheChildren, AfterSigint
<1>7. CASE UNCHANGED supervisorVars BY <1>7 DEF supervisorVars
<1> QED
  BY <1>1, <1>2, <1>3, <1>4, <1>5, <1>6, <1>7
  DEF SupervisorNext, LauncherStep, LearnerStep, ActorStep

\* Every step keeps what the launcher relies on when it reports.
LEMMA ReportKept ==
  ASSUME ReportInv,
         [SupervisorNext]_supervisorVars
  PROVE  ReportInv'
<1> USE DEF ReportInv, Goes, reportVars, childVars
<1>1. CASE UpdateOnce BY <1>1 DEF UpdateOnce
<1>2. CASE Deliver BY <1>2 DEF Deliver, Wanted
<1>3. CASE BootLearner \/ LearningEnds \/ FinalCheckpointSaved \/ LearnerExits \/ BootActor
            \/ ActorStops \/ ActorExits \/ EvaluationPasses \/ ChildBreaks
  BY <1>3
  DEF BootLearner, LearningEnds, FinalCheckpointSaved, LearnerExits, BootActor, ActorStops,
      ActorExits, EvaluationPasses, ChildBreaks
<1>4. CASE StartLearner \/ RefuseStopFile \/ StartActor \/ WatchEnds \/ DrainEnds \/
            StopFileSeen \/ WriteStopFile
  BY <1>4
  DEF StartLearner, RefuseStopFile, StartActor, WatchEnds, DrainEnds, StopFileSeen,
      WriteStopFile, AfterWatch
<1>5. CASE SignalShutdown \/ JoinActor \/ JoinLearner \/ TerminateActor \/ TerminateLearner
            \/ Report
  BY <1>5
  DEF SignalShutdown, JoinActor, JoinLearner, TerminateActor, TerminateLearner, Report,
      Terminated, UserVerdict
<1>6. CASE InterruptWatching \/ InterruptStarting \/ InterruptJoining \/ InterruptShutdown
  BY <1>6
  DEF InterruptWatching, InterruptStarting, InterruptJoining, InterruptShutdown,
      SigintReachesTheChildren, AfterSigint
<1>7. CASE UNCHANGED supervisorVars BY <1>7 DEF supervisorVars
<1> QED
  BY <1>1, <1>2, <1>3, <1>4, <1>5, <1>6, <1>7
  DEF SupervisorNext, LauncherStep, LearnerStep, ActorStep

\* Every step keeps a closing learner behind its final checkpoint.
LEMMA SavedKept ==
  ASSUME SavedInv,
         [SupervisorNext]_supervisorVars
  PROVE  SavedInv'
<1> USE DEF SavedInv, Goes, reportVars, childVars
<1>1. CASE UpdateOnce BY <1>1 DEF UpdateOnce
<1>2. CASE Deliver BY <1>2 DEF Deliver, Wanted
<1>3. CASE BootLearner \/ LearningEnds \/ FinalCheckpointSaved \/ LearnerExits \/ BootActor
            \/ ActorStops \/ ActorExits \/ EvaluationPasses \/ ChildBreaks
  BY <1>3
  DEF BootLearner, LearningEnds, FinalCheckpointSaved, LearnerExits, BootActor, ActorStops,
      ActorExits, EvaluationPasses, ChildBreaks
<1>4. CASE StartLearner \/ RefuseStopFile \/ StartActor \/ WatchEnds \/ DrainEnds \/
            StopFileSeen \/ WriteStopFile
  BY <1>4
  DEF StartLearner, RefuseStopFile, StartActor, WatchEnds, DrainEnds, StopFileSeen,
      WriteStopFile, AfterWatch
<1>5. CASE SignalShutdown \/ JoinActor \/ JoinLearner \/ TerminateActor \/ TerminateLearner
            \/ Report
  BY <1>5
  DEF SignalShutdown, JoinActor, JoinLearner, TerminateActor, TerminateLearner, Report,
      Terminated, UserVerdict
<1>6. CASE InterruptWatching \/ InterruptStarting \/ InterruptJoining \/ InterruptShutdown
  BY <1>6
  DEF InterruptWatching, InterruptStarting, InterruptJoining, InterruptShutdown,
      SigintReachesTheChildren, AfterSigint
<1>7. CASE UNCHANGED supervisorVars BY <1>7 DEF supervisorVars
<1> QED
  BY <1>1, <1>2, <1>3, <1>4, <1>5, <1>6, <1>7
  DEF SupervisorNext, LauncherStep, LearnerStep, ActorStep

\* Every step keeps the reasons for a stop.
LEMMA ExcuseKept ==
  ASSUME ExcuseInv, EarnedInv, ReportInv,
         [SupervisorNext]_supervisorVars
  PROVE  ExcuseInv'
<1> USE DEF ExcuseInv, ReportInv, Excused, Goes, reportVars, childVars
<1>1. CASE UpdateOnce
  <2>1. Spends BY <1>1, UpdateKeepsPlaces
  <2>2. Excused => Excused' BY <2>1 DEF Spends
  <2> HIDE DEF Excused
  <2> QED BY <2>1, <2>2 DEF Spends
<1>2. CASE Deliver BY <1>2 DEF Deliver, Wanted
<1>3. CASE BootLearner BY <1>3 DEF BootLearner
<1>4. CASE LearningEnds BY <1>4 DEF LearningEnds
<1>5. CASE FinalCheckpointSaved BY <1>5 DEF FinalCheckpointSaved
<1>6. CASE LearnerExits BY <1>6 DEF LearnerExits
<1>7. CASE BootActor BY <1>7 DEF BootActor
<1>8. CASE ActorStops BY <1>8 DEF ActorStops
<1>9. CASE ActorExits BY <1>9 DEF ActorExits
<1>10. CASE EvaluationPasses BY <1>10 DEF EvaluationPasses
<1>11. CASE ChildBreaks BY <1>11 DEF ChildBreaks
<1>12. CASE StartLearner BY <1>12 DEF StartLearner
<1>13. CASE RefuseStopFile BY <1>13 DEF RefuseStopFile
<1>14. CASE StartActor BY <1>14 DEF StartActor
<1>15. CASE WatchEnds BY <1>15 DEF WatchEnds, AfterWatch
<1>16. CASE DrainEnds BY <1>16 DEF DrainEnds
<1>17. CASE StopFileSeen BY <1>17 DEF StopFileSeen
<1>18. CASE WriteStopFile BY <1>18 DEF WriteStopFile
<1>19. CASE SignalShutdown BY <1>19 DEF SignalShutdown
<1>20. CASE JoinActor BY <1>20 DEF JoinActor
<1>21. CASE JoinLearner BY <1>21 DEF JoinLearner
<1>22. CASE TerminateActor BY <1>22 DEF TerminateActor, Terminated
<1>23. CASE TerminateLearner BY <1>23 DEF TerminateLearner, Terminated
<1>24. CASE Report BY <1>24 DEF Report, UserVerdict
<1>25. CASE InterruptWatching BY <1>25 DEF InterruptWatching, SigintReachesTheChildren, AfterSigint
<1>26. CASE InterruptStarting BY <1>26 DEF InterruptStarting, SigintReachesTheChildren, AfterSigint
<1>27. CASE InterruptJoining BY <1>27 DEF InterruptJoining, SigintReachesTheChildren, AfterSigint
<1>28. CASE InterruptShutdown BY <1>28 DEF InterruptShutdown, SigintReachesTheChildren, AfterSigint
<1>29. CASE UNCHANGED supervisorVars BY <1>29 DEF supervisorVars
<1> QED
  BY <1>1, <1>2, <1>3, <1>4, <1>5, <1>6, <1>7, <1>8, <1>9, <1>10, <1>11, <1>12, <1>13,
     <1>14, <1>15, <1>16, <1>17, <1>18, <1>19, <1>20, <1>21, <1>22, <1>23, <1>24, <1>25,
     <1>26, <1>27, <1>28, <1>29
  DEF SupervisorNext, LauncherStep, LearnerStep, ActorStep

\* Every step keeps the report true.
LEMMA VerdictKept ==
  ASSUME VerdictsAreTrue, EarnedInv, ReportInv, SavedInv, ExcuseInv,
         [SupervisorNext]_supervisorVars
  PROVE  VerdictsAreTrue'
<1> USE DEF VerdictsAreTrue, ReportInv, SavedInv, ExcuseInv, Excused, SafeMeansSaved,
            FinishedMeansDrained, Goes, reportVars, childVars
<1>1. CASE UpdateOnce BY <1>1, UpdateKeepsPlaces DEF Spends
<1>2. CASE Deliver BY <1>2 DEF Deliver, Wanted
<1>3. CASE BootLearner \/ LearningEnds \/ FinalCheckpointSaved \/ LearnerExits \/ BootActor
            \/ ActorStops \/ ActorExits \/ EvaluationPasses \/ ChildBreaks
  BY <1>3
  DEF BootLearner, LearningEnds, FinalCheckpointSaved, LearnerExits, BootActor, ActorStops,
      ActorExits, EvaluationPasses, ChildBreaks
<1>4. CASE StartLearner \/ RefuseStopFile \/ StartActor \/ WatchEnds \/ DrainEnds \/
            StopFileSeen \/ WriteStopFile
  BY <1>4
  DEF StartLearner, RefuseStopFile, StartActor, WatchEnds, DrainEnds, StopFileSeen,
      WriteStopFile, AfterWatch
<1>5. CASE SignalShutdown \/ JoinActor \/ JoinLearner \/ TerminateActor \/ TerminateLearner
            \/ Report
  BY <1>5
  DEF SignalShutdown, JoinActor, JoinLearner, TerminateActor, TerminateLearner, Report,
      Terminated, UserVerdict
<1>6. CASE InterruptWatching \/ InterruptStarting \/ InterruptJoining \/ InterruptShutdown
  BY <1>6
  DEF InterruptWatching, InterruptStarting, InterruptJoining, InterruptShutdown,
      SigintReachesTheChildren, AfterSigint
<1>7. CASE UNCHANGED supervisorVars BY <1>7 DEF supervisorVars
<1> QED
  BY <1>1, <1>2, <1>3, <1>4, <1>5, <1>6, <1>7
  DEF SupervisorNext, LauncherStep, LearnerStep, ActorStep

-----------------------------------------------------------------------------
\* The launcher, its children, the stop file and Ctrl+C keep the inductive invariant.
THEOREM SupervisorInductive == SupervisorSpec => []SupervisorInv
<1>1. SupervisorInit => SupervisorInv
  BY SupervisorInit0
<1>2. SupervisorInv /\ [SupervisorNext]_supervisorVars => SupervisorInv'
  BY FlagsKept, PlacesKept, CreditKept, ReportKept, SavedKept, ExcuseKept, VerdictKept
  DEF SupervisorInv
<1> QED BY <1>1, <1>2, PTL DEF SupervisorSpec

\* Types: the credit never exceeds the target.
THEOREM SupervisorTypeCorrect == SupervisorSpec => []SupervisorTypeOK
<1>1. ASSUME SupervisorInv PROVE SupervisorTypeOK
  <2>1. ingested \in 0 .. Target /\ credit \in 0 .. Target
    BY <1>1, SupervisorAssumption DEF SupervisorInv, EarnedInv
  <2> QED BY <1>1, <2>1 DEF SupervisorInv, FlagsOK, PlacesOK, SupervisorTypeOK
<1> QED BY <1>1, SupervisorInductive, PTL

\* What the launcher reports is what happened: after "safe" both processes have ended and the
\* final checkpoint is on disk, and a run reported as finished has reached its target and spent
\* its credit unless evaluations or the stop file ended it.
THEOREM VerdictsTrue == SupervisorSpec => []VerdictsAreTrue
<1>1. SupervisorInv => VerdictsAreTrue BY DEF SupervisorInv
<1> QED BY <1>1, SupervisorInductive, PTL

-----------------------------------------------------------------------------
(* The local trainer: its counters, its credit and its files.               *)

\* Products of naturals, as far as credit and rollouts need them.
LEMMA Products ==
    ASSUME NEW a \in Nat, NEW b \in Nat
    PROVE  /\ a * b \in Nat /\ a * b = b * a /\ a * (b + 1) = a * b + a /\ (b + 1) * a = b * a + a
           /\ a * 0 = 0
  OBVIOUS

LEMMA ProductDifference ==
    ASSUME NEW a \in Nat, NEW b \in Nat, NEW c \in Nat
    PROVE  a * (b - c) = a * b - a * c
  OBVIOUS

\* A target of whole rollouts leaves room for another one until it is reached.
LEMMA WholeRollouts ==
    ASSUME NEW n \in Nat, n * RolloutLength < TotalTransitions
    PROVE  RolloutLength <= TotalTransitions - n * RolloutLength
<1> DEFINE L == RolloutLength
<1> DEFINE k == TotalTransitions \div L
<1>1. L \in Nat \ {0} /\ TotalTransitions \in Nat \ {0} /\ TotalTransitions % L = 0
  BY TrainerAssumption
<1>2. k \in Nat /\ TotalTransitions = L * k
  BY <1>1
<1> HIDE DEF k, L
<1>3. n * L < k * L
  BY <1>1, <1>2 DEF L
<1>4. n < k
  <2> SUFFICES ASSUME k <= n PROVE FALSE
    BY <1>2
  <2>1. PICK d \in Nat : n = k + d
    BY <1>2
  <2>2. n * L = k * L + d * L /\ d * L \in Nat /\ k * L \in Nat
    BY <1>1, <1>2, <2>1
  <2> QED  BY <2>2, <1>3
<1>5. PICK d \in Nat : k = n + 1 + d
  BY <1>2, <1>4
<1>6. k * L = n * L + L + d * L /\ d * L \in Nat /\ n * L \in Nat
  BY <1>1, <1>5
<1> QED  BY <1>1, <1>2, <1>6 DEF L

LEMMA Bounds ==
    /\ {TotalTransitions, MaxEpisodeSteps, RolloutLength, Ready, CreditPerTransition,
        UpdateCost, CheckpointEvery, EvaluateEvery, MaxRuns} \subseteq Nat
    /\ TotalTransitions > 0 /\ MaxEpisodeSteps > 0 /\ RolloutLength > 0 /\ UpdateCost > 0
    /\ Ready > 0 /\ MaxRuns > 0
  BY TrainerAssumption

LEMMA AboveIsNatural ==
    ASSUME NEW a \in Nat, NEW b \in Nat
    PROVE  Above(a, b) \in Nat /\ \A c \in Nat : a <= c => Above(a, b) <= Above(c, b)
  BY DEF Above

\* What a checkpoint written now would hold.
SoundFile(file, written) ==
    LET c == file.counters IN
    /\ c.transitions <= TotalTransitions
    /\ ~onPolicy => c.transitions <= file.rows
    /\ ~onPolicy /\ "schedule" \notin written => Balanced(c, c.transitions)
    /\ onPolicy /\ "update" \notin written => c.credit = 0
    /\ onPolicy /\ written \cap {"schedule", "update"} = {} =>
         c.updates * RolloutLength = c.transitions

LEMMA CheckpointIsTyped ==
    ASSUME TrainerTypeOK
    PROVE  /\ Checkpoint \in CheckpointFile
           /\ Checkpoint.counters.transitions = counters.transitions
           /\ Checkpoint.counters.updates = counters.updates
           /\ Checkpoint.counters.credit = counters.credit
           /\ ~onPolicy => Checkpoint.rows = rows
<1>1. counters \in TrainingCounters /\ rows \in Nat /\ indexed \in SUBSET (Nat \X Nat)
      /\ finished \in SUBSET Nat
  BY DEF TrainerTypeOK
<1> DEFINE c == [counters EXCEPT !.next = counters.episodes + (IF EpisodeIsOpen THEN 1 ELSE 0)]
<1>2. c \in TrainingCounters /\ c.transitions = counters.transitions
      /\ c.updates = counters.updates /\ c.credit = counters.credit
  BY <1>1 DEF TrainingCounters
<1> HIDE DEF c
<1>3. Checkpoint = [counters |-> c, rows |-> IF onPolicy THEN 0 ELSE rows,
                    indexed |-> IF onPolicy THEN {} ELSE indexed,
                    finished |-> IF onPolicy THEN {} ELSE finished]
  BY DEF Checkpoint, c
<1> QED  BY <1>1, <1>2, <1>3 DEF CheckpointFile

\* Outside of the two exceptional phases a checkpoint is sound, and Ctrl+C in one of them is
\* remembered.
LEMMA CheckpointIsSound ==
    ASSUME TrainerInv, phase \in Alive, NEW written, cut \subseteq written,
           phase \in {"collect", "record", "checkpoint", "final"}
             \/ (phase = "update" /\ ~CanUpdate) \/ phase \in written
    PROVE  SoundFile(Checkpoint, written)
<1> USE DEF Alive
<1>1. TrainerTypeOK /\ FilesTypeOK /\ CollectionInv /\ RowsInv /\ CreditInv /\ UseInv
      /\ RolloutInv
  BY DEF TrainerInv
<1>2. /\ Checkpoint.counters.transitions = counters.transitions
      /\ Checkpoint.counters.updates = counters.updates
      /\ Checkpoint.counters.credit = counters.credit
      /\ ~onPolicy => Checkpoint.rows = rows
  BY <1>1, CheckpointIsTyped
<1>3. counters \in TrainingCounters /\ collection \in [transitions : Nat, episodes : Nat]
      /\ rows \in Nat /\ used \in Nat
  BY <1>1 DEF TrainerTypeOK
<1>4. /\ counters.transitions \in Nat /\ collection.transitions \in Nat /\ counters.credit \in Nat
      /\ counters.updates \in Nat
  BY <1>3 DEF TrainingCounters
<1>5. counters.transitions <= TotalTransitions
  BY <1>1 DEF CollectionInv
<1>6. ~onPolicy => counters.transitions <= rows
  BY <1>1, <1>3, <1>4 DEF RowsInv
<1>7. ~onPolicy /\ "schedule" \notin written => Balanced(counters, counters.transitions)
  BY <1>1 DEF CreditInv, UncreditedIsLost
<1>8. onPolicy /\ "update" \notin written =>
         counters.credit = 0 /\ (phase = "update" => used # 0)
  BY <1>1, <1>3, Bounds DEF UseInv, CanUpdate, RowsInv, ReadyRows
<1>9. onPolicy /\ written \cap {"schedule", "update"} = {} =>
         counters.updates * RolloutLength = counters.transitions
  <2> SUFFICES ASSUME onPolicy, written \cap {"schedule", "update"} = {}
               PROVE  counters.updates * RolloutLength = counters.transitions
    OBVIOUS
  <2>1. ~UntrainedIsLost /\ phase # "schedule" /\ ~(phase = "update" /\ used = 0)
    BY <1>8 DEF UntrainedIsLost
  <2>2. counters.updates * RolloutLength + 0 = counters.transitions
    BY <1>1, <2>1 DEF RolloutInv
  <2>3. counters.updates * RolloutLength \in Nat
    BY <1>4, Products, Bounds
  <2> QED  BY <2>2, <2>3
<1>10. Balanced(Checkpoint.counters, counters.transitions)
         <=> Balanced(counters, counters.transitions)
  BY <1>2 DEF Balanced
<1> QED  BY <1>2, <1>5, <1>6, <1>7, <1>8, <1>9, <1>10 DEF SoundFile

\* Writing a checkpoint adds one sound file; what Ctrl+C adds to cut asks less of the others.
LEMMA CheckpointWriteStep ==
    ASSUME TrainerTypeOK, FilesTypeOK, FilesInv, WriteCheckpoint, onPolicy' = onPolicy,
           cut \subseteq cut', SoundFile(Checkpoint, cut')
    PROVE  /\ FilesTypeOK' /\ FilesInv'
           /\ \A u \in DOMAIN saved : u # counters.updates => saved'[u] = saved[u]
<1>1. /\ DOMAIN saved' = DOMAIN saved \cup {counters.updates}
      /\ \A u \in DOMAIN saved' : saved'[u] = IF u = counters.updates THEN Checkpoint ELSE saved[u]
  BY DEF WriteCheckpoint
<1>2. counters.updates \in Nat
  BY DEF TrainerTypeOK, TrainingCounters
<1>3. FilesTypeOK'
  BY <1>1, <1>2, CheckpointIsTyped DEF FilesTypeOK
<1>4. \A u \in DOMAIN saved : SoundFile(saved[u], cut')
  BY DEF FilesInv, SoundFile, UncreditedIsLost, UntrainedIsLost
<1>5. \A u \in DOMAIN saved' : SoundFile(saved'[u], cut')
  BY <1>1, <1>4
<1>6. FilesInv'
  BY <1>5 DEF FilesInv, SoundFile, UncreditedIsLost, UntrainedIsLost, Balanced
<1> QED  BY <1>1, <1>3, <1>6

LEMMA FilesKept ==
    ASSUME FilesTypeOK, FilesInv, UNCHANGED <<onPolicy, saved, cut>>
    PROVE  FilesTypeOK' /\ FilesInv'
  BY DEF FilesTypeOK, FilesInv, UncreditedIsLost, UntrainedIsLost, Balanced

\* The parts of the invariant, and the types they need.
LEMMA TrainerParts ==
    ASSUME TrainerInv
    PROVE  /\ TrainerTypeOK /\ FilesTypeOK /\ FilesInv /\ CollectionInv /\ RowsInv
           /\ CreditInv /\ UseInv /\ RolloutInv
           /\ counters.transitions \in Nat /\ counters.updates \in Nat /\ counters.credit \in Nat
           /\ counters.episodes \in Nat /\ counters.next \in Nat
           /\ collection.transitions \in Nat /\ collection.episodes \in Nat
           /\ episode.index \in Nat /\ episode.step \in Nat /\ rows \in Nat /\ used \in Nat
           /\ counters \in TrainingCounters /\ runs \in 0 .. MaxRuns
           /\ onPolicy \in BOOLEAN
  BY DEF TrainerInv, TrainerTypeOK, TrainingCounters

LEMMA StartStep == ASSUME TrainerInv, StartRun PROVE TrainerInv'
<1> USE TrainerParts, Bounds
<1>1. /\ phase = "new" /\ phase' = "collect" /\ runs' = 1
      /\ UNCHANGED <<onPolicy, counters, rows, indexed, finished, episode, collection, used,
                     saved, cut>>
  BY DEF StartRun
<1>2. counters = Counters /\ episode = AtReset(0) /\ collection = NoCollection /\ used = 0
      /\ rows = 0
  BY <1>1 DEF CollectionInv
<1>3. /\ counters.transitions = 0 /\ counters.updates = 0 /\ counters.credit = 0
      /\ episode.step = 0 /\ collection.transitions = 0
  BY <1>2 DEF Counters, AtReset, NoCollection
<1>4. TrainerTypeOK'
  BY <1>1 DEF TrainerTypeOK
<1>5. FilesTypeOK' /\ FilesInv'
  BY <1>1, FilesKept
<1>6. CollectionInv'
  BY <1>1, <1>3 DEF CollectionInv, Remaining, StepLimit, Lower
<1>7. RowsInv'
  BY <1>1, <1>3 DEF RowsInv
<1>8. CreditInv'
  <2>1. Above(0, Ready) = 0 /\ CreditPerTransition * 0 = 0 /\ UpdateCost * 0 = 0
    BY DEF Above
  <2>2. Balanced(counters, counters.transitions)
    BY <1>3, <2>1 DEF Balanced
  <2> QED  BY <1>1, <1>3, <2>2 DEF CreditInv, UncreditedIsLost, Balanced, Above
<1>9. UseInv'
  BY <1>1, <1>2, <1>3 DEF UseInv
<1>10. RolloutInv'
  <2>1. 0 * RolloutLength = 0
    OBVIOUS
  <2> QED  BY <1>1, <1>3, <2>1 DEF RolloutInv, UntrainedIsLost
<1> QED  BY <1>4, <1>5, <1>6, <1>7, <1>8, <1>9, <1>10 DEF TrainerInv

LEMMA CollectStep ==
    ASSUME TrainerInv, NEW ended \in BOOLEAN, CollectTransition(ended)
    PROVE  TrainerInv'
<1> USE TrainerParts, Bounds
<1> DEFINE last == ended \/ episode.step + 1 = StepLimit
           key == <<episode.index, episode.step>>
           count == collection.transitions + 1
           ends == CollectionEnds(count, last)
<1>1. /\ phase = "collect" /\ counters.transitions < TotalTransitions
      /\ rows' = rows + 1 /\ used' = 0
      /\ indexed' = IF last THEN {k \in indexed : k[1] # episode.index} ELSE indexed \cup {key}
      /\ finished' = IF last THEN finished \cup {episode.index} ELSE finished
      /\ episode' = IF last THEN AtReset(episode.index + 1) ELSE [episode EXCEPT !.step = @ + 1]
      /\ collection' = [transitions |-> count,
                        episodes |-> collection.episodes + (IF last THEN 1 ELSE 0)]
      /\ phase' = IF ends THEN "record" ELSE "collect"
      /\ UNCHANGED <<onPolicy, counters, saved, cut, runs>>
  BY DEF CollectTransition
<1>2. last \in BOOLEAN /\ count \in Nat /\ key \in Nat \X Nat
  OBVIOUS
<1>3. ends \in BOOLEAN /\ (~onPolicy => (ends <=> last))
      /\ (onPolicy => (ends <=> count = Lower(RolloutLength, Remaining)))
  BY <1>2 DEF CollectionEnds
<1>4. episode \in [index : Nat, step : Nat]
  BY DEF TrainerTypeOK
<1>5. ~last => episode'.step = episode.step + 1 /\ episode' \in [index : Nat, step : Nat]
  BY <1>1, <1>4
<1>6. last => episode' \in [index : Nat, step : Nat]
  BY <1>1, <1>4 DEF AtReset
<1>7. ~last => episode.step + 1 # StepLimit
  OBVIOUS
<1>8. collection'.transitions = collection.transitions + 1
  BY <1>1
<1>9. collection' \in [transitions : Nat, episodes : Nat]
  BY <1>1, <1>2
<1>10. indexed' \subseteq Nat \X Nat /\ finished' \subseteq Nat
  BY <1>1, <1>2 DEF TrainerTypeOK
<1> HIDE DEF last, key, count
<1>11. TrainerTypeOK'
  BY <1>1, <1>5, <1>6, <1>9, <1>10 DEF TrainerTypeOK
<1>12. FilesTypeOK' /\ FilesInv'
  BY <1>1, FilesKept
<1>13. count = collection.transitions + 1
  BY DEF count
<1>14. phase' \in {"collect", "record"} /\ (phase' = "record" <=> ends)
  BY <1>1, <1>3
<1> HIDE DEF ends
<1>15. Remaining = TotalTransitions - counters.transitions /\ Remaining \in Nat
  BY <1>1 DEF Remaining
<1>16. CollectionInv'
  <2>1. CASE onPolicy
    <3>1. collection.transitions < Lower(RolloutLength, Remaining)
      BY <1>1, <2>1 DEF CollectionInv
    <3>2. collection'.transitions \in 1 .. Remaining
      BY <3>1, <1>8, <1>15 DEF Lower
    <3>3. ~ends => collection'.transitions < Lower(RolloutLength, Remaining)
      BY <3>1, <1>3, <1>8, <1>13, <1>15, <2>1 DEF Lower
    <3> QED  BY <1>1, <1>14, <1>15, <2>1, <3>2, <3>3 DEF CollectionInv, Remaining, Lower
  <2>2. CASE ~onPolicy
    <3>1. collection.transitions = episode.step /\ episode.step < StepLimit
      BY <1>1, <2>2 DEF CollectionInv
    <3>2. StepLimit \in Nat /\ StepLimit <= Remaining
      BY <1>15, <2>2 DEF StepLimit, Lower
    <3>3. collection'.transitions \in 1 .. Remaining
      BY <3>1, <3>2, <1>8, <1>15
    <3>4. ~ends => collection'.transitions = episode'.step /\ episode'.step < StepLimit
      BY <3>1, <3>2, <1>3, <1>5, <1>7, <1>8, <2>2
    <3>5. StepLimit' = StepLimit /\ Remaining' = Remaining
      BY <1>1 DEF StepLimit, Remaining
    <3> QED  BY <1>1, <1>14, <2>2, <3>3, <3>4, <3>5 DEF CollectionInv
  <2> QED  BY <2>1, <2>2
<1>17. RowsInv'
  BY <1>1, <1>8, <1>14 DEF RowsInv
<1>18. CreditInv'
  <2>1. phase' \in Alive /\ phase' # "schedule" /\ phase \in Alive /\ phase # "schedule"
    BY <1>1, <1>14 DEF Alive
  <2> QED  BY <1>1, <2>1 DEF CreditInv, UncreditedIsLost, Balanced
<1>19. UseInv'
  BY <1>1, <1>14 DEF UseInv, Alive
<1>20. RolloutInv'
  <2> SUFFICES ASSUME onPolicy, ~UntrainedIsLost
               PROVE  /\ counters.updates * RolloutLength = counters.transitions
                      /\ ends => collection'.transitions = RolloutLength
    <3>1. counters.updates * RolloutLength \in Nat
      BY Products
    <3> QED  BY <1>1, <1>14, <3>1 DEF RolloutInv, UntrainedIsLost, Alive
  <2>1. counters.updates * RolloutLength \in Nat
    BY Products
  <2>2. counters.updates * RolloutLength = counters.transitions
    BY <1>1, <2>1 DEF RolloutInv, Alive
  <2>3. RolloutLength <= Remaining
    BY <1>1, <1>15, <2>2, WholeRollouts
  <2> QED  BY <1>3, <1>8, <1>13, <1>15, <2>2, <2>3 DEF Lower
<1> QED  BY <1>11, <1>12, <1>16, <1>17, <1>18, <1>19, <1>20 DEF TrainerInv

LEMMA DuplicateStepKeeps == ASSUME TrainerInv, DuplicateStep PROVE TrainerInv'
<1> USE TrainerParts
<1>1. /\ phase = "collect" /\ phase' = "failed"
      /\ UNCHANGED <<onPolicy, counters, rows, indexed, finished, episode, collection, used,
                     saved, cut, runs>>
  BY DEF DuplicateStep
<1>2. TrainerTypeOK'
  BY <1>1 DEF TrainerTypeOK
<1>3. FilesTypeOK' /\ FilesInv'
  BY <1>1, FilesKept
<1>4. CollectionInv' /\ RowsInv' /\ CreditInv' /\ UseInv' /\ RolloutInv'
  BY <1>1 DEF CollectionInv, RowsInv, CreditInv, UseInv, RolloutInv, Alive, UntrainedIsLost
<1> QED  BY <1>2, <1>3, <1>4 DEF TrainerInv

LEMMA CrashStep == ASSUME TrainerInv, TrainerCrash PROVE TrainerInv'
<1> USE TrainerParts
<1>1. /\ phase \in Alive /\ phase' = "failed"
      /\ UNCHANGED <<onPolicy, counters, rows, indexed, finished, episode, collection, used,
                     saved, cut, runs>>
  BY DEF TrainerCrash
<1>2. TrainerTypeOK'
  BY <1>1 DEF TrainerTypeOK
<1>3. FilesTypeOK' /\ FilesInv'
  BY <1>1, FilesKept
<1>4. CollectionInv' /\ RowsInv' /\ CreditInv' /\ UseInv' /\ RolloutInv'
  BY <1>1 DEF CollectionInv, RowsInv, CreditInv, UseInv, RolloutInv, Alive, UntrainedIsLost
<1> QED  BY <1>2, <1>3, <1>4 DEF TrainerInv

LEMMA RecordStep == ASSUME TrainerInv, RecordCollection PROVE TrainerInv'
<1> USE TrainerParts, Bounds
<1>1. /\ phase = "record" /\ phase' = "schedule"
      /\ counters' = [counters EXCEPT !.transitions = @ + collection.transitions,
                                      !.episodes = @ + collection.episodes]
      /\ UNCHANGED <<onPolicy, rows, indexed, finished, episode, collection, used, saved, cut,
                     runs>>
  BY DEF RecordCollection
<1>2. /\ counters' \in TrainingCounters
      /\ counters'.transitions = counters.transitions + collection.transitions
      /\ counters'.updates = counters.updates /\ counters'.credit = counters.credit
  <2> DEFINE x == counters.transitions + collection.transitions
             y == counters.episodes + collection.episodes
  <2>1. x \in Nat /\ y \in Nat /\ counters \in TrainingCounters
    OBVIOUS
  <2>2. counters' = [counters EXCEPT !.transitions = x, !.episodes = y]
    BY <1>1
  <2>3. x = counters.transitions + collection.transitions
    OBVIOUS
  <2> HIDE DEF x, y
  <2>4. counters' \in TrainingCounters
    BY <2>1, <2>2 DEF TrainingCounters
  <2>5. /\ counters'.transitions = x /\ counters'.updates = counters.updates
        /\ counters'.credit = counters.credit
    BY <2>1, <2>2 DEF TrainingCounters
  <2> QED  BY <2>3, <2>4, <2>5
<1>3. collection.transitions \in 1 .. (TotalTransitions - counters.transitions)
  BY <1>1 DEF CollectionInv, Remaining
<1>4. TrainerTypeOK'
  BY <1>1, <1>2 DEF TrainerTypeOK
<1>5. FilesTypeOK' /\ FilesInv'
  BY <1>1, FilesKept
<1>6. CollectionInv'
  BY <1>1, <1>2, <1>3 DEF CollectionInv
<1>7. RowsInv'
  BY <1>1, <1>2 DEF RowsInv
<1>8. CreditInv'
  <2>1. counters'.transitions - collection'.transitions = counters.transitions
    BY <1>1, <1>2
  <2> QED  BY <1>1, <1>2, <2>1 DEF CreditInv, UncreditedIsLost, Balanced, Alive
<1>9. UseInv'
  BY <1>1, <1>2 DEF UseInv, Alive
<1>10. RolloutInv'
  <2> SUFFICES ASSUME onPolicy, ~UntrainedIsLost
               PROVE  counters.updates * RolloutLength + RolloutLength
                        = counters.transitions + collection.transitions
    BY <1>1, <1>2 DEF RolloutInv, UntrainedIsLost, Alive
  <2>1. counters.updates * RolloutLength \in Nat
    BY Products
  <2>2. counters.updates * RolloutLength = counters.transitions
        /\ collection.transitions = RolloutLength
    BY <1>1, <2>1 DEF RolloutInv, Alive
  <2> QED  BY <2>1, <2>2
<1> QED  BY <1>4, <1>5, <1>6, <1>7, <1>8, <1>9, <1>10 DEF TrainerInv

LEMMA ScheduleStep == ASSUME TrainerInv, ScheduleUpdates PROVE TrainerInv'
<1> USE TrainerParts, Bounds
<1> DEFINE before == counters.transitions - collection.transitions
           e == Earned(before, counters.transitions)
           above == Above(counters.transitions, Ready)
           below == Above(before, Ready)
<1>1. /\ phase = "schedule" /\ phase' = "update"
      /\ counters' = [counters EXCEPT !.credit = @ + e]
      /\ UNCHANGED <<onPolicy, rows, indexed, finished, episode, collection, used, saved, cut,
                     runs>>
  BY DEF ScheduleUpdates
<1>2. before \in Nat /\ before <= counters.transitions
  BY <1>1 DEF CollectionInv
<1>3. above \in Nat /\ below \in Nat /\ above - below \in Nat
  <2>1. above \in Nat /\ below \in Nat
    BY <1>2, AboveIsNatural
  <2>2. below <= above
    BY <1>2, AboveIsNatural
  <2> QED  BY <2>1, <2>2
<1>4. e = IF onPolicy THEN UpdateCost ELSE CreditPerTransition * (above - below)
  BY DEF Earned
<1> HIDE DEF before, e, above, below
<1>5. e \in Nat
  BY <1>3, <1>4, Products
<1>6. /\ counters' \in TrainingCounters
      /\ counters'.transitions = counters.transitions
      /\ counters'.updates = counters.updates /\ counters'.credit = counters.credit + e
  BY <1>1, <1>5 DEF TrainingCounters
<1>7. TrainerTypeOK'
  BY <1>1, <1>6 DEF TrainerTypeOK
<1>8. FilesTypeOK' /\ FilesInv'
  BY <1>1, FilesKept
<1>9. CollectionInv'
  BY <1>1, <1>6 DEF CollectionInv
<1>10. RowsInv'
  BY <1>1, <1>6 DEF RowsInv
<1>11. CreditInv'
  <2> SUFFICES ASSUME ~onPolicy, ~UncreditedIsLost
               PROVE  counters.credit + e + UpdateCost * counters.updates
                        = CreditPerTransition * above
    BY <1>1, <1>6 DEF CreditInv, UncreditedIsLost, Balanced, above
  <2>1. counters.credit + UpdateCost * counters.updates = CreditPerTransition * below
    BY <1>1 DEF CreditInv, Balanced, Alive, below, before
  <2>2. CreditPerTransition * (above - below)
          = CreditPerTransition * above - CreditPerTransition * below
    BY <1>3, ProductDifference
  <2>3. /\ CreditPerTransition * above \in Nat /\ CreditPerTransition * below \in Nat
        /\ UpdateCost * counters.updates \in Nat
    BY <1>3, Products
  <2> QED  BY <2>1, <2>2, <2>3, <1>4, <1>5
<1>12. UseInv'
  BY <1>1, <1>4, <1>6 DEF UseInv, Alive
<1>13. RolloutInv'
  <2> SUFFICES ASSUME onPolicy, ~UntrainedIsLost
               PROVE  used = 0 /\ counters.updates * RolloutLength + RolloutLength
                                    = counters.transitions
    BY <1>1, <1>6 DEF RolloutInv, UntrainedIsLost, Alive
  <2>1. used = 0
    BY <1>1 DEF UseInv, UntrainedIsLost
  <2> QED  BY <1>1, <2>1 DEF RolloutInv, Alive
<1> QED  BY <1>7, <1>8, <1>9, <1>10, <1>11, <1>12, <1>13 DEF TrainerInv

LEMMA UpdateStep == ASSUME TrainerInv, PerformUpdate PROVE TrainerInv'
<1> USE TrainerParts, Bounds
<1>1. /\ phase = "update" /\ phase' \in {"update", "checkpoint"} /\ CanUpdate
      /\ counters' = [counters EXCEPT !.updates = @ + 1, !.credit = Spent]
      /\ used' = used + 1
      /\ UNCHANGED <<onPolicy, rows, indexed, finished, episode, collection, saved, cut, runs>>
  BY DEF PerformUpdate
<1>2. counters.credit >= UpdateCost
  BY <1>1 DEF CanUpdate
<1>3. Spent \in Nat /\ Spent = counters.credit - UpdateCost
  BY <1>2 DEF Spent
<1>4. /\ counters' \in TrainingCounters
      /\ counters'.transitions = counters.transitions
      /\ counters'.updates = counters.updates + 1
      /\ counters'.credit = counters.credit - UpdateCost
  <2> DEFINE x == counters.updates + 1
  <2>1. x \in Nat /\ counters \in TrainingCounters
    OBVIOUS
  <2>2. counters' = [counters EXCEPT !.updates = x, !.credit = Spent]
    BY <1>1
  <2>3. x = counters.updates + 1
    OBVIOUS
  <2> HIDE DEF x
  <2>4. counters' \in TrainingCounters
    BY <1>3, <2>1, <2>2 DEF TrainingCounters
  <2>5. /\ counters'.transitions = counters.transitions /\ counters'.updates = x
        /\ counters'.credit = Spent
    BY <1>3, <2>1, <2>2 DEF TrainingCounters
  <2> QED  BY <1>3, <2>3, <2>4, <2>5
<1>5. TrainerTypeOK'
  BY <1>1, <1>4 DEF TrainerTypeOK
<1>6. FilesTypeOK' /\ FilesInv'
  BY <1>1, FilesKept
<1>7. CollectionInv'
  BY <1>1, <1>4 DEF CollectionInv
<1>8. RowsInv'
  BY <1>1, <1>4 DEF RowsInv
<1>9. CreditInv'
  <2>1. UpdateCost * (counters.updates + 1) = UpdateCost * counters.updates + UpdateCost
        /\ UpdateCost * counters.updates \in Nat
    BY Products
  <2>2. counters'.credit + UpdateCost * counters'.updates
          = counters.credit + UpdateCost * counters.updates
    BY <1>4, <2>1
  <2>3. phase' \in Alive /\ phase \in Alive /\ phase # "schedule" /\ phase' # "schedule"
        /\ phase' # "collect"
    BY <1>1 DEF Alive
  <2> QED  BY <1>1, <1>4, <2>2, <2>3 DEF CreditInv, UncreditedIsLost, Balanced
<1>10. onPolicy /\ "update" \notin cut => used = 0 /\ counters.credit = UpdateCost
  BY <1>1, <1>2 DEF UseInv, Alive
<1>11. UseInv'
  BY <1>1, <1>4, <1>10 DEF UseInv, Alive
<1>12. RolloutInv'
  <2> SUFFICES ASSUME onPolicy, ~UntrainedIsLost
               PROVE  (counters.updates + 1) * RolloutLength = counters.transitions
    <3>1. used' # 0 /\ counters.updates + 1 \in Nat
      BY <1>1
    <3>2. (counters.updates + 1) * RolloutLength \in Nat
      BY <3>1, Products
    <3> QED  BY <1>1, <1>4, <3>1, <3>2 DEF RolloutInv, UntrainedIsLost
  <2>1. used = 0
    BY <1>10 DEF UntrainedIsLost
  <2>2. counters.updates * RolloutLength + RolloutLength = counters.transitions
    BY <1>1, <2>1 DEF RolloutInv, Alive
  <2> QED  BY <2>2, Products
<1> QED  BY <1>5, <1>6, <1>7, <1>8, <1>9, <1>11, <1>12 DEF TrainerInv

\* A periodic, a final and an interrupted checkpoint leave the rest of the run alone.
LEMMA SaveStep == ASSUME TrainerInv, SavePeriodic PROVE TrainerInv'
<1> USE TrainerParts
<1>1. /\ phase = "checkpoint" /\ phase' = "update" /\ WriteCheckpoint
      /\ UNCHANGED <<onPolicy, counters, rows, indexed, finished, episode, collection, used,
                     cut, runs>>
  BY DEF SavePeriodic
<1>2. phase \in Alive
  BY <1>1 DEF Alive
<1>3. SoundFile(Checkpoint, cut')
  BY <1>1, <1>2, CheckpointIsSound
<1>4. FilesTypeOK' /\ FilesInv'
  BY <1>1, <1>3, CheckpointWriteStep
<1>5. TrainerTypeOK'
  BY <1>1 DEF TrainerTypeOK
<1>6. CollectionInv' /\ RowsInv' /\ UseInv'
  <2>1. UseInv'
    BY <1>1 DEF UseInv, Alive
  <2> QED  BY <1>1, <2>1 DEF CollectionInv, RowsInv
<1>7. CreditInv'
  BY <1>1 DEF CreditInv, UncreditedIsLost, Balanced, Alive
<1>8. RolloutInv'
  <2>1. onPolicy /\ ~UntrainedIsLost => used = 1
    BY <1>1 DEF UseInv, UntrainedIsLost
  <2> QED  BY <1>1, <2>1 DEF RolloutInv, UntrainedIsLost, Alive
<1> QED  BY <1>4, <1>5, <1>6, <1>7, <1>8 DEF TrainerInv

LEMMA FinalStep == ASSUME TrainerInv, SaveFinal PROVE TrainerInv'
<1> USE TrainerParts
<1>1. /\ phase = "final" /\ phase' = "done" /\ WriteCheckpoint
      /\ UNCHANGED <<onPolicy, counters, rows, indexed, finished, episode, collection, used,
                     cut, runs>>
  BY DEF SaveFinal
<1>2. phase \in Alive
  BY <1>1 DEF Alive
<1>3. SoundFile(Checkpoint, cut')
  BY <1>1, <1>2, CheckpointIsSound
<1>4. FilesTypeOK' /\ FilesInv'
  BY <1>1, <1>3, CheckpointWriteStep
<1>5. TrainerTypeOK'
  BY <1>1 DEF TrainerTypeOK
<1>6. CollectionInv' /\ RowsInv' /\ CreditInv' /\ UseInv' /\ RolloutInv'
  BY <1>1 DEF CollectionInv, RowsInv, CreditInv, UseInv, RolloutInv, UntrainedIsLost, Alive
<1> QED  BY <1>4, <1>5, <1>6 DEF TrainerInv

LEMMA InterruptStep == ASSUME TrainerInv, InterruptTrainer PROVE TrainerInv'
<1> USE TrainerParts
<1>1. /\ phase \in Alive /\ phase' = "interrupted" /\ WriteCheckpoint /\ cut' = cut \cup {phase}
      /\ UNCHANGED <<onPolicy, counters, rows, indexed, finished, episode, collection, used, runs>>
  BY DEF InterruptTrainer
<1>2. SoundFile(Checkpoint, cut')
  BY <1>1, CheckpointIsSound
<1>3. FilesTypeOK' /\ FilesInv'
  BY <1>1, <1>2, CheckpointWriteStep
<1>4. TrainerTypeOK'
  BY <1>1 DEF TrainerTypeOK
<1>5. CollectionInv' /\ RowsInv' /\ CreditInv' /\ UseInv' /\ RolloutInv'
  BY <1>1 DEF CollectionInv, RowsInv, CreditInv, UseInv, RolloutInv, Alive
<1> QED  BY <1>3, <1>4, <1>5 DEF TrainerInv

\* The cycle ends: what is left over does not pay for another update.
LEMMA FinishStep == ASSUME TrainerInv, FinishCycle PROVE TrainerInv'
<1> USE TrainerParts, Bounds
<1>1. /\ phase = "update" /\ ~CanUpdate
      /\ IF EvaluationDue THEN WriteCheckpoint ELSE UNCHANGED saved
      /\ phase' = IF counters.transitions >= TotalTransitions THEN "final" ELSE "collect"
      /\ collection' = NoCollection
      /\ episode' = IF onPolicy THEN episode ELSE AtReset(counters.episodes)
      /\ UNCHANGED <<onPolicy, counters, rows, indexed, finished, used, cut, runs>>
  BY DEF FinishCycle, NextPhase
<1>2. phase \in Alive
  BY <1>1 DEF Alive
<1>3. SoundFile(Checkpoint, cut')
  BY <1>1, <1>2, CheckpointIsSound
<1>4. FilesTypeOK' /\ FilesInv'
  BY <1>1, <1>3, CheckpointWriteStep, FilesKept
<1>5. collection'.transitions = 0 /\ collection' \in [transitions : Nat, episodes : Nat]
  BY <1>1 DEF NoCollection
<1>6. episode' \in [index : Nat, step : Nat] /\ (~onPolicy => episode'.step = 0)
  BY <1>1 DEF AtReset, TrainerTypeOK
<1>7. TrainerTypeOK'
  BY <1>1, <1>5, <1>6 DEF TrainerTypeOK
<1>8. CollectionInv'
  <2>1. counters.transitions <= TotalTransitions
    BY DEF CollectionInv
  <2>2. phase' = "final" => counters.transitions = TotalTransitions
    BY <1>1, <2>1
  <2>3. phase' = "collect" => counters.transitions < TotalTransitions
    BY <1>1, <2>1
  <2>4. phase' \in {"collect", "final"}
    BY <1>1
  <2>5. phase' = "collect" => 0 < Lower(RolloutLength, Remaining')
                              /\ (~onPolicy => 0 < StepLimit')
    BY <1>1, <2>3 DEF Lower, Remaining, StepLimit
  <2> QED  BY <1>1, <1>5, <1>6, <2>1, <2>2, <2>3, <2>4, <2>5 DEF CollectionInv
<1>9. RowsInv'
  BY <1>1, <1>5 DEF RowsInv
<1>10. phase' # "schedule" /\ phase' # "update" /\ phase' \in Alive
       /\ phase' \notin {"record", "schedule"}
  BY <1>1 DEF Alive
<1>11. CreditInv'
  <2> SUFFICES ASSUME ~onPolicy, ~UncreditedIsLost
               PROVE  Balanced(counters, counters.transitions) /\ counters.credit < UpdateCost
    BY <1>1, <1>10 DEF CreditInv, UncreditedIsLost, Balanced
  <2>1. Balanced(counters, counters.transitions)
    BY <1>1, <1>2 DEF CreditInv
  <2>2. counters.transitions <= rows
    BY <1>1 DEF RowsInv
  <2>3. CASE rows < Ready
    <3>1. Above(counters.transitions, Ready) = 0
      BY <2>2, <2>3 DEF Above
    <3>2. counters.credit + UpdateCost * counters.updates = CreditPerTransition * 0
      BY <2>1, <3>1 DEF Balanced
    <3>3. CreditPerTransition * 0 = 0 /\ UpdateCost * counters.updates \in Nat
      BY Products
    <3> QED  BY <2>1, <3>2, <3>3
  <2>4. CASE ~(counters.credit >= UpdateCost)
    BY <2>1, <2>4
  <2> QED  BY <1>1, <2>1, <2>3, <2>4 DEF CanUpdate, ReadyRows
<1>12. onPolicy /\ "update" \notin cut => used # 0
  BY <1>1, <1>2 DEF UseInv, RowsInv, CanUpdate, ReadyRows
<1>13. UseInv'
  BY <1>1, <1>2, <1>10, <1>12 DEF UseInv
<1>14. RolloutInv'
  BY <1>1, <1>2, <1>10, <1>12 DEF RolloutInv, UntrainedIsLost
<1> QED  BY <1>4, <1>7, <1>8, <1>9, <1>11, <1>13, <1>14 DEF TrainerInv

\* A new process continues from what its file holds.
LEMMA ResumeStep ==
    ASSUME TrainerInv, NEW u \in DOMAIN saved, ResumeRun(u)
    PROVE  TrainerInv'
<1> USE TrainerParts, Bounds
<1> DEFINE c == saved[u].counters
<1>1. /\ runs < MaxRuns /\ runs' = runs + 1
      /\ counters' = c
      /\ episode' = AtReset(IF onPolicy THEN c.next ELSE c.episodes)
      /\ rows' = saved[u].rows /\ finished' = saved[u].finished
      /\ indexed' = {k \in saved[u].indexed : k[1] \notin saved[u].finished}
      /\ collection' = NoCollection /\ used' = 0
      /\ phase' = IF c.transitions < TotalTransitions THEN "collect" ELSE "final"
      /\ UNCHANGED <<onPolicy, saved, cut>>
  BY DEF ResumeRun, RestoreCounters
<1>2. saved[u] \in CheckpointFile
  BY DEF FilesTypeOK
<1>3. /\ c \in TrainingCounters /\ saved[u].rows \in Nat
      /\ saved[u].indexed \subseteq Nat \X Nat /\ saved[u].finished \subseteq Nat
  BY <1>2 DEF CheckpointFile
<1>4. /\ c.transitions \in Nat /\ c.episodes \in Nat /\ c.next \in Nat
      /\ c.updates \in Nat /\ c.credit \in Nat
  BY <1>3 DEF TrainingCounters
<1>5. SoundFile(saved[u], cut)
  BY DEF FilesInv, SoundFile, UncreditedIsLost, UntrainedIsLost
<1>6. /\ c.transitions <= TotalTransitions
      /\ ~onPolicy => c.transitions <= saved[u].rows
      /\ ~onPolicy /\ ~UncreditedIsLost => Balanced(c, c.transitions)
      /\ onPolicy /\ "update" \notin cut => c.credit = 0
      /\ onPolicy /\ ~UntrainedIsLost => c.updates * RolloutLength = c.transitions
  BY <1>5 DEF SoundFile, UncreditedIsLost, UntrainedIsLost
<1>7. u \in DOMAIN saved' /\ saved'[u].counters = c
  BY <1>1
<1> HIDE DEF c
<1>8. collection'.transitions = 0 /\ collection' \in [transitions : Nat, episodes : Nat]
  BY <1>1 DEF NoCollection
<1>9. episode' \in [index : Nat, step : Nat] /\ episode'.step = 0
  BY <1>1, <1>4 DEF AtReset
<1>10. TrainerTypeOK'
  BY <1>1, <1>3, <1>8, <1>9 DEF TrainerTypeOK
<1>11. FilesTypeOK' /\ FilesInv'
  BY <1>1, FilesKept
<1>12. phase' \in {"collect", "final"} /\ (phase' = "final" => c.transitions = TotalTransitions)
       /\ (phase' = "collect" => c.transitions < TotalTransitions)
  BY <1>1, <1>4, <1>6
<1>13. CollectionInv'
  <2>1. phase' = "collect" => 0 < Lower(RolloutLength, Remaining')
                              /\ (~onPolicy => 0 < StepLimit')
    BY <1>1, <1>4, <1>12 DEF Lower, Remaining, StepLimit
  <2> QED  BY <1>1, <1>6, <1>8, <1>9, <1>12, <2>1 DEF CollectionInv
<1>14. RowsInv'
  BY <1>1, <1>4, <1>6, <1>8, <1>12 DEF RowsInv
<1>15. CreditInv'
  BY <1>1, <1>6, <1>7, <1>12 DEF CreditInv, UncreditedIsLost, Balanced
<1>16. UseInv'
  BY <1>1, <1>6, <1>12 DEF UseInv
<1>17. RolloutInv'
  <2>1. c.updates * RolloutLength \in Nat
    BY <1>4, Products
  <2> QED  BY <1>1, <1>6, <1>12, <2>1 DEF RolloutInv, UntrainedIsLost
<1> QED  BY <1>10, <1>11, <1>13, <1>14, <1>15, <1>16, <1>17 DEF TrainerInv

LEMMA TrainerInit0 == ASSUME TrainerInit PROVE TrainerInv
<1> USE Bounds
<1>1. /\ onPolicy \in BOOLEAN /\ phase = "new" /\ counters = Counters /\ rows = 0
      /\ indexed = {} /\ finished = {} /\ episode = AtReset(0) /\ collection = NoCollection
      /\ used = 0 /\ saved = <<>> /\ cut = {} /\ runs = 0
  BY DEF TrainerInit
<1>2. DOMAIN saved = {}
  BY <1>1
<1>3. counters \in TrainingCounters /\ counters.transitions = 0
  BY <1>1 DEF Counters, TrainingCounters
<1>4. TrainerTypeOK
  BY <1>1, <1>3 DEF TrainerTypeOK, AtReset, NoCollection
<1>5. FilesTypeOK /\ FilesInv
  BY <1>2 DEF FilesTypeOK, FilesInv
<1>6. CollectionInv /\ RowsInv /\ CreditInv /\ UseInv /\ RolloutInv
  BY <1>1, <1>3 DEF CollectionInv, RowsInv, CreditInv, UseInv, RolloutInv, Alive
<1> QED  BY <1>4, <1>5, <1>6 DEF TrainerInv

\* TrainerInv: what a file holds and where a collection, its credit and its updates are, at
\* every point Ctrl+C or a kill can fall on (training_loop.py).
THEOREM TrainerInductive == TrainerSpec => []TrainerInv
<1>1. TrainerInit => TrainerInv
  BY TrainerInit0
<1>2. TrainerInv /\ [TrainerNext]_trainerVars => TrainerInv'
  <2> SUFFICES ASSUME TrainerInv, [TrainerNext]_trainerVars PROVE TrainerInv'
    OBVIOUS
  <2>1. CASE UNCHANGED trainerVars
    BY <2>1 DEF trainerVars, TrainerInv, TrainerTypeOK, FilesTypeOK, FilesInv, CollectionInv,
                RowsInv, CreditInv, UseInv, RolloutInv, UncreditedIsLost, UntrainedIsLost,
                Balanced, Remaining, StepLimit
  <2>2. CASE Collect
    BY <2>2, CollectStep DEF Collect
  <2>3. CASE \E u \in DOMAIN saved : ResumeRun(u)
    BY <2>3, ResumeStep
  <2> QED
    BY <2>1, <2>2, <2>3, StartStep, DuplicateStepKeeps, RecordStep, ScheduleStep, UpdateStep,
       SaveStep, FinishStep, FinalStep, InterruptStep, CrashStep DEF TrainerNext
<1> QED  BY <1>1, <1>2, PTL DEF TrainerSpec

\* The trainer keeps its types.
THEOREM TrainerTypeCorrect == TrainerSpec => []TrainerTypeOK
<1>1. TrainerInv => TrainerTypeOK
  BY DEF TrainerInv
<1> QED  BY <1>1, TrainerInductive, PTL

\* Credit, the target and the use of rollouts add up over any number of restarts, for any
\* amounts of credit, lengths and intervals.
THEOREM TrainingSums == TrainerSpec => []TrainingAddsUp
<1>1. TrainerInv => TrainingAddsUp
  <2> SUFFICES ASSUME TrainerInv PROVE TrainingAddsUp
    OBVIOUS
  <2> USE TrainerParts
  <2>1. CreditFollowsTransitions
    BY DEF CreditFollowsTransitions, CreditInv, Balanced, UncreditedIsLost, Alive
  <2>2. FinishedRunIsComplete
    <3>1. counters.updates * RolloutLength \in Nat
      BY Bounds, Products
    <3> QED  BY <3>1 DEF FinishedRunIsComplete, CollectionInv, RolloutInv, UntrainedIsLost
  <2>3. RolloutsTrainOnce
    BY DEF RolloutsTrainOnce, UseInv
  <2> QED  BY <2>1, <2>2, <2>3 DEF TrainingAddsUp
<1> QED  BY <1>1, TrainerInductive, PTL

-----------------------------------------------------------------------------
(* The log and its remote tracker.                                          *)

\* The token is not an event.
LEMMA EventsAreNoTokens ==
    /\ \A e \in Events : e # Token /\ e.kind # "close" /\ e.thread \in Logger
                         /\ e.number \in Nat /\ e.kind \in Kind
    /\ Token.kind = "close" /\ Token \notin Events
<1>1. \A e \in Events : e.kind # "close" /\ e.thread \in Logger /\ e.number \in Nat
                        /\ e.kind \in Kind
  BY DEF Events, Kind
<1>2. Token.kind = "close"
  BY DEF Token
<1> QED  BY <1>1, <1>2

\* Where the members of a set stand in a sequence, and how often, when one is appended.
Places(s, V) == {k \in DOMAIN s : s[k] \in V}

LEMMA CountAppended ==
    ASSUME NEW S, NEW s \in Seq(S), NEW e \in S, NEW V
    PROVE  /\ Cardinality(Places(s, V)) \in Nat /\ Cardinality(Places(s, V)) <= Len(s)
           /\ Cardinality(Places(Append(s, e), V))
                = Cardinality(Places(s, V)) + (IF e \in V THEN 1 ELSE 0)
<1> DEFINE A == Places(s, V)
           B == Places(Append(s, e), V)
<1>1. DOMAIN s = 1 .. Len(s) /\ Len(s) \in Nat
  OBVIOUS
<1>2. /\ DOMAIN Append(s, e) = 1 .. Len(s) + 1
      /\ \A k \in 1 .. Len(s) : Append(s, e)[k] = s[k]
      /\ Append(s, e)[Len(s) + 1] = e
  OBVIOUS
<1>3. B = IF e \in V THEN A \cup {Len(s) + 1} ELSE A
  BY <1>1, <1>2 DEF Places
<1>4. IsFiniteSet(1 .. Len(s)) /\ Cardinality(1 .. Len(s)) = Len(s)
  BY <1>1, FS_Interval
<1>5. A \subseteq 1 .. Len(s) /\ Len(s) + 1 \notin A
  BY <1>1 DEF Places
<1> HIDE DEF A, B
<1>6. IsFiniteSet(A) /\ Cardinality(A) <= Len(s)
  BY <1>4, <1>5, FS_Subset
<1>7. Cardinality(A) \in Nat
  BY <1>6, FS_CardinalityType
<1>8. Cardinality(A \cup {Len(s) + 1}) = Cardinality(A) + 1
  BY <1>5, <1>6, FS_AddElement
<1>9. Cardinality(B) = Cardinality(A) + (IF e \in V THEN 1 ELSE 0)
  BY <1>3, <1>7, <1>8
<1> QED  BY <1>6, <1>7, <1>9 DEF A, B

LEMMA Appended ==
    ASSUME NEW S, NEW s \in Seq(S), NEW e \in S
    PROVE  /\ Append(s, e) \in Seq(S) /\ Len(Append(s, e)) = Len(s) + 1
           /\ DOMAIN s = 1 .. Len(s) /\ DOMAIN Append(s, e) = 1 .. Len(s) + 1 /\ Len(s) \in Nat
           /\ \A k \in 1 .. Len(s) : Append(s, e)[k] = s[k] /\ s[k] \in S
           /\ Append(s, e)[Len(s) + 1] = e
  OBVIOUS

LEMMA Shifted ==
    ASSUME NEW S, NEW s \in Seq(S), s # <<>>
    PROVE  /\ Head(s) = s[1] /\ Head(s) \in S /\ Tail(s) \in Seq(S)
           /\ Len(Tail(s)) = Len(s) - 1 /\ Len(s) \in Nat \ {0}
           /\ DOMAIN s = 1 .. Len(s) /\ DOMAIN Tail(s) = 1 .. Len(s) - 1
           /\ \A k \in 1 .. Len(s) - 1 : Tail(s)[k] = s[k + 1]
  OBVIOUS

\* What the types say of a state.
LEMMA TrackerTypes ==
    ASSUME TrackerTypeOK
    PROVE  /\ logged \in Seq(Events) /\ received \in Seq(Events)
           /\ outbox \in Seq(Events \cup {Token})
           /\ \A t \in Logger : caller[t] = Done \/ (caller[t].at \in {"local", "projected"}
                                                     /\ caller[t] # Done
                                                     /\ caller[t].event \in Events)
           /\ Sending <=> worker # Waiting /\ worker # Ended
           /\ Sending => worker.event \in Events
           /\ droppedEvents \in Nat /\ Len(outbox) \in Nat /\ Len(received) \in Nat
           /\ \A t \in Logger : caller[t] = Done <=> caller[t].at = "idle"
<1>1. \A t \in Logger : caller[t] \in {Done} \cup [at : {"local", "projected"}, event : Events]
  BY DEF TrackerTypeOK
<1>2. Done.at = "idle"
  BY DEF Done
<1>3. \A r \in [at : {"local", "projected"}, event : Events] :
        r.at \in {"local", "projected"} /\ r.event \in Events /\ r # Done
  BY <1>2
<1>4. \A t \in Logger : caller[t] = Done \/ (caller[t].at \in {"local", "projected"}
                                             /\ caller[t] # Done /\ caller[t].event \in Events)
  BY <1>1, <1>3
<1>5. worker \in {Waiting, Ended} \cup [at : {"sends"}, event : Events]
  BY DEF TrackerTypeOK
<1>6. Waiting.at = "waits" /\ Ended.at = "ended"
  BY DEF Waiting, Ended
<1>7. \A r \in [at : {"sends"}, event : Events] : r.at = "sends" /\ r.event \in Events
  OBVIOUS
<1>8. (Sending <=> worker # Waiting /\ worker # Ended) /\ (Sending => worker.event \in Events)
  BY <1>5, <1>6, <1>7 DEF Sending
<1>9. \A t \in Logger : caller[t] = Done <=> caller[t].at = "idle"
  BY <1>2, <1>4
<1> QED  BY <1>4, <1>8, <1>9 DEF TrackerTypeOK

\* Events that stand in the file stay there.
LEMMA FileGrows ==
    ASSUME TrackerTypeOK, NEW event \in Events, logged' = Append(logged, event)
    PROVE  /\ \A e : InFile(e) => InFile(e)'
           /\ InFile(event)'
           /\ DOMAIN logged' = 1 .. Len(logged) + 1 /\ DOMAIN logged = 1 .. Len(logged)
           /\ \A i \in 1 .. Len(logged) : logged'[i] = logged[i] /\ logged[i] \in Events
           /\ logged'[Len(logged) + 1] = event
           /\ Len(logged) \in Nat /\ Len(logged') = Len(logged) + 1
           /\ \A t \in Logger :
                /\ Logging(t) \in Nat /\ Logging(t) <= Len(logged)
                /\ Logging(t)' = Logging(t) + (IF event.thread = t THEN 1 ELSE 0)
           /\ Cardinality(Loud) \in Nat
           /\ Cardinality(Loud') = Cardinality(Loud) + (IF event.kind # "silent" THEN 1 ELSE 0)
<1>1. logged \in Seq(Events)
  BY DEF TrackerTypeOK
<1>2. /\ DOMAIN logged' = 1 .. Len(logged) + 1 /\ DOMAIN logged = 1 .. Len(logged)
      /\ \A i \in 1 .. Len(logged) : logged'[i] = logged[i] /\ logged[i] \in Events
      /\ logged'[Len(logged) + 1] = event
      /\ Len(logged) \in Nat /\ Len(logged') = Len(logged) + 1
      /\ logged' \in Seq(Events)
  BY <1>1, Appended
<1>3. \A e : InFile(e) => InFile(e)'
  BY <1>2 DEF InFile
<1>4. InFile(event)'
  BY <1>2 DEF InFile
<1>5. ASSUME NEW t \in Logger
      PROVE  /\ Logging(t) \in Nat /\ Logging(t) <= Len(logged)
             /\ Logging(t)' = Logging(t) + (IF event.thread = t THEN 1 ELSE 0)
  <2> DEFINE V == {e \in Events : e.thread = t}
             n == Cardinality(Places(logged, V))
  <2> HIDE DEF V
  <2>1. /\ n \in Nat /\ n <= Len(logged)
        /\ Cardinality(Places(logged', V))
             = n + (IF event \in V THEN 1 ELSE 0)
    BY <1>1, CountAppended
  <2>2. Places(logged, V) = {k \in DOMAIN logged : logged[k].thread = t}
    BY <1>2 DEF V, Places
  <2>3. Places(logged', V) = {k \in DOMAIN logged' : logged'[k].thread = t}
    BY <1>2 DEF V, Places
  <2>4. event \in V <=> event.thread = t
    BY DEF V
  <2>5. Logging(t) = n
    BY <2>2 DEF Logging
  <2>6. Logging(t)' = Cardinality(Places(logged', V))
    BY <2>3 DEF Logging
  <2> QED  BY <2>1, <2>4, <2>5, <2>6
<1>6. /\ Cardinality(Loud) \in Nat
      /\ Cardinality(Loud') = Cardinality(Loud) + (IF event.kind # "silent" THEN 1 ELSE 0)
  <2> DEFINE V == {e \in Events : e.kind # "silent"}
             n == Cardinality(Places(logged, V))
  <2> HIDE DEF V
  <2>1. /\ n \in Nat /\ n <= Len(logged)
        /\ Cardinality(Places(logged', V))
             = n + (IF event \in V THEN 1 ELSE 0)
    BY <1>1, CountAppended
  <2>2. Places(logged, V) = Loud
    BY <1>2 DEF Loud, V, Places
  <2>3. Places(logged', V) = Loud'
    BY <1>2 DEF Loud, V, Places
  <2>4. event \in V <=> event.kind # "silent"
    BY DEF V
  <2> QED  BY <2>1, <2>2, <2>3, <2>4
<1> QED  BY <1>2, <1>3, <1>4, <1>5, <1>6

\* The threads that have an event in hand.
LEMMA HandCount ==
    /\ IsFiniteSet(HandedOver) /\ Cardinality(HandedOver) \in Nat
    /\ IsFiniteSet(HandedOver') /\ Cardinality(HandedOver') \in Nat
    /\ \A t : t \notin HandedOver /\ HandedOver' = HandedOver \cup {t} =>
         Cardinality(HandedOver') = Cardinality(HandedOver) + 1
    /\ \A t \in HandedOver : HandedOver' = HandedOver \ {t} =>
         Cardinality(HandedOver') = Cardinality(HandedOver) - 1
<1>1. IsFiniteSet(HandedOver) /\ IsFiniteSet(HandedOver')
  <2>1. HandedOver \subseteq Logger /\ HandedOver' \subseteq Logger
    BY DEF HandedOver
  <2> HIDE DEF HandedOver
  <2> QED  BY <2>1, TrackerAssumption, FS_Subset
<1>2. Cardinality(HandedOver) \in Nat /\ Cardinality(HandedOver') \in Nat
  BY <1>1, FS_CardinalityType
<1>3. ASSUME NEW t, t \notin HandedOver, HandedOver' = HandedOver \cup {t}
      PROVE  Cardinality(HandedOver') = Cardinality(HandedOver) + 1
  BY <1>1, <1>3, FS_AddElement
<1>4. ASSUME NEW t \in HandedOver, HandedOver' = HandedOver \ {t}
      PROVE  Cardinality(HandedOver') = Cardinality(HandedOver) - 1
  BY <1>1, <1>4, FS_RemoveElement
<1> QED  BY <1>1, <1>2, <1>3, <1>4

\* What each step does to the queue, the worker and the threads, with the facts on sequences
\* that the proofs below need.
LEMMA LogEffect ==
    ASSUME TrackerTypeOK, NEW t \in Logger, LogLocally(t)
    PROVE  \E event \in Events :
             /\ caller[t] = Done /\ closer = "open" /\ Len(logged) < MaxLogged
             /\ event.thread = t /\ event.number = Logging(t) + 1
             /\ logged' = Append(logged, event)
             /\ caller' = [caller EXCEPT ![t] = [at |-> "local", event |-> event]]
<1>1. PICK kind \in Kind :
        LET event == [thread |-> t, number |-> Logging(t) + 1, kind |-> kind]
        IN /\ logged' = Append(logged, event)
           /\ caller' = [caller EXCEPT ![t] = [at |-> "local", event |-> event]]
  BY DEF LogLocally
<1> DEFINE event == [thread |-> t, number |-> Logging(t) + 1, kind |-> kind]
<1>2. Logging(t) \in Nat /\ Logging(t) <= Len(logged)
  <2> DEFINE V == {e \in Events : e.thread = t}
  <2> HIDE DEF V
  <2>1. logged \in Seq(Events) /\ DOMAIN logged = 1 .. Len(logged) /\ Len(logged) \in Nat
    BY DEF TrackerTypeOK
  <2>2. {k \in DOMAIN logged : logged[k].thread = t} = Places(logged, V)
    BY <2>1 DEF Places, V
  <2>3. DOMAIN logged = 1 .. Len(logged) /\ IsFiniteSet(1 .. Len(logged))
        /\ Cardinality(1 .. Len(logged)) = Len(logged)
    BY <2>1, FS_Interval
  <2>4. Places(logged, V) \subseteq 1 .. Len(logged)
    BY <2>3 DEF Places
  <2>5. IsFiniteSet(Places(logged, V)) /\ Cardinality(Places(logged, V)) <= Len(logged)
    BY <2>3, <2>4, FS_Subset
  <2> QED  BY <2>2, <2>5, FS_CardinalityType DEF Logging
<1>3. Len(logged) < MaxLogged /\ Len(logged) \in Nat /\ MaxLogged \in Nat
  BY TrackerAssumption DEF LogLocally, TrackerTypeOK
<1>4. event \in Events
  BY <1>2, <1>3 DEF Events
<1> QED  BY <1>1, <1>3, <1>4 DEF LogLocally

\* A thread's place after a step.
LEMMA CallerTyped ==
    ASSUME TrackerTypeOK, NEW t \in Logger,
           NEW c \in {Done} \cup [at : {"local", "projected"}, event : Events],
           caller' = [caller EXCEPT ![t] = c]
    PROVE  /\ caller' \in [Logger -> {Done} \cup [at : {"local", "projected"}, event : Events]]
           /\ caller'[t] = c /\ \A u \in Logger : u # t => caller'[u] = caller[u]
  BY DEF TrackerTypeOK

LEMMA TypesStep == ASSUME TrackerTypeOK, TrackerNext PROVE TrackerTypeOK'
<1> USE TrackerTypes
<1> DEFINE Callers == {Done} \cup [at : {"local", "projected"}, event : Events]
<1>1. /\ QueueSize \in Nat \ {0} /\ MaxLogged \in Nat
      /\ logged \in Seq(Events) /\ Len(logged) <= MaxLogged
      /\ caller \in [Logger -> Callers]
      /\ outbox \in Seq(Events \cup {Token}) /\ Len(outbox) <= QueueSize
      /\ worker \in {Waiting, Ended} \cup [at : {"sends"}, event : Events]
      /\ received \in Seq(Events)
      /\ enabled \in BOOLEAN /\ failed \in BOOLEAN /\ droppedEvents \in Nat
      /\ closer \in {"open", "put", "join", "finish", "closed"} /\ exitCode \in 0 .. 2
  BY TrackerAssumption DEF TrackerTypeOK
<1>2. ASSUME NEW t \in Logger, LogLocally(t) PROVE TrackerTypeOK'
  <2>1. PICK event \in Events :
          /\ Len(logged) < MaxLogged /\ logged' = Append(logged, event)
          /\ caller' = [caller EXCEPT ![t] = [at |-> "local", event |-> event]]
    BY <1>2, LogEffect
  <2>2. logged' \in Seq(Events) /\ Len(logged') <= MaxLogged
    BY <1>1, <2>1, Appended
  <2>3. caller' \in [Logger -> Callers]
    BY <2>1, CallerTyped
  <2> QED  BY <1>1, <1>2, <2>2, <2>3 DEF LogLocally, TrackerTypeOK, queueVars, closeVars
<1>3. ASSUME NEW t \in Logger, Project(t) PROVE TrackerTypeOK'
  <2>1. caller[t].at = "local" /\ caller[t].event \in Events
    <3>1. caller[t].at = "local" /\ Done.at = "idle"
      BY <1>3 DEF Project, Done
    <3> QED  BY <3>1
  <2>2. [at |-> "projected", event |-> caller[t].event] \in Callers
    BY <2>1
  <2>3. caller' \in [Logger -> Callers]
    BY <1>1, <1>3, <2>2 DEF Project
  <2>4. failed' \in BOOLEAN
    BY <1>3 DEF Project
  <2> QED  BY <1>1, <1>3, <2>3, <2>4 DEF Project, TrackerTypeOK, queueVars, closeVars
<1>4. ASSUME NEW t \in Logger, HandOver(t) PROVE TrackerTypeOK'
  <2>1. caller[t].event \in Events
    <3>1. caller[t].at = "projected" /\ Done.at = "idle"
      BY <1>4 DEF HandOver, Done
    <3> QED  BY <3>1
  <2>2. caller' \in [Logger -> Callers]
    BY <1>1, <1>4 DEF HandOver
  <2>3. CASE HasRoom /\ outbox' = Append(outbox, caller[t].event) /\ UNCHANGED droppedEvents
    <3>1. outbox' \in Seq(Events \cup {Token}) /\ Len(outbox') = Len(outbox) + 1
      BY <1>1, <2>1, <2>3, Appended
    <3> QED  BY <1>1, <1>4, <2>2, <2>3, <3>1 DEF HandOver, HasRoom, TrackerTypeOK, closeVars
  <2>4. CASE droppedEvents' = droppedEvents + 1 /\ UNCHANGED outbox
    BY <1>1, <1>4, <2>2, <2>4 DEF HandOver, TrackerTypeOK, closeVars
  <2> QED  BY <1>4, <2>3, <2>4 DEF HandOver
<1>5. ASSUME TakeEvent PROVE TrackerTypeOK'
  <2>1. outbox # <<>> /\ outbox' = Tail(outbox)
    BY <1>5 DEF TakeEvent
  <2>2. Head(outbox) \in Events \cup {Token} /\ outbox' \in Seq(Events \cup {Token})
        /\ Len(outbox') <= QueueSize
    BY <1>1, <2>1, Shifted
  <2>3. worker' \in {Waiting, Ended} \cup [at : {"sends"}, event : Events]
    BY <1>5, <2>2 DEF TakeEvent
  <2> QED  BY <1>1, <1>5, <2>2, <2>3 DEF TakeEvent, TrackerTypeOK, closeVars
<1>6. ASSUME Send PROVE TrackerTypeOK'
  <2>1. received' \in Seq(Events)
    BY <1>1, <1>6, Appended DEF Send
  <2> QED  BY <1>1, <1>6, <2>1 DEF Send, TrackerTypeOK, closeVars
<1>7. ASSUME PutToken PROVE TrackerTypeOK'
  <2>1. HasRoom => Append(outbox, Token) \in Seq(Events \cup {Token})
                   /\ Len(Append(outbox, Token)) <= QueueSize
    BY <1>1, Appended DEF HasRoom
  <2>2. outbox' \in Seq(Events \cup {Token}) /\ Len(outbox') <= QueueSize
        /\ droppedEvents' \in Nat /\ closer' \in {"join", "finish"}
    <3>1. CASE HasRoom
      BY <1>1, <1>7, <2>1, <3>1 DEF PutToken
    <3>2. CASE ~HasRoom
      BY <1>1, <1>7, <3>2 DEF PutToken
    <3> QED  BY <3>1, <3>2
  <2> QED  BY <1>1, <1>7, <2>2 DEF PutToken, TrackerTypeOK
<1>8. ASSUME RemoteFails PROVE TrackerTypeOK'
  BY <1>1, <1>8 DEF RemoteFails, TrackerTypeOK, closeVars
<1>9. ASSUME BeginClose \/ JoinWorker PROVE TrackerTypeOK'
  BY <1>1, <1>9 DEF BeginClose, JoinWorker, TrackerTypeOK, queueVars
<1>10. ASSUME FinishRun PROVE TrackerTypeOK'
  <2>1. failed' \in BOOLEAN /\ exitCode' \in 0 .. 2 /\ closer' = "closed"
    BY <1>1, <1>10 DEF FinishRun
  <2> QED  BY <1>1, <1>10, <2>1 DEF FinishRun, TrackerTypeOK, queueVars
<1> QED
  BY <1>2, <1>3, <1>4, <1>5, <1>6, <1>7, <1>8, <1>9, <1>10 DEF TrackerNext, CallerStep, CloserStep

\* Close and its token.
LEMMA TokenStep == ASSUME TrackerTypeOK, TokenInv, TrackerNext PROVE TokenInv'
<1> USE TrackerTypes, EventsAreNoTokens
<1>1. /\ outbox \in Seq(Events \cup {Token})
      /\ DOMAIN outbox = 1 .. Len(outbox) /\ Len(outbox) \in Nat
      /\ closer # "open" => \A t \in Logger : caller[t] = Done
      /\ \A k \in DOMAIN outbox : outbox[k] = Token =>
           k = Len(outbox) /\ closer \notin {"open", "put"}
      /\ worker = Ended => outbox = <<>> /\ closer \notin {"open", "put"}
  BY DEF TokenInv, TrackerTypeOK
<1>2. Waiting # Ended /\ \A e : [at |-> "sends", event |-> e] # Ended
  <2>1. /\ Waiting.at = "waits" /\ Ended.at = "ended"
        /\ \A e : [at |-> "sends", event |-> e].at = "sends"
    BY DEF Waiting, Ended
  <2> QED  BY <2>1
<1>3. ASSUME NEW t \in Logger, LogLocally(t) PROVE TokenInv'
  BY <1>1, <1>3 DEF LogLocally, TokenInv, queueVars, closeVars
<1>4. ASSUME NEW t \in Logger, Project(t) PROVE TokenInv'
  <2>1. caller[t] # Done
    BY <1>4 DEF Project, Done
  <2> QED  BY <1>1, <1>4, <2>1 DEF Project, TokenInv, queueVars, closeVars
<1>5. ASSUME NEW t \in Logger, HandOver(t) PROVE TokenInv'
  <2>1. caller[t] # Done /\ caller[t].event \in Events
    <3>1. caller[t].at = "projected" /\ Done.at = "idle"
      BY <1>5 DEF HandOver, Done
    <3> QED  BY <3>1
  <2>2. closer = "open" /\ worker # Ended
    BY <1>1, <2>1
  <2>3. \A k \in DOMAIN outbox : outbox[k] # Token
    BY <1>1, <2>2
  <2>4. \A k \in DOMAIN outbox' : outbox'[k] # Token
    <3>1. CASE outbox' = Append(outbox, caller[t].event)
      <4>1. DOMAIN outbox' = 1 .. Len(outbox) + 1 /\ outbox'[Len(outbox) + 1] = caller[t].event
            /\ \A k \in 1 .. Len(outbox) : outbox'[k] = outbox[k]
        BY <1>1, <2>1, <3>1, Appended
      <4> QED  BY <1>1, <2>1, <2>3, <4>1
    <3> QED  BY <1>5, <2>3, <3>1 DEF HandOver
  <2> QED  BY <1>1, <1>5, <2>2, <2>4 DEF HandOver, TokenInv, closeVars
<1>6. ASSUME TakeEvent PROVE TokenInv'
  <2>1. outbox # <<>> /\ outbox' = Tail(outbox)
    BY <1>6 DEF TakeEvent
  <2>2. /\ Head(outbox) = outbox[1] /\ Len(outbox') = Len(outbox) - 1 /\ Len(outbox) > 0
        /\ DOMAIN outbox' = 1 .. Len(outbox) - 1
        /\ \A k \in 1 .. Len(outbox) - 1 : outbox'[k] = outbox[k + 1]
    BY <1>1, <2>1, Shifted
  <2>3. \A k \in DOMAIN outbox' : outbox'[k] = Token =>
          k = Len(outbox') /\ closer \notin {"open", "put"}
    <3> SUFFICES ASSUME NEW k \in 1 .. Len(outbox) - 1, outbox'[k] = Token
                 PROVE  k = Len(outbox') /\ closer \notin {"open", "put"}
      BY <2>2
    <3>1. k + 1 \in DOMAIN outbox /\ outbox[k + 1] = Token
      BY <1>1, <2>2
    <3>2. k + 1 = Len(outbox) /\ closer \notin {"open", "put"}
      BY <1>1, <3>1
    <3>3. k + 1 = Len(outbox)
      BY <3>2
    <3>4. Len(outbox) \in Nat /\ k \in Int
      BY <1>1
    <3>5. k = Len(outbox) - 1
      BY <3>3, <3>4
    <3>6. k = Len(outbox')
      BY <2>2, <3>5
    <3> QED  BY <3>2, <3>6
  <2>4. worker' = Ended => Head(outbox) = Token
    BY <1>2, <1>6 DEF TakeEvent
  <2>5. worker' = Ended => outbox' = <<>> /\ closer \notin {"open", "put"}
    <3> SUFFICES ASSUME worker' = Ended PROVE outbox' = <<>> /\ closer \notin {"open", "put"}
      OBVIOUS
    <3>1. Len(outbox) = 1 /\ closer \notin {"open", "put"}
      BY <1>1, <2>2, <2>4
    <3>2. outbox' \in Seq(Events \cup {Token}) /\ Len(outbox') = 0
      BY <1>1, <2>1, <2>2, <3>1, Shifted
    <3> QED  BY <3>1, <3>2
  <2> QED  BY <1>1, <1>6, <2>3, <2>5 DEF TakeEvent, TokenInv, closeVars
<1>7. ASSUME Send \/ RemoteFails PROVE TokenInv'
  BY <1>1, <1>2, <1>7 DEF Send, RemoteFails, TokenInv, closeVars
<1>8. ASSUME BeginClose \/ JoinWorker \/ FinishRun PROVE TokenInv'
  BY <1>1, <1>8 DEF BeginClose, JoinWorker, FinishRun, TokenInv, queueVars, closeVars
<1>9. ASSUME PutToken PROVE TokenInv'
  <2>1. closer = "put" /\ worker # Ended /\ \A k \in DOMAIN outbox : outbox[k] # Token
    BY <1>1, <1>9 DEF PutToken
  <2>2. CASE outbox' = Append(outbox, Token) /\ closer' = "join"
    <3>1. DOMAIN outbox' = 1 .. Len(outbox) + 1 /\ Len(outbox') = Len(outbox) + 1
          /\ \A k \in 1 .. Len(outbox) : outbox'[k] = outbox[k]
      BY <1>1, <2>2, Appended
    <3> QED  BY <1>1, <1>9, <2>1, <2>2, <3>1 DEF PutToken, TokenInv
  <2>3. CASE closer' = "finish" /\ UNCHANGED outbox
    BY <1>1, <1>9, <2>1, <2>3 DEF PutToken, TokenInv
  <2> QED  BY <1>9, <2>2, <2>3 DEF PutToken
<1> QED
  BY <1>3, <1>4, <1>5, <1>6, <1>7, <1>8, <1>9 DEF TrackerNext, CallerStep, CloserStep

\* Whatever is on its way stands in the file.
LEMMA FileStep ==
    ASSUME TrackerTypeOK, TokenInv, FileInv, TrackerNext
    PROVE  FileInv'
<1>1. /\ \A t \in Logger : caller[t] # Done =>
           InFile(caller[t].event) /\ caller[t].event.thread = t
      /\ \A k \in DOMAIN outbox : outbox[k] # Token => InFile(outbox[k])
      /\ Sending => InFile(worker.event)
      /\ \A k \in DOMAIN received : InFile(received[k])
      /\ \A i \in DOMAIN logged : logged[i].number <= Logging(logged[i].thread)
  BY DEF FileInv
<1>2. ASSUME NEW t \in Logger, LogLocally(t) PROVE FileInv'
  <2>1. PICK event \in Events :
          /\ caller[t] = Done /\ event.thread = t /\ event.number = Logging(t) + 1
          /\ logged' = Append(logged, event)
          /\ caller' = [caller EXCEPT ![t] = [at |-> "local", event |-> event]]
    BY <1>2, LogEffect
  <2>2. /\ \A e : InFile(e) => InFile(e)'
        /\ InFile(event)'
        /\ DOMAIN logged' = 1 .. Len(logged) + 1 /\ DOMAIN logged = 1 .. Len(logged)
        /\ \A i \in 1 .. Len(logged) : logged'[i] = logged[i] /\ logged[i] \in Events
        /\ logged'[Len(logged) + 1] = event /\ Len(logged) \in Nat
        /\ \A u \in Logger :
             /\ Logging(u) \in Nat
             /\ Logging(u)' = Logging(u) + (IF event.thread = u THEN 1 ELSE 0)
    BY <2>1, FileGrows
  <2>3. caller'[t] = [at |-> "local", event |-> event]
        /\ \A u \in Logger : u # t => caller'[u] = caller[u]
    BY <2>1 DEF TrackerTypeOK
  <2>4. UNCHANGED <<outbox, worker, received>>
    BY <1>2 DEF LogLocally, queueVars
  <2>5. \A u \in Logger : caller'[u] # Done =>
          (InFile(caller[u].event))' /\ caller'[u].event.thread = u
    <3>1. ASSUME NEW u \in Logger, u # t, caller'[u] # Done
          PROVE  (InFile(caller[u].event))' /\ caller'[u].event.thread = u
      <4>1. caller'[u] = caller[u] /\ InFile(caller[u].event) /\ caller[u].event.thread = u
        BY <1>1, <2>3, <3>1
      <4> QED  BY <2>2, <4>1 DEF InFile
    <3>2. (InFile(caller[t].event))' /\ caller'[t].event.thread = t
      <4>1. caller'[t].event = event
        BY <2>3
      <4> QED  BY <2>1, <2>2, <4>1 DEF InFile
    <3> QED  BY <3>1, <3>2
  <2>6. (\A k \in DOMAIN outbox : outbox[k] # Token => InFile(outbox[k]))'
    BY <1>1, <2>2, <2>4 DEF InFile
  <2>7. (Sending => InFile(worker.event))'
    BY <1>1, <2>2, <2>4 DEF InFile, Sending
  <2>8. (\A k \in DOMAIN received : InFile(received[k]))'
    BY <1>1, <2>2, <2>4 DEF InFile
  <2>9. \A i \in DOMAIN logged' : logged'[i].number <= (Logging(logged[i].thread))'
    <3>1. \A u \in Logger : Logging(u)' \in Nat /\ Logging(u) <= Logging(u)'
      BY <2>2
    <3>2. ASSUME NEW i \in 1 .. Len(logged)
          PROVE  logged'[i].number <= (Logging(logged[i].thread))'
      <4> DEFINE u == logged[i].thread
      <4>1. u \in Logger /\ logged[i].number \in Nat
        BY <2>2, EventsAreNoTokens
      <4>2. logged[i].number <= Logging(u)
        BY <1>1, <2>2
      <4>3. logged[i].number <= Logging(u)'
        BY <2>2, <3>1, <4>1, <4>2
      <4>4. logged'[i] = logged[i]
        BY <2>2
      <4> QED  BY <4>3, <4>4 DEF Logging
    <3>3. event.number <= Logging(t)'
      BY <2>1, <2>2
    <3>5. \A i \in DOMAIN logged' : i \in 1 .. Len(logged) \/ logged'[i] = event
      BY <2>2
    <3> QED  BY <2>1, <3>2, <3>3, <3>5 DEF Logging
  <2> QED  BY <2>5, <2>6, <2>7, <2>8, <2>9 DEF FileInv
<1>3. ASSUME NEW t \in Logger, Project(t) PROVE FileInv'
  <2>1. caller[t] # Done /\ caller \in [Logger -> {Done} \cup
          [at : {"local", "projected"}, event : Events]]
    BY <1>3 DEF Project, Done, TrackerTypeOK
  <2>2. \A u \in Logger : caller'[u] # Done =>
          caller[u] # Done /\ caller'[u].event = caller[u].event
    BY <1>3, <2>1 DEF Project
  <2>3. UNCHANGED <<logged, outbox, worker, received>>
    BY <1>3 DEF Project, queueVars
  <2> QED  BY <1>1, <2>2, <2>3 DEF FileInv, InFile, Sending, Logging
<1>4. ASSUME NEW t \in Logger, HandOver(t) PROVE FileInv'
  <2>1. caller[t] # Done /\ caller \in [Logger -> {Done} \cup
          [at : {"local", "projected"}, event : Events]]
    BY <1>4 DEF HandOver, Done, TrackerTypeOK
  <2>2. \A u \in Logger : caller'[u] # Done =>
          caller[u] # Done /\ caller'[u].event = caller[u].event
    BY <1>4, <2>1 DEF HandOver
  <2>3. UNCHANGED <<logged, worker, received>>
    BY <1>4 DEF HandOver
  <2>4. \A k \in DOMAIN outbox' : outbox'[k] # Token => InFile(outbox'[k])
    <3>1. CASE outbox' = Append(outbox, caller[t].event)
      <4>1. outbox \in Seq(Events \cup {Token}) /\ caller[t].event \in Events
        BY <2>1, TrackerTypes
      <4>2. /\ DOMAIN outbox = 1 .. Len(outbox) /\ DOMAIN outbox' = 1 .. Len(outbox) + 1
            /\ \A k \in 1 .. Len(outbox) : outbox'[k] = outbox[k]
            /\ outbox'[Len(outbox) + 1] = caller[t].event /\ Len(outbox) \in Nat
        BY <3>1, <4>1, Appended
      <4> QED  BY <1>1, <2>1, <4>2
    <3>2. CASE UNCHANGED outbox
      BY <1>1, <3>2
    <3> QED  BY <1>4, <3>1, <3>2 DEF HandOver
  <2> QED  BY <1>1, <2>2, <2>3, <2>4 DEF FileInv, InFile, Sending, Logging
<1>5. ASSUME TakeEvent PROVE FileInv'
  <2>1. outbox \in Seq(Events \cup {Token}) /\ outbox # <<>> /\ outbox' = Tail(outbox)
    BY <1>5 DEF TakeEvent, TrackerTypeOK
  <2>2. /\ Head(outbox) = outbox[1] /\ Len(outbox) \in Nat \ {0}
        /\ DOMAIN outbox = 1 .. Len(outbox) /\ DOMAIN outbox' = 1 .. Len(outbox) - 1
        /\ \A k \in 1 .. Len(outbox) - 1 : outbox'[k] = outbox[k + 1]
    BY <2>1, Shifted
  <2>3. \A k \in DOMAIN outbox' : outbox'[k] # Token => InFile(outbox'[k])
    BY <1>1, <2>2
  <2>4. UNCHANGED <<logged, caller, received>>
    BY <1>5 DEF TakeEvent
  <2>5. Sending' => InFile(worker'.event)
    <3>1. Waiting.at # "sends" /\ Ended.at # "sends"
      BY DEF Waiting, Ended
    <3>2. Sending' => worker'.event = Head(outbox) /\ Head(outbox) # Token
      BY <1>5, <3>1 DEF TakeEvent, Sending
    <3> QED  BY <1>1, <2>2, <3>2
  <2> QED  BY <1>1, <2>3, <2>4, <2>5 DEF FileInv, InFile, Logging
<1>6. ASSUME Send PROVE FileInv'
  <2>1. /\ received \in Seq(Events) /\ worker.event \in Events /\ Sending
        /\ received' = Append(received, worker.event) /\ ~Sending'
        /\ UNCHANGED <<logged, caller, outbox>>
    BY <1>6, TrackerTypes DEF Send, Sending, Waiting
  <2>2. \A k \in DOMAIN received' : InFile(received'[k])
    <3>1. /\ DOMAIN received = 1 .. Len(received) /\ DOMAIN received' = 1 .. Len(received) + 1
          /\ \A k \in 1 .. Len(received) : received'[k] = received[k]
          /\ received'[Len(received) + 1] = worker.event /\ Len(received) \in Nat
      BY <2>1, Appended
    <3> QED  BY <1>1, <2>1, <3>1
  <2> QED  BY <1>1, <2>1, <2>2 DEF FileInv, InFile, Logging
<1>7. ASSUME RemoteFails PROVE FileInv'
  <2>1. ~Sending' /\ UNCHANGED <<logged, caller, outbox, received>>
    BY <1>7 DEF RemoteFails, Sending, Waiting
  <2> QED  BY <1>1, <2>1 DEF FileInv, InFile, Logging
<1>8. ASSUME BeginClose \/ JoinWorker \/ FinishRun PROVE FileInv'
  <2>1. UNCHANGED <<logged, caller, outbox, worker, received>>
    BY <1>8 DEF BeginClose, JoinWorker, FinishRun, queueVars
  <2> QED  BY <1>1, <2>1 DEF FileInv, InFile, Sending, Logging
<1>9. ASSUME PutToken PROVE FileInv'
  <2>1. UNCHANGED <<logged, caller, worker, received>>
    BY <1>9 DEF PutToken
  <2>2. \A k \in DOMAIN outbox' : outbox'[k] # Token => InFile(outbox'[k])
    <3>1. CASE outbox' = Append(outbox, Token)
      <4>1. outbox \in Seq(Events \cup {Token})
        BY DEF TrackerTypeOK
      <4>2. /\ DOMAIN outbox = 1 .. Len(outbox) /\ DOMAIN outbox' = 1 .. Len(outbox) + 1
            /\ \A k \in 1 .. Len(outbox) : outbox'[k] = outbox[k]
            /\ outbox'[Len(outbox) + 1] = Token /\ Len(outbox) \in Nat
        BY <3>1, <4>1, Appended
      <4> QED  BY <1>1, <4>2
    <3>2. CASE UNCHANGED outbox
      BY <1>1, <3>2
    <3> QED  BY <1>9, <3>1, <3>2 DEF PutToken
  <2> QED  BY <1>1, <2>1, <2>2 DEF FileInv, InFile, Sending, Logging
<1> QED
  BY <1>2, <1>3, <1>4, <1>5, <1>6, <1>7, <1>8, <1>9 DEF TrackerNext, CallerStep, CloserStep

\* The order of the events of one thread is kept on the whole way.
LEMMA OrderStep ==
    ASSUME TrackerTypeOK, TokenInv, FileInv, OrderInv, TrackerNext
    PROVE  OrderInv'
<1>1. /\ \A k \in DOMAIN received : \A j \in 1 .. k - 1 : Before(received[j], received[k])
      /\ Sending => AfterReceived(worker.event)
      /\ \A k \in DOMAIN outbox : outbox[k] # Token =>
           AfterSent(outbox[k]) /\ \A j \in 1 .. k - 1 : Before(outbox[j], outbox[k])
      /\ \A t \in Logger : caller[t] # Done =>
           /\ AfterSent(caller[t].event)
           /\ \A k \in DOMAIN outbox : outbox[k] # Token => Before(outbox[k], caller[t].event)
  BY DEF OrderInv
<1>2. /\ outbox \in Seq(Events \cup {Token}) /\ received \in Seq(Events)
      /\ caller \in [Logger -> {Done} \cup [at : {"local", "projected"}, event : Events]]
      /\ DOMAIN outbox = 1 .. Len(outbox) /\ Len(outbox) \in Nat
      /\ DOMAIN received = 1 .. Len(received) /\ Len(received) \in Nat
      /\ \A k \in DOMAIN outbox : outbox[k] \in Events \cup {Token}
      /\ \A k \in DOMAIN received : received[k] \in Events
      /\ \A t \in Logger : caller[t] # Done => caller[t].event \in Events
      /\ Sending => worker.event \in Events
  BY TrackerTypes DEF TrackerTypeOK
<1>3. /\ closer # "open" => \A t \in Logger : caller[t] = Done
      /\ \A k \in DOMAIN outbox : outbox[k] = Token =>
           k = Len(outbox) /\ closer \notin {"open", "put"}
  BY DEF TokenInv
<1>4. ASSUME NEW t \in Logger, LogLocally(t) PROVE OrderInv'
  <2>1. PICK event \in Events :
          /\ caller[t] = Done /\ event.thread = t /\ event.number = Logging(t) + 1
          /\ logged' = Append(logged, event)
          /\ caller' = [caller EXCEPT ![t] = [at |-> "local", event |-> event]]
    BY <1>4, LogEffect
  <2>2. Logging(t) \in Nat
    BY <2>1, FileGrows
  <2>3. \A e \in Events : InFile(e) => Before(e, event)
    <3> SUFFICES ASSUME NEW e \in Events, InFile(e), e.thread = t PROVE e.number < event.number
      BY <2>1 DEF Before
    <3>1. e.number <= Logging(t) /\ e.number \in Nat
      BY EventsAreNoTokens DEF FileInv, InFile
    <3> QED  BY <2>1, <2>2, <3>1
  <2>4. UNCHANGED <<outbox, worker, received>>
    BY <1>4 DEF LogLocally, queueVars
  <2>5. AfterReceived(event)
    BY <1>2, <2>3 DEF AfterReceived, FileInv
  <2>6. Sending => Before(worker.event, event)
    BY <1>2, <2>3 DEF FileInv
  <2>7. \A k \in DOMAIN outbox : outbox[k] # Token => Before(outbox[k], event)
    BY <1>2, <2>3 DEF FileInv
  <2>8. /\ caller'[t].event = event
        /\ \A u \in Logger : u # t => caller'[u] = caller[u]
    BY <1>2, <2>1
  <2> QED
    BY <1>1, <2>4, <2>5, <2>6, <2>7, <2>8 DEF OrderInv, AfterSent, AfterReceived, Sending
<1>5. ASSUME NEW t \in Logger, Project(t) PROVE OrderInv'
  <2>1. caller[t] # Done
    BY <1>5 DEF Project, Done
  <2>2. \A u \in Logger : caller'[u] # Done =>
          caller[u] # Done /\ caller'[u].event = caller[u].event
    BY <1>2, <1>5, <2>1 DEF Project
  <2>3. UNCHANGED <<outbox, worker, received>>
    BY <1>5 DEF Project, queueVars
  <2> QED  BY <1>1, <2>2, <2>3 DEF OrderInv, AfterSent, AfterReceived, Sending
<1>6. ASSUME NEW t \in Logger, HandOver(t) PROVE OrderInv'
  <2>1. caller[t] # Done
    BY <1>6 DEF HandOver, Done
  <2>2. /\ caller'[t] = Done
        /\ \A u \in Logger : u # t => caller'[u] = caller[u]
    BY <1>2, <1>6 DEF HandOver
  <2>3. UNCHANGED <<worker, received>>
    BY <1>6 DEF HandOver
  <2>4. CASE outbox' = Append(outbox, caller[t].event)
    <3> DEFINE event == caller[t].event
    <3>1. event \in Events /\ event # Token /\ event.thread = t
      BY <1>2, <2>1, EventsAreNoTokens DEF FileInv
    <3>2. /\ DOMAIN outbox' = 1 .. Len(outbox) + 1
          /\ \A k \in 1 .. Len(outbox) : outbox'[k] = outbox[k]
          /\ outbox'[Len(outbox) + 1] = event
      BY <1>2, <2>1, <2>4, Appended
    <3>3. AfterSent(event)
      BY <1>1, <2>1
    <3>4. \A j \in 1 .. Len(outbox) : outbox[j] # Token /\ Before(outbox[j], event)
      BY <1>1, <1>2, <1>3, <2>1
    <3> HIDE DEF event
    <3>5. ASSUME NEW k \in DOMAIN outbox', outbox'[k] # Token
          PROVE  AfterSent(outbox'[k]) /\ \A j \in 1 .. k - 1 : Before(outbox'[j], outbox'[k])
      <4>1. CASE k = Len(outbox) + 1
        <5>1. outbox'[k] = event /\ \A j \in 1 .. k - 1 : j \in 1 .. Len(outbox)
          BY <1>2, <3>2, <4>1
        <5> QED  BY <3>2, <3>3, <3>4, <5>1
      <4>2. CASE k # Len(outbox) + 1
        <5>1. k \in 1 .. Len(outbox) /\ \A j \in 1 .. k - 1 : j \in 1 .. Len(outbox)
          BY <1>2, <3>2, <4>2
        <5>2. AfterSent(outbox[k]) /\ \A j \in 1 .. k - 1 : Before(outbox[j], outbox[k])
          BY <1>1, <1>2, <3>4, <5>1
        <5> QED  BY <3>2, <5>1, <5>2
      <4> QED  BY <4>1, <4>2
    <3>6. ASSUME NEW u \in Logger, caller'[u] # Done
          PROVE  /\ AfterSent(caller'[u].event)
                 /\ \A k \in DOMAIN outbox' : outbox'[k] # Token =>
                      Before(outbox'[k], caller'[u].event)
      <4>1. u # t /\ caller'[u] = caller[u] /\ caller[u] # Done
        BY <2>2, <3>6
      <4>2. caller[u].event.thread = u
        BY <4>1 DEF FileInv
      <4>3. Before(event, caller[u].event)
        BY <3>1, <4>1, <4>2 DEF Before
      <4>4. AfterSent(caller[u].event)
            /\ \A k \in DOMAIN outbox : outbox[k] # Token => Before(outbox[k], caller[u].event)
        BY <1>1, <4>1
      <4>5. \A k \in DOMAIN outbox' : k \in DOMAIN outbox \/ outbox'[k] = event
        BY <1>2, <3>2
      <4> QED  BY <1>2, <3>2, <4>1, <4>3, <4>4, <4>5
    <3> QED  BY <1>1, <2>3, <3>5, <3>6 DEF OrderInv, AfterSent, AfterReceived, Sending
  <2>5. CASE UNCHANGED outbox
    BY <1>1, <2>2, <2>3, <2>5 DEF OrderInv, AfterSent, AfterReceived, Sending
  <2> QED  BY <1>6, <2>4, <2>5 DEF HandOver
<1>7. ASSUME TakeEvent PROVE OrderInv'
  <2>1. outbox # <<>> /\ outbox' = Tail(outbox) /\ UNCHANGED <<caller, received>>
    BY <1>7 DEF TakeEvent
  <2>2. /\ Head(outbox) = outbox[1] /\ Len(outbox) > 0
        /\ DOMAIN outbox' = 1 .. Len(outbox) - 1
        /\ \A k \in 1 .. Len(outbox) - 1 : outbox'[k] = outbox[k + 1]
    BY <1>2, <2>1, Shifted
  <2>3. Sending' => worker'.event = outbox[1] /\ outbox[1] # Token
    BY <1>7, <2>2 DEF TakeEvent, Sending, Waiting, Ended
  <2>4. 1 \in DOMAIN outbox
    BY <1>2, <2>2
  <2>5. Sending' => AfterReceived(worker'.event)
    BY <1>1, <2>3, <2>4 DEF AfterSent
  <2>6. ASSUME NEW k \in DOMAIN outbox', outbox'[k] # Token
        PROVE  /\ AfterReceived(outbox'[k]) /\ (Sending' => Before(worker'.event, outbox'[k]))
               /\ \A j \in 1 .. k - 1 : Before(outbox'[j], outbox'[k])
    <3>1. k + 1 \in DOMAIN outbox /\ outbox'[k] = outbox[k + 1] /\ k \in Nat
          /\ k \in 1 .. Len(outbox) - 1
      BY <1>2, <2>2
    <3>2. AfterReceived(outbox[k + 1])
          /\ \A j \in 1 .. k : Before(outbox[j], outbox[k + 1])
      BY <1>1, <2>6, <3>1 DEF AfterSent
    <3>3. 1 \in 1 .. k
      BY <3>1
    <3>4. \A j \in 1 .. k - 1 : j + 1 \in 1 .. k /\ outbox'[j] = outbox[j + 1]
      BY <1>2, <2>2, <3>1
    <3>5. \A j \in 1 .. k - 1 : Before(outbox'[j], outbox'[k])
      BY <3>1, <3>2, <3>4
    <3> QED  BY <2>3, <3>1, <3>2, <3>3, <3>5
  <2>7. ASSUME NEW u \in Logger, caller[u] # Done
        PROVE  /\ AfterReceived(caller[u].event)
               /\ (Sending' => Before(worker'.event, caller[u].event))
               /\ \A k \in DOMAIN outbox' : outbox'[k] # Token =>
                    Before(outbox'[k], caller[u].event)
    <3>1. AfterReceived(caller[u].event)
          /\ \A k \in DOMAIN outbox : outbox[k] # Token => Before(outbox[k], caller[u].event)
      BY <1>1, <2>7 DEF AfterSent
    <3>2. \A k \in DOMAIN outbox' : k + 1 \in DOMAIN outbox /\ outbox'[k] = outbox[k + 1]
      BY <1>2, <2>2
    <3> QED  BY <2>3, <2>4, <3>1, <3>2
  <2> QED  BY <1>1, <2>1, <2>5, <2>6, <2>7 DEF OrderInv, AfterSent, AfterReceived
<1>8. ASSUME Send PROVE OrderInv'
  <2>1. /\ worker.event \in Events /\ Sending /\ ~Sending'
        /\ received' = Append(received, worker.event) /\ UNCHANGED <<caller, outbox>>
    BY <1>2, <1>8 DEF Send, Sending, Waiting
  <2>2. /\ DOMAIN received' = 1 .. Len(received) + 1
        /\ \A k \in 1 .. Len(received) : received'[k] = received[k]
        /\ received'[Len(received) + 1] = worker.event
    BY <1>2, <2>1, Appended
  <2>3. \A e : AfterSent(e) => AfterReceived(e)'
    <3> SUFFICES ASSUME NEW e, AfterSent(e), NEW k \in DOMAIN received'
                 PROVE  Before(received'[k], e)
      BY DEF AfterReceived
    <3>1. (k \in DOMAIN received /\ received'[k] = received[k]) \/ received'[k] = worker.event
      BY <1>2, <2>2
    <3> QED  BY <2>1, <3>1 DEF AfterSent, AfterReceived
  <2>4. ASSUME NEW k \in DOMAIN received', NEW j \in 1 .. k - 1
        PROVE  Before(received'[j], received'[k])
    <3>1. j \in DOMAIN received /\ received'[j] = received[j]
      BY <1>2, <2>2
    <3>2. CASE k \in DOMAIN received
      BY <1>1, <1>2, <2>2, <3>1, <3>2
    <3>3. CASE k = Len(received) + 1
      BY <1>1, <2>1, <2>2, <3>1, <3>3 DEF AfterReceived
    <3> QED  BY <1>2, <2>2, <3>2, <3>3
  <2>5. \A k \in DOMAIN outbox' : outbox'[k] # Token =>
          AfterReceived(outbox[k])' /\ \A j \in 1 .. k - 1 : Before(outbox'[j], outbox'[k])
    BY <1>1, <2>1, <2>3 DEF AfterReceived
  <2>6. \A u \in Logger : caller'[u] # Done =>
          /\ AfterReceived(caller[u].event)'
          /\ \A k \in DOMAIN outbox' : outbox'[k] # Token => Before(outbox'[k], caller'[u].event)
    BY <1>1, <2>1, <2>3 DEF AfterReceived
  <2> QED  BY <2>1, <2>4, <2>5, <2>6 DEF OrderInv, AfterSent
<1>9. ASSUME RemoteFails PROVE OrderInv'
  <2>1. ~Sending' /\ UNCHANGED <<caller, outbox, received>>
    BY <1>9 DEF RemoteFails, Sending, Waiting
  <2> QED  BY <1>1, <2>1 DEF OrderInv, AfterSent, AfterReceived
<1>10. ASSUME BeginClose \/ JoinWorker \/ FinishRun PROVE OrderInv'
  <2>1. UNCHANGED <<caller, outbox, worker, received>>
    BY <1>10 DEF BeginClose, JoinWorker, FinishRun, queueVars
  <2> QED  BY <1>1, <2>1 DEF OrderInv, AfterSent, AfterReceived, Sending
<1>11. ASSUME PutToken PROVE OrderInv'
  <2>1. UNCHANGED <<caller, worker, received>> /\ \A t \in Logger : caller[t] = Done
    BY <1>3, <1>11 DEF PutToken
  <2>2. CASE outbox' = Append(outbox, Token)
    <3>1. /\ DOMAIN outbox' = 1 .. Len(outbox) + 1
          /\ \A k \in 1 .. Len(outbox) : outbox'[k] = outbox[k]
          /\ outbox'[Len(outbox) + 1] = Token
      BY <1>2, <2>2, Appended
    <3>2. ASSUME NEW k \in DOMAIN outbox', outbox'[k] # Token
          PROVE  AfterSent(outbox'[k]) /\ \A j \in 1 .. k - 1 : Before(outbox'[j], outbox'[k])
      <4>1. k \in DOMAIN outbox /\ outbox'[k] = outbox[k]
            /\ \A j \in 1 .. k - 1 : outbox'[j] = outbox[j]
        BY <1>2, <3>1, <3>2
      <4> QED  BY <1>1, <3>2, <4>1
    <3> QED  BY <1>1, <2>1, <3>2 DEF OrderInv, AfterSent, AfterReceived, Sending
  <2>3. CASE UNCHANGED outbox
    BY <1>1, <2>1, <2>3 DEF OrderInv, AfterSent, AfterReceived, Sending
  <2> QED  BY <1>11, <2>2, <2>3 DEF PutToken
<1> QED
  BY <1>4, <1>5, <1>6, <1>7, <1>8, <1>9, <1>10, <1>11 DEF TrackerNext, CallerStep, CloserStep

\* The sum stays when one event goes from a thread to the queue, or is dropped.
LEMMA OneHandedOver ==
    ASSUME NEW h \in Int, NEW q \in Int, NEW s \in Int, NEW r \in Int, NEW d \in Int,
           NEW h2 \in Int, NEW q2 \in Int, NEW d2 \in Int, h2 = h - 1, q2 + d2 = q + d + 1
    PROVE  h + q + s + r + d = h2 + q2 + s + r + d2
  OBVIOUS

\* While the remote works, what is to be sent is on its way, received or counted as dropped.
LEMMA CountStep ==
    ASSUME TrackerTypeOK, TrackerTypeOK', TokenInv, CountInv, TrackerNext
    PROVE  CountInv'
<1> DEFINE Moving == IF Sending THEN 1 ELSE 0
           Sum == Cardinality(HandedOver) + Queued + Moving + Len(received) + droppedEvents
<1>1. /\ closer = "join" => TokenQueued \/ worker = Ended
      /\ \A t \in Logger : caller[t].at = "projected" => caller[t].event.kind # "silent"
      /\ enabled /\ ~TokenDropped => Cardinality(Loud) = Sum
  BY DEF CountInv
<1>2. /\ outbox \in Seq(Events \cup {Token}) /\ received \in Seq(Events)
      /\ logged \in Seq(Events)
      /\ caller \in [Logger -> {Done} \cup [at : {"local", "projected"}, event : Events]]
      /\ DOMAIN outbox = 1 .. Len(outbox) /\ Len(outbox) \in Nat /\ Len(received) \in Nat
      /\ \A k \in DOMAIN outbox : outbox[k] \in Events \cup {Token}
      /\ \A t \in Logger : caller[t] # Done => caller[t].event \in Events
      /\ Sending => worker.event \in Events
      /\ Sending <=> worker # Waiting /\ worker # Ended
      /\ droppedEvents \in Nat /\ droppedEvents' \in Nat /\ Len(received') \in Nat
      /\ Len(outbox') \in Nat
  BY TrackerTypes DEF TrackerTypeOK
<1>3. /\ closer # "open" => \A t \in Logger : caller[t] = Done
      /\ \A k \in DOMAIN outbox : outbox[k] = Token =>
           k = Len(outbox) /\ closer \notin {"open", "put"}
      /\ worker = Ended => outbox = <<>> /\ closer \notin {"open", "put"}
  BY DEF TokenInv
<1>4. closer \in {"open", "put"} => ~TokenQueued /\ ~TokenDropped /\ Queued = Len(outbox)
  <2>1. Len(outbox) > 0 => Len(outbox) \in DOMAIN outbox
    BY <1>2
  <2>2. closer \in {"open", "put"} => ~TokenQueued
    BY <1>2, <1>3, <2>1 DEF TokenQueued
  <2> QED  BY <2>2 DEF TokenDropped, Queued
<1>5. Waiting # Ended /\ Waiting.at # "sends" /\ Ended.at # "sends"
  <2>1. Waiting.at = "waits" /\ Ended.at = "ended"
    BY DEF Waiting, Ended
  <2> QED  BY <2>1
<1>6. Queued \in Int /\ Queued' \in Int /\ Moving \in Nat /\ Moving' \in Nat
  BY <1>2 DEF Queued
<1>7. Cardinality(HandedOver) \in Nat /\ Cardinality(HandedOver') \in Nat
  BY HandCount
<1>8. Cardinality(Loud) \in Nat
  <2>1. logged' = logged => Cardinality(Loud') = Cardinality(Loud)
    BY DEF Loud
  <2> DEFINE V == {e \in Events : e.kind # "silent"}
  <2>2. Places(logged, V) = Loud
    BY <1>2 DEF Places, Loud
  <2>3. DOMAIN logged = 1 .. Len(logged) /\ Len(logged) \in Nat
    BY <1>2
  <2>4. IsFiniteSet(1 .. Len(logged))
    BY <2>3, FS_Interval
  <2>5. Loud \subseteq 1 .. Len(logged)
    BY <2>3 DEF Loud
  <2>6. IsFiniteSet(Loud)
    BY <2>4, <2>5, FS_Subset
  <2> QED  BY <2>6, FS_CardinalityType
<1> HIDE DEF Moving
<1>0. /\ Cardinality(Loud) \in Nat /\ Cardinality(HandedOver) \in Nat /\ Queued \in Int
      /\ Moving \in Nat /\ Len(received) \in Nat /\ droppedEvents \in Nat
      /\ Cardinality(HandedOver') \in Nat /\ Queued' \in Int
      /\ Moving' \in Nat /\ Len(received') \in Nat /\ droppedEvents' \in Nat
  BY <1>2, <1>6, <1>7, <1>8
<1> USE DEF Moving
<1> DEFINE Kept == /\ Cardinality(Loud') = Cardinality(Loud)
                   /\ Cardinality(HandedOver') = Cardinality(HandedOver)
<1>9. UNCHANGED <<logged, caller>> => Kept
  <2>1. UNCHANGED <<logged, caller>> => Loud' = Loud /\ HandedOver' = HandedOver
    BY DEF Loud, HandedOver
  <2> QED  BY <2>1
<1>10. ASSUME NEW t \in Logger, LogLocally(t) PROVE CountInv'
  <2>1. PICK event \in Events :
          /\ caller[t] = Done /\ closer = "open" /\ logged' = Append(logged, event)
          /\ caller' = [caller EXCEPT ![t] = [at |-> "local", event |-> event]]
    BY <1>10, LogEffect
  <2>2. Cardinality(Loud') = Cardinality(Loud) + (IF event.kind # "silent" THEN 1 ELSE 0)
    BY <2>1, FileGrows
  <2>3. /\ caller'[t] = [at |-> "local", event |-> event]
        /\ \A u \in Logger : u # t => caller'[u] = caller[u]
    BY <1>2, <2>1
  <2>4. [at |-> "local", event |-> event] # Done
    BY DEF Done
  <2>5. t \notin HandedOver
        /\ HandedOver' = IF event.kind # "silent" THEN HandedOver \cup {t} ELSE HandedOver
    BY <2>1, <2>3, <2>4 DEF HandedOver
  <2>6. Cardinality(HandedOver')
          = Cardinality(HandedOver) + (IF event.kind # "silent" THEN 1 ELSE 0)
    BY <1>7, <2>5, HandCount
  <2>7. UNCHANGED <<outbox, worker, received, enabled, droppedEvents, closer>>
    BY <1>10 DEF LogLocally, queueVars, closeVars
  <2>8. Queued' = Queued /\ Moving' = Moving /\ TokenQueued' = TokenQueued
    BY <2>7 DEF Queued, TokenQueued, Sending
  <2>9. enabled' => Cardinality(Loud') = Sum'
    <3> SUFFICES ASSUME enabled' PROVE Cardinality(Loud') = Sum'
      OBVIOUS
    <3>1. Cardinality(Loud) = Sum
      BY <1>1, <1>4, <2>1, <2>7
    <3>2. droppedEvents' = droppedEvents /\ received' = received
          /\ Queued' = Queued /\ Moving' = Moving
      BY <2>7, <2>8
    <3> HIDE DEF Moving
    <3> QED  BY <1>0, <2>2, <2>6, <3>1, <3>2
  <2>10. \A u \in Logger : caller'[u].at = "projected" => caller'[u].event.kind # "silent"
    BY <1>1, <2>3
  <2> QED  BY <2>1, <2>7, <2>9, <2>10 DEF CountInv
<1>11. ASSUME NEW t \in Logger, Project(t) PROVE CountInv'
  <2>1. caller[t].at = "local" /\ caller[t] # Done /\ closer = "open"
    BY <1>3, <1>11 DEF Project, Done
  <2>2. /\ \A u \in Logger : u # t => caller'[u] = caller[u]
        /\ caller'[t] = IF caller[t].event.kind = "silent" \/ ~enabled THEN Done
                        ELSE [at |-> "projected", event |-> caller[t].event]
    BY <1>2, <1>11 DEF Project
  <2>3. UNCHANGED <<logged, outbox, worker, received, enabled, droppedEvents, closer>>
    BY <1>11 DEF Project, queueVars, closeVars
  <2>4. \A u \in Logger : caller'[u].at = "projected" => caller'[u].event.kind # "silent"
    BY <1>1, <2>2 DEF Done
  <2>5. enabled' => Cardinality(Loud') = Sum'
    <3> SUFFICES ASSUME enabled' PROVE Cardinality(Loud') = Sum'
      OBVIOUS
    <3>1. [at |-> "projected", event |-> caller[t].event] # Done
      BY DEF Done
    <3>2. HandedOver' = HandedOver
      BY <2>1, <2>2, <2>3, <3>1 DEF HandedOver
    <3>3. Loud' = Loud /\ Queued' = Queued /\ Moving' = Moving
      BY <2>3 DEF Loud, Queued, TokenQueued, Sending
    <3>4. Cardinality(Loud) = Sum
      BY <1>1, <1>4, <2>1, <2>3
    <3> QED  BY <2>3, <3>2, <3>3, <3>4
  <2> QED  BY <2>1, <2>3, <2>4, <2>5 DEF CountInv
<1>12. ASSUME NEW t \in Logger, HandOver(t) PROVE CountInv'
  <2>1. caller[t].at = "projected" /\ caller[t] # Done /\ closer = "open"
        /\ caller[t].event.kind # "silent"
    BY <1>1, <1>3, <1>12 DEF HandOver, Done
  <2>2. /\ caller'[t] = Done
        /\ \A u \in Logger : u # t => caller'[u] = caller[u]
    BY <1>2, <1>12 DEF HandOver
  <2>3. UNCHANGED <<logged, worker, received, enabled, closer>>
    BY <1>12 DEF HandOver, closeVars
  <2>4. t \in HandedOver /\ HandedOver' = HandedOver \ {t}
    BY <2>1, <2>2 DEF HandedOver
  <2>5. Cardinality(HandedOver') = Cardinality(HandedOver) - 1
    BY <2>4, HandCount
  <2>6. \A u \in Logger : caller'[u].at = "projected" => caller'[u].event.kind # "silent"
    BY <1>1, <2>2 DEF Done
  <2>7. Queued' + droppedEvents' = Queued + droppedEvents + 1
    <3>1. Queued = Len(outbox)
      BY <1>4, <2>1
    <3>2. CASE outbox' = Append(outbox, caller[t].event) /\ UNCHANGED droppedEvents
      <4>1. Len(outbox') = Len(outbox) + 1 /\ outbox'[Len(outbox) + 1] = caller[t].event
            /\ caller[t].event # Token
        BY <1>2, <2>1, <3>2, Appended, EventsAreNoTokens
      <4>2. Queued' = Len(outbox) + 1
        BY <4>1 DEF Queued, TokenQueued
      <4> QED  BY <1>2, <3>1, <3>2, <4>2
    <3>3. CASE droppedEvents' = droppedEvents + 1 /\ UNCHANGED outbox
      <4>1. Queued' = Queued
        BY <3>3 DEF Queued, TokenQueued
      <4> QED  BY <1>2, <1>6, <3>3, <4>1
    <3> QED  BY <1>12, <3>2, <3>3 DEF HandOver
  <2>8. enabled' => Cardinality(Loud') = Sum'
    <3> SUFFICES ASSUME enabled' PROVE Cardinality(Loud') = Sum'
      OBVIOUS
    <3>1. Loud' = Loud /\ Moving' = Moving
      BY <2>3 DEF Loud, Sending
    <3>2. Cardinality(Loud) = Sum
      BY <1>1, <1>4, <2>1, <2>3
    <3>3. received' = received /\ Cardinality(Loud') = Cardinality(Loud)
      BY <2>3, <3>1
    <3>4. Moving' = Moving
      BY <3>1
    <3>5. Sum = Cardinality(HandedOver') + Queued' + Moving + Len(received) + droppedEvents'
      <4> HIDE DEF Moving
      <4> DEFINE h == Cardinality(HandedOver)
                 h2 == Cardinality(HandedOver')
                 q == Queued
                 q2 == Queued'
                 m == Moving
                 r == Len(received)
                 d == droppedEvents
                 d2 == droppedEvents'
      <4>1. h \in Int /\ h2 \in Int /\ q \in Int /\ q2 \in Int /\ m \in Int /\ r \in Int
            /\ d \in Int /\ d2 \in Int
        BY <1>0
      <4>2. h2 = h - 1 /\ q2 + d2 = q + d + 1
        BY <2>5, <2>7
      <4> HIDE DEF h, h2, q, q2, m, r, d, d2
      <4>3. h + q + m + r + d = h2 + q2 + m + r + d2
        BY <4>1, <4>2, OneHandedOver
      <4> QED  BY <4>3 DEF h, h2, q, q2, m, r, d, d2
    <3> HIDE DEF Moving
    <3> QED  BY <3>2, <3>3, <3>4, <3>5
  <2> QED  BY <2>1, <2>3, <2>6, <2>8 DEF CountInv
<1>13. ASSUME TakeEvent PROVE CountInv'
  <2>1. /\ worker = Waiting /\ outbox # <<>> /\ outbox' = Tail(outbox)
        /\ UNCHANGED <<logged, caller, received, enabled, droppedEvents, closer>>
    BY <1>13 DEF TakeEvent, closeVars
  <2>2. /\ Head(outbox) = outbox[1] /\ Len(outbox) > 0 /\ Len(outbox') = Len(outbox) - 1
        /\ DOMAIN outbox' = 1 .. Len(outbox) - 1 /\ outbox' \in Seq(Events \cup {Token})
        /\ \A k \in 1 .. Len(outbox) - 1 : outbox'[k] = outbox[k + 1]
    BY <1>2, <2>1, Shifted
  <2>3. ~Sending /\ worker # Ended /\ Kept
    BY <1>2, <1>5, <1>9, <2>1
  <2>4. CASE outbox[1] = Token
    <3>1. Len(outbox) = 1 /\ TokenQueued /\ worker' = Ended
      BY <1>2, <1>3, <1>13, <2>2, <2>4 DEF TakeEvent, TokenQueued
    <3>2. outbox' = <<>>
      BY <2>2, <3>1
    <3>3. Queued = 0 /\ Queued' = 0 /\ ~TokenDropped /\ ~Sending'
      BY <1>2, <1>5, <2>2, <3>1, <3>2 DEF Queued, TokenQueued, TokenDropped, Sending
    <3>4. enabled' => Cardinality(Loud') = Sum'
      BY <1>1, <2>1, <2>3, <3>3
    <3> QED  BY <1>1, <2>1, <3>1, <3>4 DEF CountInv
  <2>5. CASE outbox[1] # Token
    <3>1. /\ enabled => worker' = [at |-> "sends", event |-> outbox[1]]
          /\ ~enabled => worker' = Waiting
      BY <1>13, <2>2, <2>5 DEF TakeEvent
    <3>2. worker' # Ended /\ (enabled => Sending')
      <4>1. [at |-> "sends", event |-> outbox[1]].at = "sends"
        OBVIOUS
      <4> QED  BY <1>5, <3>1, <4>1 DEF Sending
    <3>3. TokenQueued' <=> TokenQueued
      <4>1. CASE Len(outbox) = 1
        BY <1>2, <2>2, <2>5, <4>1 DEF TokenQueued
      <4>2. CASE Len(outbox) # 1
        <5>1. Len(outbox) - 1 \in 1 .. Len(outbox) - 1 /\ Len(outbox') > 0
          BY <1>2, <2>2, <4>2
        <5>2. outbox'[Len(outbox')] = outbox[Len(outbox)] /\ outbox' # <<>>
          BY <1>2, <2>2, <5>1
        <5> QED  BY <2>1, <5>2 DEF TokenQueued
      <4> QED  BY <4>1, <4>2
    <3>4. Queued' = Queued - 1
      BY <1>2, <2>2, <3>3 DEF Queued
    <3>5. TokenDropped' => TokenDropped
      BY <2>1, <2>3, <3>3 DEF TokenDropped
    <3>6. enabled' /\ ~TokenDropped' => Cardinality(Loud') = Sum'
      <4> SUFFICES ASSUME enabled, ~TokenDropped' PROVE Cardinality(Loud') = Sum'
        BY <2>1
      <4>1. TokenDropped <=> TokenDropped'
        BY <2>1, <2>3, <3>2, <3>3 DEF TokenDropped
      <4>2. Cardinality(Loud) = Sum
        BY <1>1, <4>1
      <4>3. Moving = 0 /\ Moving' = 1
        BY <2>3, <3>2
      <4> HIDE DEF Moving
      <4> QED  BY <1>0, <2>1, <2>3, <3>4, <4>2, <4>3
    <3> QED  BY <1>1, <2>1, <2>3, <3>3, <3>6 DEF CountInv
  <2> QED  BY <2>4, <2>5
<1>14. ASSUME Send PROVE CountInv'
  <2>1. /\ Sending /\ worker' = Waiting /\ received' = Append(received, worker.event)
        /\ UNCHANGED <<logged, caller, outbox, enabled, droppedEvents, closer>>
    BY <1>14 DEF Send, closeVars
  <2>2. Len(received') = Len(received) + 1
    BY <1>2, <2>1, Appended
  <2>3. Moving = 1 /\ Moving' = 0 /\ worker # Ended /\ worker' # Ended /\ Kept
    BY <1>2, <1>5, <1>9, <2>1 DEF Sending
  <2>4. (TokenQueued' <=> TokenQueued) /\ Queued' = Queued
    BY <2>1 DEF Queued, TokenQueued
  <2>5. TokenDropped' <=> TokenDropped
    BY <2>1, <2>3, <2>4 DEF TokenDropped
  <2>6. enabled' /\ ~TokenDropped' => Cardinality(Loud') = Sum'
    <3> SUFFICES ASSUME enabled', ~TokenDropped' PROVE Cardinality(Loud') = Sum'
      OBVIOUS
    <3>1. Cardinality(Loud) = Sum
      BY <1>1, <2>1, <2>5
    <3>2. droppedEvents' = droppedEvents
      BY <2>1
    <3> HIDE DEF Moving
    <3> QED  BY <1>0, <2>2, <2>3, <2>4, <3>1, <3>2
  <2> QED  BY <1>1, <2>1, <2>3, <2>4, <2>6 DEF CountInv
<1>15. ASSUME RemoteFails PROVE CountInv'
  <2>1. /\ ~enabled' /\ Sending /\ UNCHANGED <<caller, outbox, closer>>
    BY <1>15 DEF RemoteFails, closeVars
  <2>2. (TokenQueued' <=> TokenQueued) /\ worker # Ended
    BY <1>2, <2>1 DEF TokenQueued
  <2> QED  BY <1>1, <2>1, <2>2 DEF CountInv
<1>16. ASSUME BeginClose \/ JoinWorker \/ FinishRun PROVE CountInv'
  <2>1. UNCHANGED <<logged, caller, outbox, worker, received, enabled, droppedEvents>>
    BY <1>16 DEF BeginClose, JoinWorker, FinishRun, queueVars
  <2>2. closer' # "join" /\ (TokenDropped' => TokenDropped \/ closer \in {"open", "join"})
    BY <1>16, <2>1 DEF BeginClose, JoinWorker, FinishRun, TokenDropped, TokenQueued
  <2>3. ~TokenDropped' => ~TokenDropped
    BY <1>16, <2>1 DEF BeginClose, JoinWorker, FinishRun, TokenDropped, TokenQueued
  <2>4. Kept /\ Queued' = Queued /\ Moving' = Moving
    BY <1>9, <2>1 DEF Queued, TokenQueued, Sending
  <2>5. enabled' /\ ~TokenDropped' => Cardinality(Loud') = Sum'
    BY <1>1, <2>1, <2>3, <2>4
  <2> QED  BY <1>1, <2>1, <2>2, <2>5 DEF CountInv
<1>17. ASSUME PutToken PROVE CountInv'
  <2>1. /\ closer = "put" /\ UNCHANGED <<logged, caller, worker, received, enabled>>
        /\ worker # Ended /\ ~TokenQueued /\ Queued = Len(outbox) /\ ~TokenDropped
    BY <1>3, <1>4, <1>17 DEF PutToken
  <2>2. CASE outbox' = Append(outbox, Token) /\ closer' = "join" /\ UNCHANGED droppedEvents
    <3>1. Len(outbox') = Len(outbox) + 1 /\ outbox'[Len(outbox) + 1] = Token
      BY <1>2, <2>2, Appended
    <3>2. outbox' # <<>>
      BY <1>2, <3>1
    <3>3. TokenQueued'
      BY <3>1, <3>2 DEF TokenQueued
    <3>6. Queued' = Queued
      BY <1>2, <2>1, <3>1, <3>3 DEF Queued
    <3>4. Kept /\ Moving' = Moving
      BY <1>9, <2>1 DEF Sending
    <3>5. enabled' => Cardinality(Loud') = Sum'
      BY <1>1, <2>1, <2>2, <3>4, <3>6
    <3> QED  BY <1>1, <2>1, <3>3, <3>5 DEF CountInv
  <2>3. CASE closer' = "finish" /\ UNCHANGED outbox
    <3>1. TokenDropped'
      BY <2>1, <2>3 DEF TokenDropped, TokenQueued
    <3> QED  BY <1>1, <2>1, <2>3, <3>1 DEF CountInv
  <2> QED  BY <1>17, <2>2, <2>3 DEF PutToken
<1> QED
  BY <1>10, <1>11, <1>12, <1>13, <1>14, <1>15, <1>16, <1>17
  DEF TrackerNext, CallerStep, CloserStep

\* Failures stay remembered.
LEMMA FailureStep ==
    ASSUME TrackerTypeOK, TokenInv, FailureInv, TrackerNext
    PROVE  FailureInv'
<1>1. /\ ~enabled => failed
      /\ \A i \in DOMAIN logged : logged[i].kind = "failure" =>
           failed \/ \E t \in Logger : caller[t].at = "local" /\ caller[t].event = logged[i]
      /\ exitCode # Unfinished => closer = "closed"
      /\ exitCode = 0 => ~failed /\ worker = Ended
      /\ closer # "open" => \A t \in Logger : caller[t] = Done
  BY DEF FailureInv, TokenInv
<1>2. /\ caller \in [Logger -> {Done} \cup [at : {"local", "projected"}, event : Events]]
      /\ enabled \in BOOLEAN /\ failed \in BOOLEAN
  BY DEF TrackerTypeOK
<1>3. Done.at = "idle" /\ Waiting # Ended /\ Ended.at # "sends" /\ Unfinished # 0
  <2>1. Waiting.at = "waits" /\ Ended.at = "ended"
    BY DEF Waiting, Ended
  <2> QED  BY <2>1 DEF Done, Unfinished
<1>4. ASSUME NEW t \in Logger, LogLocally(t) PROVE FailureInv'
  <2>1. PICK event \in Events :
          /\ caller[t] = Done /\ closer = "open" /\ logged' = Append(logged, event)
          /\ caller' = [caller EXCEPT ![t] = [at |-> "local", event |-> event]]
    BY <1>4, LogEffect
  <2>2. /\ caller'[t] = [at |-> "local", event |-> event]
        /\ \A u \in Logger : u # t => caller'[u] = caller[u]
    BY <1>2, <2>1
  <2>3. /\ DOMAIN logged' = 1 .. Len(logged) + 1 /\ DOMAIN logged = 1 .. Len(logged)
        /\ \A i \in 1 .. Len(logged) : logged'[i] = logged[i]
        /\ logged'[Len(logged) + 1] = event /\ Len(logged) \in Nat
    BY <2>1, FileGrows
  <2>4. UNCHANGED <<worker, enabled, failed, closer, exitCode>>
    BY <1>4 DEF LogLocally, queueVars, closeVars
  <2>5. ASSUME NEW i \in DOMAIN logged', logged'[i].kind = "failure", ~failed
        PROVE  \E u \in Logger : caller'[u].at = "local" /\ caller'[u].event = logged'[i]
    <3>1. CASE i = Len(logged) + 1
      BY <2>2, <2>3, <3>1
    <3>2. CASE i # Len(logged) + 1
      <4>1. i \in DOMAIN logged /\ logged'[i] = logged[i]
        BY <2>3, <3>2
      <4>2. PICK u \in Logger : caller[u].at = "local" /\ caller[u].event = logged[i]
        BY <1>1, <2>5, <4>1
      <4>3. u # t
        BY <1>3, <2>1, <4>2
      <4> QED  BY <2>2, <4>1, <4>2, <4>3
    <3> QED  BY <3>1, <3>2
  <2> QED  BY <1>1, <2>4, <2>5 DEF FailureInv
<1>5. ASSUME NEW t \in Logger, Project(t) PROVE FailureInv'
  <2>1. /\ caller[t].at = "local" /\ caller[t] # Done /\ closer = "open"
        /\ failed' = (failed \/ caller[t].event.kind = "failure")
        /\ UNCHANGED <<logged, worker, enabled, closer, exitCode>>
    BY <1>1, <1>3, <1>5 DEF Project, queueVars, closeVars
  <2>2. \A u \in Logger : u # t => caller'[u] = caller[u]
    BY <1>2, <1>5 DEF Project
  <2>3. exitCode = Unfinished
    BY <1>1, <2>1
  <2>4. ASSUME NEW i \in DOMAIN logged', logged'[i].kind = "failure", ~failed'
        PROVE  \E u \in Logger : caller'[u].at = "local" /\ caller'[u].event = logged'[i]
    <3>1. ~failed /\ caller[t].event.kind # "failure" /\ logged' = logged
      BY <1>2, <2>1, <2>4
    <3>2. PICK u \in Logger : caller[u].at = "local" /\ caller[u].event = logged[i]
      BY <1>1, <2>4, <3>1
    <3>3. u # t
      BY <2>4, <3>1, <3>2
    <3> QED  BY <2>2, <3>1, <3>2, <3>3
  <2> QED  BY <1>1, <1>3, <2>1, <2>3, <2>4 DEF FailureInv
<1>6. ASSUME NEW t \in Logger, HandOver(t) PROVE FailureInv'
  <2>1. /\ caller[t].at = "projected" /\ UNCHANGED <<logged, worker, enabled, failed>>
        /\ UNCHANGED <<closer, exitCode>>
    BY <1>6 DEF HandOver, closeVars
  <2>2. \A u \in Logger : u # t => caller'[u] = caller[u]
    BY <1>2, <1>6 DEF HandOver
  <2>3. \A u \in Logger : caller[u].at = "local" => caller'[u] = caller[u]
    BY <2>1, <2>2
  <2> QED  BY <1>1, <2>1, <2>3 DEF FailureInv
<1>7. ASSUME TakeEvent PROVE FailureInv'
  <2>1. worker = Waiting /\ UNCHANGED <<logged, caller, enabled, failed, closer, exitCode>>
    BY <1>7 DEF TakeEvent, closeVars
  <2> QED  BY <1>1, <1>3, <2>1 DEF FailureInv
<1>8. ASSUME Send PROVE FailureInv'
  <2>1. worker # Ended /\ UNCHANGED <<logged, caller, enabled, failed, closer, exitCode>>
    BY <1>3, <1>8 DEF Send, Sending, closeVars
  <2> QED  BY <1>1, <2>1 DEF FailureInv
<1>9. ASSUME RemoteFails PROVE FailureInv'
  <2>1. /\ worker # Ended /\ failed' = TRUE
        /\ UNCHANGED <<logged, caller, closer, exitCode>>
    BY <1>3, <1>9 DEF RemoteFails, Sending, closeVars
  <2> QED  BY <1>1, <2>1 DEF FailureInv
<1>10. ASSUME BeginClose \/ JoinWorker \/ PutToken PROVE FailureInv'
  <2>1. UNCHANGED <<logged, caller, worker, enabled, failed, exitCode>> /\ closer # "closed"
    BY <1>10 DEF BeginClose, JoinWorker, PutToken, queueVars
  <2> QED  BY <1>1, <1>3, <2>1 DEF FailureInv
<1>11. ASSUME FinishRun PROVE FailureInv'
  <2>1. /\ closer = "finish" /\ closer' = "closed" /\ failed' = (failed \/ worker # Ended)
        /\ exitCode' = IF failed' THEN 1 ELSE 0
        /\ UNCHANGED <<logged, caller, worker, enabled>>
    BY <1>11 DEF FinishRun, queueVars, WorkerMissed
  <2>2. \A t \in Logger : caller[t].at # "local"
    BY <1>1, <1>3, <2>1
  <2>3. exitCode' = 0 => ~failed' /\ worker' = Ended
    <3>1. CASE failed'
      BY <2>1, <3>1
    <3>2. CASE ~failed'
      BY <2>1, <3>2
    <3> QED  BY <3>1, <3>2
  <2> QED  BY <1>1, <1>2, <2>1, <2>2, <2>3 DEF FailureInv
<1> QED
  BY <1>4, <1>5, <1>6, <1>7, <1>8, <1>9, <1>10, <1>11 DEF TrackerNext, CallerStep, CloserStep

LEMMA TrackerInit0 == TrackerInit => TrackerInv
<1> SUFFICES ASSUME TrackerInit PROVE TrackerInv
  OBVIOUS
<1>1. /\ logged = <<>> /\ outbox = <<>> /\ received = <<>>
      /\ caller = [t \in Logger |-> Done] /\ worker = Waiting
      /\ enabled = TRUE /\ failed = FALSE /\ droppedEvents = 0
      /\ closer = "open" /\ exitCode = Unfinished
  BY DEF TrackerInit
<1>2. TrackerTypeOK
  <2>1. /\ logged \in Seq(Events) /\ received \in Seq(Events)
        /\ outbox \in Seq(Events \cup {Token}) /\ Len(logged) = 0 /\ Len(outbox) = 0
    BY <1>1
  <2>2. QueueSize \in Nat /\ MaxLogged \in Nat
    BY TrackerAssumption
  <2>3. caller \in [Logger -> {Done} \cup [at : {"local", "projected"}, event : Events]]
    BY <1>1
  <2>4. exitCode \in 0 .. 2 /\ droppedEvents \in Nat
    BY <1>1 DEF Unfinished
  <2>5. Len(logged) <= MaxLogged /\ Len(outbox) <= QueueSize
    BY <2>1, <2>2
  <2>6. {enabled, failed} \subseteq BOOLEAN
    BY <1>1
  <2>7. worker = Waiting /\ closer = "open"
    BY <1>1
  <2> QED  BY <2>1, <2>3, <2>4, <2>5, <2>6, <2>7 DEF TrackerTypeOK
<1>3. DOMAIN logged = {} /\ DOMAIN outbox = {} /\ DOMAIN received = {} /\ Len(outbox) = 0
      /\ Len(received) = 0
  BY <1>1
<1>4. \A t \in Logger : caller[t] = Done
  BY <1>1
<1>5. ~Sending /\ worker # Ended /\ Done.at = "idle"
  BY <1>1 DEF Sending, Waiting, Ended, Done
<1>6. TokenInv /\ FileInv /\ OrderInv
  BY <1>1, <1>3, <1>4, <1>5 DEF TokenInv, FileInv, OrderInv
<1>7. Loud = {} /\ HandedOver = {} /\ Queued = 0
  BY <1>1, <1>3, <1>4 DEF Loud, HandedOver, Queued, TokenQueued
<1>8. Cardinality({}) = 0
  BY FS_EmptySet
<1>9. Cardinality(Loud) = 0 /\ Cardinality(HandedOver) = 0
  BY <1>7, <1>8
<1>10. CountInv
  BY <1>1, <1>3, <1>4, <1>5, <1>7, <1>9 DEF CountInv
<1>11. FailureInv
  BY <1>1, <1>3 DEF FailureInv, Unfinished
<1> QED  BY <1>2, <1>6, <1>10, <1>11 DEF TrackerInv

\* TrackerInv is inductive: it holds at first and every step of the logging threads, the worker,
\* the remote and close keeps it (core/builtins.py, observability/trackers.py).
THEOREM TrackerInductive == TrackerSpec => []TrackerInv
<1>1. TrackerInv /\ [TrackerNext]_trackerVars => TrackerInv'
  <2> SUFFICES ASSUME TrackerInv, [TrackerNext]_trackerVars PROVE TrackerInv'
    OBVIOUS
  <2>1. CASE TrackerNext
    <3>1. TrackerTypeOK'
      BY <2>1, TypesStep DEF TrackerInv
    <3>2. TokenInv' /\ FileInv' /\ OrderInv'
      BY <2>1, TokenStep, FileStep, OrderStep DEF TrackerInv
    <3>3. CountInv' /\ FailureInv'
      BY <2>1, <3>1, CountStep, FailureStep DEF TrackerInv
    <3> QED  BY <3>1, <3>2, <3>3 DEF TrackerInv
  <2>2. CASE UNCHANGED trackerVars
    <3>1. TrackerTypeOK'
      BY <2>2 DEF TrackerInv, TrackerTypeOK, trackerVars
    <3>2. TokenInv' /\ FileInv'
      BY <2>2 DEF TrackerInv, TokenInv, FileInv, InFile, Logging, Sending, trackerVars
    <3>3. OrderInv'
      BY <2>2 DEF TrackerInv, OrderInv, AfterSent, AfterReceived, Sending, trackerVars
    <3>4. /\ Loud' = Loud /\ HandedOver' = HandedOver /\ (TokenQueued' <=> TokenQueued)
          /\ Queued' = Queued /\ (TokenDropped' <=> TokenDropped)
      BY <2>2 DEF Loud, HandedOver, TokenQueued, Queued, TokenDropped, trackerVars
    <3>5. CountInv'
      BY <2>2, <3>4 DEF TrackerInv, CountInv, Sending, trackerVars
    <3>6. FailureInv'
      BY <2>2 DEF TrackerInv, FailureInv, trackerVars
    <3> QED  BY <3>1, <3>2, <3>3, <3>5, <3>6 DEF TrackerInv
  <2> QED  BY <2>1, <2>2
<1> QED  BY <1>1, TrackerInit0, PTL DEF TrackerSpec

\* The file, the queue, the threads and the worker keep their types (observability/trackers.py).
THEOREM TrackerTypeCorrect == TrackerSpec => []TrackerTypeOK
<1>1. TrackerInv => TrackerTypeOK
  BY DEF TrackerInv
<1> QED  BY <1>1, TrackerInductive, PTL

\* What the inductive invariant says of the remote run.
LEMMA RemoteRun == TrackerInv => RemoteRunIsTrue
<1> SUFFICES ASSUME TrackerInv PROVE RemoteRunIsTrue
  OBVIOUS
<1> USE DEF TrackerInv
<1>1. ASSUME NEW k \in DOMAIN received
      PROVE  /\ \E i \in DOMAIN logged : logged[i] = received[k]
             /\ \A j \in 1 .. k - 1 : received[j].thread = received[k].thread
                                        => received[j].number < received[k].number
  BY DEF FileInv, OrderInv, InFile, Before
<1>2. ASSUME exitCode = 0
      PROVE  /\ worker = Ended
             /\ \A k \in Loud : logged[k].kind = "metric"
             /\ Cardinality(Loud) = Len(received) + droppedEvents
  <2>1. /\ closer = "closed" /\ ~failed /\ worker = Ended /\ enabled /\ outbox = <<>>
        /\ \A t \in Logger : caller[t] = Done
    BY <1>2 DEF FailureInv, TokenInv, TrackerTypeOK, Unfinished
  <2>2. ~Sending /\ ~TokenDropped /\ Queued = 0 /\ HandedOver = {}
    BY <2>1 DEF Sending, Ended, TokenDropped, Queued, TokenQueued, HandedOver
  <2>3. Cardinality(HandedOver) = 0
    BY <2>2, FS_EmptySet
  <2>4. Len(received) \in Nat /\ droppedEvents \in Nat
    BY DEF TrackerTypeOK
  <2>5. Cardinality(Loud) = Len(received) + droppedEvents
    BY <2>1, <2>2, <2>3, <2>4 DEF CountInv
  <2>6. \A t \in Logger : caller[t].at # "local"
    BY <2>1 DEF Done
  <2>7. \A k \in DOMAIN logged : logged[k].kind # "failure"
    BY <2>1, <2>6 DEF FailureInv
  <2>8. \A k \in DOMAIN logged : logged[k].kind \in Kind
    BY EventsAreNoTokens DEF TrackerTypeOK
  <2>9. \A k \in Loud : logged[k].kind = "metric"
    BY <2>7, <2>8 DEF Loud, Kind
  <2> QED  BY <2>1, <2>5, <2>9
<1> QED  BY <1>1, <1>2 DEF RemoteRunIsTrue, Loud

\* What the remote has is in the local file, in each thread's order, and a remote run that ends
\* with success misses only what was dropped and counted (trackers.py:1, :143-170).
THEOREM RemoteRunTrue == TrackerSpec => []RemoteRunIsTrue
<1> QED  BY RemoteRun, TrackerInductive, PTL

-----------------------------------------------------------------------------
(* The parts together.                                                      *)

\* Who is alive: the ages stay within what they are compared with.
LEMMA LivenessKept ==
    ASSUME LivenessTypeOK, HardExitFollowsStop, [LivenessNext]_livenessVars
    PROVE  (LivenessTypeOK /\ HardExitFollowsStop)'
<1> DEFINE Ages == (0 .. Timeout + 1) \cup {Unset}
           Idles == (0 .. StallLimit + 1) \cup {Unset}
           Graces == (0 .. Grace) \cup {Unset}
<1>1. /\ Timeout \in Nat \ {0} /\ StallLimit \in Nat \ {0} /\ Grace \in Nat /\ Unset \notin Int
      /\ silence \in [Actor -> Ages] /\ idle \in [Actor -> Idles] /\ grace \in [Actor -> Graces]
      /\ overdue \subseteq Actor /\ ending \in BOOLEAN
      /\ process \in [Actor -> {"registering", "up", "ended"}] /\ work \in [Actor -> Works]
      /\ stopped \in [Actor -> BOOLEAN] /\ beating \in [Actor -> BOOLEAN]
      /\ \A a \in Actor : grace[a] # Unset => stopped[a] /\ ~beating[a]
  BY LivenessAssumption DEF LivenessTypeOK, HardExitFollowsStop
<1> DEFINE Typed ==
             /\ silence' \in [Actor -> Ages] /\ idle' \in [Actor -> Idles]
             /\ grace' \in [Actor -> Graces] /\ overdue' \subseteq Actor /\ ending' \in BOOLEAN
             /\ process' \in [Actor -> {"registering", "up", "ended"}]
             /\ work' \in [Actor -> Works]
             /\ stopped' \in [Actor -> BOOLEAN] /\ beating' \in [Actor -> BOOLEAN]
             /\ \A a \in Actor : grace'[a] # Unset => stopped'[a] /\ ~beating'[a]
<1>2. Typed => (LivenessTypeOK /\ HardExitFollowsStop)'
  BY DEF LivenessTypeOK, HardExitFollowsStop
<1>3. CASE UNCHANGED livenessVars
  BY <1>1, <1>2, <1>3 DEF livenessVars
<1>4. CASE BeginTimeoutCheck \/ LearnerEnds
  BY <1>1, <1>2, <1>4 DEF BeginTimeoutCheck, LearnerEnds
<1>5. CASE Tick
  <2>1. \A a \in Actor : Older(silence[a], Timeout) \in Ages
    BY <1>1 DEF Older
  <2>2. \A a \in Actor : idle[a] \in Idles /\ Older(idle[a], StallLimit) \in Idles
    BY <1>1 DEF Older
  <2>3. \A a \in Actor : (IF grace[a] = Unset \/ grace[a] = 0 THEN grace[a] ELSE grace[a] - 1)
                           \in Graces
    BY <1>1
  <2> HIDE DEF Ages, Idles, Graces
  <2>4. silence' \in [Actor -> Ages] /\ idle' \in [Actor -> Idles] /\ grace' \in [Actor -> Graces]
    BY <1>5, <2>1, <2>2, <2>3 DEF Tick
  <2>5. \A a \in Actor : grace'[a] # Unset => grace[a] # Unset
    BY <1>5 DEF Tick
  <2> QED  BY <1>1, <1>2, <1>5, <2>4, <2>5 DEF Tick
<1>6. ASSUME NEW a \in Actor, RecordTimeout(a) \/ Register(a)
      PROVE  (LivenessTypeOK /\ HardExitFollowsStop)'
  <2>1. 0 \in Ages /\ Unset \in Ages
    BY <1>1
  <2> HIDE DEF Ages, Idles, Graces
  <2>2. CASE RecordTimeout(a)
    <3>1. silence' \in [Actor -> Ages] /\ overdue' \subseteq Actor
      BY <1>1, <2>1, <2>2 DEF RecordTimeout
    <3> QED  BY <1>1, <1>2, <2>2, <3>1 DEF RecordTimeout
  <2>3. CASE Register(a)
    <3>1. /\ silence' \in [Actor -> Ages] /\ beating' \in [Actor -> BOOLEAN]
          /\ process' \in [Actor -> {"registering", "up", "ended"}]
      BY <1>1, <2>1, <2>3 DEF Register, Heard
    <3>2. \A b \in Actor : grace[b] # Unset => stopped[b] /\ ~beating'[b]
      BY <1>1, <2>3 DEF Register
    <3> QED  BY <1>1, <1>2, <2>3, <3>1, <3>2 DEF Register
  <2> QED  BY <1>6, <2>2, <2>3
<1>7. ASSUME NEW a \in Actor, Heartbeat(a) \/ FailedHeartbeat(a)
      PROVE  (LivenessTypeOK /\ HardExitFollowsStop)'
  <2>1. 0 \in Ages /\ Grace \in Graces
    BY <1>1
  <2> HIDE DEF Ages, Idles, Graces
  <2>2. PICK told \in BOOLEAN : AfterBeat(a, told)
    BY <1>1, <1>7 DEF Heartbeat, FailedHeartbeat
  <2>3. /\ silence' = [silence EXCEPT ![a] = 0] \/ silence' = silence
        /\ UNCHANGED <<overdue, ending, process, work, idle>> /\ ~stopped[a]
    BY <1>7 DEF Heartbeat, FailedHeartbeat, Heard, CanBeat
  <2>4. silence' \in [Actor -> Ages]
    BY <1>1, <2>1, <2>3
  <2>5. Stalled(a) \in BOOLEAN
    BY DEF Stalled
  <2>6. /\ stopped' \in [Actor -> BOOLEAN] /\ beating' \in [Actor -> BOOLEAN]
        /\ grace' \in [Actor -> Graces]
    BY <1>1, <2>1, <2>2, <2>5 DEF AfterBeat
  <2>7. ASSUME NEW b \in Actor, grace'[b] # Unset PROVE stopped'[b] /\ ~beating'[b]
    <3>1. CASE b = a
      <4>1. grace[a] = Unset
        BY <1>1, <2>3
      <4>2. ~told /\ Stalled(a)
        BY <1>1, <2>2, <2>7, <3>1, <4>1 DEF AfterBeat
      <4> QED  BY <1>1, <2>2, <3>1, <4>2 DEF AfterBeat
    <3>2. CASE b # a
      BY <1>1, <2>2, <2>7, <3>2 DEF AfterBeat
    <3> QED  BY <3>1, <3>2
  <2>8. Typed
    BY <1>1, <2>3, <2>4, <2>6, <2>7
  <2> QED  BY <1>2, <2>8
<1>8. ASSUME NEW a \in Actor, StopActor(a) \/ CollectorStep(a) \/ Block(a) \/ LeaveLoop(a)
      PROVE  (LivenessTypeOK /\ HardExitFollowsStop)'
  <2>1. 0 \in Idles
    BY <1>1
  <2> HIDE DEF Ages, Idles, Graces
  <2>2. CASE StopActor(a)
    <3>1. stopped' \in [Actor -> BOOLEAN] /\ beating' \in [Actor -> BOOLEAN]
      BY <1>1, <2>2 DEF StopActor
    <3>2. \A b \in Actor : grace[b] # Unset => stopped'[b] /\ ~beating'[b]
      BY <1>1, <2>2 DEF StopActor
    <3> QED  BY <1>1, <1>2, <2>2, <3>1, <3>2 DEF StopActor
  <2>3. CASE CollectorStep(a) \/ Block(a) \/ LeaveLoop(a)
    <3>1. /\ UNCHANGED <<silence, overdue, ending, process, stopped, beating, grace>>
          /\ \E to \in Works : work' = [work EXCEPT ![a] = to]
          /\ UNCHANGED idle \/ idle' = [idle EXCEPT ![a] = 0]
      BY <2>3 DEF CollectorStep, BeginCollection, StepOrReset, WaitForWindow, WaitForSpool, Block,
                  LeaveLoop, CollectorMoves, Touch, Works
    <3>2. work' \in [Actor -> Works] /\ idle' \in [Actor -> Idles]
      BY <1>1, <2>1, <3>1
    <3> QED  BY <1>1, <1>2, <3>1, <3>2
  <2> QED  BY <1>8, <2>2, <2>3
<1>9. ASSUME NEW a \in Actor, ActorProcessEnds(a) \/ HardExit(a) \/ ActorCrash(a)
      PROVE  (LivenessTypeOK /\ HardExitFollowsStop)'
  <2> HIDE DEF Ages, Idles, Graces
  <2>1. Typed
    BY <1>1, <1>9 DEF ActorProcessEnds, HardExit, ActorCrash
  <2> QED  BY <1>2, <2>1
<1> QED
  BY <1>3, <1>4, <1>5, <1>6, <1>7, <1>8, <1>9 DEF LivenessNext, Beat

LEMMA LivenessStarts == LivenessInit => LivenessTypeOK /\ HardExitFollowsStop
  BY LivenessAssumption DEF LivenessInit, LivenessTypeOK, HardExitFollowsStop, Works

\* What a behavior of MCProcesses is to each of its parts.
LEMMA PartBehaviors ==
    MCFairSpec => /\ Spec /\ TrainerSpec /\ SupervisorSpec /\ TrackerSpec
                  /\ LivenessInit /\ [][LivenessNext]_livenessVars
<1>1. MCInit => Init /\ LivenessInit /\ TrainerInit /\ SupervisorInit /\ TrackerInit
  BY DEF MCInit, QuietTrainer, QuietSupervisor
<1>2. [MCNext]_processVars =>
        /\ [Next]_vars /\ [LivenessNext]_livenessVars /\ [TrainerNext]_trainerVars
        /\ [SupervisorNext]_supervisorVars /\ [TrackerNext]_trackerVars
  BY DEF MCNext, processVars
<1> QED
  BY <1>1, <1>2, PTL DEF MCFairSpec, Spec, TrainerSpec, SupervisorSpec, TrackerSpec

\* Every part of a run keeps its types, and the hard exit of a stalled actor its place, for any
\* actors, chunks, threads and limits (actor_watchdog.py, training_loop.py, trackers.py).
THEOREM PartsTypeCorrect == MCFairSpec => []PartsTypeOK
<1>1. LivenessInit /\ [][LivenessNext]_livenessVars => [](LivenessTypeOK /\ HardExitFollowsStop)
  BY LivenessStarts, LivenessKept, PTL
<1>2. TypeOK /\ LivenessTypeOK /\ HardExitFollowsStop /\ TrainerTypeOK /\ SupervisorTypeOK
        /\ TrackerTypeOK => PartsTypeOK
  BY DEF PartsTypeOK
<1> QED
  BY <1>1, <1>2, PartBehaviors, TypeCorrect, TrainerTypeCorrect, SupervisorTypeCorrect,
     TrackerTypeCorrect, PTL

\* What a run says of itself adds up, over any number of restarts and whatever the remote does:
\* the counters it saves (training_loop.py) and the log it leaves (trackers.py).
THEOREM RunsSum == MCFairSpec => []RunsAddUp
<1>1. TrainingAddsUp /\ RemoteRunIsTrue => RunsAddUp
  BY DEF RunsAddUp
<1> QED  BY <1>1, PartBehaviors, TrainingSums, RemoteRunTrue, PTL

=============================================================================
