------------------------- MODULE TrainingSupervisor --------------------------
(***************************************************************************)
(* `train` for an off-policy run: the launcher starts one learner and one  *)
(* actor process, watches them, and stops them through a shared byte that  *)
(* only it writes (commands/training.py, stop_signal.py).  Ctrl+C reaches  *)
(* every process of the terminal; the children ignore it once they have    *)
(* booted.  What the learner does between starting and exiting is reduced  *)
(* to the steps its exit code and its final checkpoint depend on.          *)
(***************************************************************************)
EXTENDS Integers

CONSTANTS
    Target,     \* total_transitions
    SavesFinal  \* save_final_checkpoint

ASSUME SupervisorAssumption == Target \in Nat \ {0} /\ SavesFinal \in BOOLEAN

VARIABLES
    launcher,       \* where the launcher is
    byUser,         \* stopped_by_user
    forced,         \* some process was alive when its join timed out
    verdict,        \* what the launcher reports at the end
    signal,         \* the byte of ProcessStopSignal
    stopFile,       \* the stop file exists
    learnerProcess, \* its state while it lives, then its exit code
    actorProcess,
    ingested,      \* transitions the learner has ingested
    credit,         \* updates they earned and the learner has not performed
    passed,         \* the evaluation stop condition is met
    finalSaved      \* the final checkpoint is on disk

supervisorVars == <<launcher, byUser, forced, verdict, signal, stopFile, learnerProcess,
                    actorProcess, ingested, credit, passed, finalSaved>>

childVars == <<learnerProcess, actorProcess, ingested, credit, passed, finalSaved>>
reportVars == <<byUser, forced, verdict>>

Clean == "exit 0"
Failed == "exit 1"
Killed == "terminated"
ExitCodes == {Clean, Failed, Killed}

Lives(child) == child \notin ExitCodes \cup {"new"}

TargetReached == ingested >= Target

SupervisorInit ==
    /\ launcher = "start" /\ byUser = FALSE /\ forced = FALSE /\ verdict = "none"
    /\ signal = FALSE /\ stopFile \in BOOLEAN
    /\ learnerProcess = "new" /\ actorProcess = "new"
    /\ ingested = 0 /\ credit = 0 /\ passed = FALSE /\ finalSaved = FALSE

-----------------------------------------------------------------------------
(* The learner and the actor.                                               *)

\* A child imports its modules before it ignores SIGINT.
BootLearner ==
    /\ learnerProcess = "booting"
    /\ learnerProcess' = "working"
    /\ UNCHANGED <<launcher, reportVars, signal, stopFile, actorProcess, ingested, credit,
                   passed, finalSaved>>

BootActor ==
    /\ actorProcess = "booting"
    /\ actorProcess' = "working"
    /\ UNCHANGED <<launcher, reportVars, signal, stopFile, learnerProcess, ingested, credit,
                   passed, finalSaved>>

\* The learner asks for rollouts until the target is reached.
WantedAlways == TRUE                \* faulty: rollouts are accepted after the target
Wanted == ~TargetReached

\* A rollout is ingested and earns one update.
Deliver ==
    /\ learnerProcess = "working" /\ actorProcess = "working"
    /\ Wanted
    /\ ingested' = ingested + 1
    /\ credit' = credit + 1
    /\ UNCHANGED <<launcher, reportVars, signal, stopFile, learnerProcess, actorProcess,
                   passed, finalSaved>>

\* Updates need an actor that was heard from lately, or the target.
UpdateOnce ==
    /\ learnerProcess = "working" /\ ~signal
    /\ credit > 0
    /\ credit' = credit - 1
    /\ UNCHANGED <<launcher, reportVars, signal, stopFile, learnerProcess, actorProcess,
                   ingested, passed, finalSaved>>

EvaluationPasses ==
    /\ learnerProcess = "working" /\ actorProcess = "working" /\ ~passed
    /\ passed' = TRUE
    /\ UNCHANGED <<launcher, reportVars, signal, stopFile, learnerProcess, actorProcess,
                   ingested, credit, finalSaved>>

\* The learner leaves its loop at once on the signal or when evaluations passed, and otherwise
\* only when the credit is spent.
LearningEnds ==
    /\ learnerProcess = "working"
    /\ signal \/ passed \/ (TargetReached /\ credit = 0)
    /\ learnerProcess' = IF SavesFinal THEN "saving" ELSE "closing"
    /\ UNCHANGED <<launcher, reportVars, signal, stopFile, actorProcess, ingested, credit,
                   passed, finalSaved>>

FinalCheckpointSaved ==
    /\ learnerProcess = "saving"
    /\ learnerProcess' = "closing"
    /\ finalSaved' = TRUE
    /\ UNCHANGED <<launcher, reportVars, signal, stopFile, actorProcess, ingested, credit, passed>>

LearnerExits ==
    /\ learnerProcess = "closing"
    /\ learnerProcess' = Clean
    /\ UNCHANGED <<launcher, reportVars, signal, stopFile, actorProcess, ingested, credit,
                   passed, finalSaved>>

\* The actor is told to stop by the learner's answers or by the signal.
ActorStops ==
    /\ actorProcess = "working"
    /\ signal \/ (learnerProcess = "working" /\ (TargetReached \/ passed))
    /\ actorProcess' = "closing"
    /\ UNCHANGED <<launcher, reportVars, signal, stopFile, learnerProcess, ingested, credit,
                   passed, finalSaved>>

ActorExits ==
    /\ actorProcess = "closing"
    /\ actorProcess' = Clean
    /\ UNCHANGED <<launcher, reportVars, signal, stopFile, learnerProcess, ingested, credit,
                   passed, finalSaved>>

\* A child fails, or blocks in a call that does not return.
ChildBreaks ==
    /\ \/ /\ Lives(learnerProcess) /\ learnerProcess' \in {Failed, "stuck"}
          /\ UNCHANGED actorProcess
       \/ /\ Lives(actorProcess) /\ actorProcess' \in {Failed, "stuck"}
          /\ UNCHANGED learnerProcess
    /\ UNCHANGED <<launcher, reportVars, signal, stopFile, ingested, credit, passed, finalSaved>>

-----------------------------------------------------------------------------
(* The launcher.                                                            *)

Goes(from, to) == launcher = from /\ launcher' = to

\* A stop file that is there already is refused before anything starts.
StartLearner ==
    /\ Goes("start", "startActor") /\ ~stopFile
    /\ learnerProcess' = "booting"
    /\ UNCHANGED <<reportVars, signal, stopFile, actorProcess, ingested, credit, passed, finalSaved>>

RefuseStopFile ==
    /\ Goes("start", "done") /\ stopFile
    /\ verdict' = "refused"
    /\ UNCHANGED <<byUser, forced, signal, stopFile, childVars>>

StartActor ==
    /\ Goes("startActor", "watch")
    /\ actorProcess' = "booting"
    /\ UNCHANGED <<reportVars, signal, stopFile, learnerProcess, ingested, credit, passed, finalSaved>>

WriteStopFile ==
    /\ ~stopFile /\ launcher # "start"
    /\ stopFile' = TRUE
    /\ UNCHANGED <<launcher, reportVars, signal, childVars>>

\* Where the launcher goes when one of its children has ended: a learner whose actor completed
\* goes on until it has drained its credit.
AfterWatchStopping == "signal"      \* faulty: any exit stops the rest
AfterWatch ==
    IF ~Lives(actorProcess) /\ Lives(learnerProcess) /\ actorProcess = Clean
    THEN "drain" ELSE "signal"

WatchEnds ==
    /\ ~(Lives(learnerProcess) /\ Lives(actorProcess))
    /\ Goes("watch", AfterWatch)
    /\ UNCHANGED <<reportVars, signal, stopFile, childVars>>

DrainEnds ==
    /\ ~Lives(learnerProcess)
    /\ Goes("drain", "signal")
    /\ UNCHANGED <<reportVars, signal, stopFile, childVars>>

StopFileSeen ==
    /\ stopFile
    /\ \/ Goes("watch", "signal") /\ Lives(actorProcess)
       \/ Goes("drain", "signal")
    /\ Lives(learnerProcess)
    /\ signal' = TRUE
    /\ UNCHANGED <<reportVars, stopFile, childVars>>

SignalShutdown ==
    /\ Goes("signal", "joinActor")
    /\ signal' = (signal \/ Lives(actorProcess) \/ Lives(learnerProcess))
    /\ UNCHANGED <<reportVars, stopFile, childVars>>

\* The joins last 10 s for the actor and 120 s for the learner; either child may take longer.
JoinTimesOutNever(child) == ~Lives(child)    \* faulty: a join without a limit
JoinTimesOut(child) == TRUE

JoinActor ==
    /\ JoinTimesOut(actorProcess)
    /\ Goes("joinActor", "joinLearner")
    /\ UNCHANGED <<reportVars, signal, stopFile, childVars>>

JoinLearner ==
    /\ JoinTimesOut(learnerProcess)
    /\ Goes("joinLearner", "terminateActor")
    /\ forced' = (Lives(actorProcess) \/ Lives(learnerProcess))
    /\ UNCHANGED <<byUser, verdict, signal, stopFile, childVars>>

Terminated(child) == IF Lives(child) THEN Killed ELSE child

TerminateActor ==
    /\ Goes("terminateActor", "terminateLearner")
    /\ actorProcess' = Terminated(actorProcess)
    /\ UNCHANGED <<reportVars, signal, stopFile, learnerProcess, ingested, credit, passed, finalSaved>>

TerminateLearner ==
    /\ Goes("terminateLearner", "report")
    /\ learnerProcess' = Terminated(learnerProcess)
    /\ UNCHANGED <<reportVars, signal, stopFile, actorProcess, ingested, credit, passed, finalSaved>>

UserVerdictOfActor ==               \* faulty: reads the exit code of the actor
    IF forced \/ actorProcess # Clean THEN "unconfirmed" ELSE "safe"
UserVerdict == IF forced \/ learnerProcess # Clean THEN "unconfirmed" ELSE "safe"

Report ==
    /\ Goes("report", "done")
    /\ verdict' = IF verdict = "interrupted" THEN verdict
                  ELSE IF byUser THEN UserVerdict
                  ELSE IF learnerProcess = Clean /\ actorProcess = Clean THEN "finished"
                  ELSE "failed"
    /\ UNCHANGED <<byUser, forced, signal, stopFile, childVars>>

-----------------------------------------------------------------------------
(* Ctrl+C.                                                                  *)

AfterSigint(child) == IF child = "booting" THEN Failed ELSE child

SigintReachesTheChildren ==
    /\ learnerProcess' = AfterSigint(learnerProcess)
    /\ actorProcess' = AfterSigint(actorProcess)
    /\ UNCHANGED <<ingested, credit, passed, finalSaved, signal, stopFile, forced>>

\* While the launcher watches: a shutdown by the user.
InterruptWatching ==
    /\ launcher \in {"watch", "drain"}
    /\ launcher' = "signal" /\ byUser' = TRUE
    /\ UNCHANGED verdict
    /\ SigintReachesTheChildren

\* Between the two starts: the shutdown runs, then the exception goes on.
InterruptStarting ==
    /\ Goes("startActor", "signal") /\ verdict' = "interrupted"
    /\ UNCHANGED byUser
    /\ SigintReachesTheChildren

\* During a join: ignored.
InterruptJoining ==
    /\ launcher \in {"joinActor", "joinLearner"}
    /\ UNCHANGED <<launcher, byUser, verdict>>
    /\ SigintReachesTheChildren

\* Anywhere else in the shutdown: the launcher is left waiting for children it no longer stops.
InterruptShutdown ==
    /\ launcher \in {"signal", "terminateActor", "terminateLearner"}
    /\ launcher' = "aborted"
    /\ UNCHANGED <<byUser, verdict>>
    /\ SigintReachesTheChildren

-----------------------------------------------------------------------------
LauncherStep ==
    \/ StartLearner \/ RefuseStopFile \/ StartActor
    \/ WatchEnds \/ DrainEnds \/ StopFileSeen
    \/ SignalShutdown \/ JoinActor \/ JoinLearner
    \/ TerminateActor \/ TerminateLearner \/ Report

LearnerStep ==
    BootLearner \/ UpdateOnce \/ LearningEnds \/ FinalCheckpointSaved \/ LearnerExits

ActorStep == BootActor \/ ActorStops \/ ActorExits

SupervisorNext ==
    \/ LauncherStep \/ LearnerStep \/ ActorStep
    \/ Deliver \/ EvaluationPasses \/ ChildBreaks \/ WriteStopFile
    \/ InterruptWatching \/ InterruptStarting \/ InterruptJoining \/ InterruptShutdown

SupervisorSpec == SupervisorInit /\ [][SupervisorNext]_supervisorVars

\* Each process runs; one that is stuck takes no step.
SupervisorFairness ==
    /\ WF_supervisorVars(LauncherStep)
    /\ WF_supervisorVars(LearnerStep)
    /\ WF_supervisorVars(ActorStep)

SupervisorFairSpec == SupervisorSpec /\ SupervisorFairness

-----------------------------------------------------------------------------
\* Types.
SupervisorTypeOK ==
    /\ launcher \in {"start", "startActor", "watch", "drain", "signal", "joinActor", "joinLearner",
                     "terminateActor", "terminateLearner", "report", "done", "aborted"}
    /\ {byUser, forced, signal, stopFile, passed, finalSaved} \subseteq BOOLEAN
    /\ verdict \in {"none", "refused", "interrupted", "safe", "unconfirmed", "finished", "failed"}
    /\ learnerProcess \in ExitCodes \cup {"new", "booting", "working", "saving", "closing", "stuck"}
    /\ actorProcess \in ExitCodes \cup {"new", "booting", "working", "closing", "stuck"}
    /\ ingested \in 0 .. Target /\ credit \in 0 .. Target

\* "Safe shutdown complete" is printed only when both processes have ended and the learner's
\* final checkpoint is on disk, however the joins, the failures of the children and further
\* Ctrl+C fall.
SafeMeansSaved ==
    verdict = "safe" =>
        /\ ~Lives(learnerProcess) /\ ~Lives(actorProcess)
        /\ SavesFinal => finalSaved

\* A run that is reported as finished has reached its target and spent its update credit,
\* unless evaluations or the stop file ended it: an actor that completes first does not make
\* the launcher stop a learner that still trains.
FinishedMeansDrained ==
    verdict = "finished" => passed \/ stopFile \/ (TargetReached /\ credit = 0)

\* What the launcher reports is what happened.
VerdictsAreTrue == SafeMeansSaved /\ FinishedMeansDrained

\* Once a child has ended or a stop is asked for, the launcher comes to its end.  It waits
\* without limit only for a learner that got stuck draining, or when a second Ctrl+C hit the
\* shutdown outside its joins.
LaunchEnds ==
    (byUser \/ launcher = "signal" \/ (launcher = "watch" /\ ~Lives(actorProcess)))
        ~> (launcher \in {"done", "aborted"} \/ (launcher = "drain" /\ learnerProcess = "stuck"))

=============================================================================
