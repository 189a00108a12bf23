----------------------------- MODULE MCProcesses -----------------------------
(***************************************************************************)
(* The parts of a run that each live on their own: the spool of an actor,  *)
(* who is alive, the local trainer, the launcher and the log with its     *)
(* remote tracker.  Each of them owes some progress.  They share no state, *)
(* so a behavior is one of any of them, chosen at the start; the others    *)
(* stay where they began.                                                  *)
(***************************************************************************)
EXTENDS ActorSpool, ActorLiveness, LocalTrainer, TrainingSupervisor, RemoteTracker

CONSTANTS Small, Large        \* chunks of size 1 and 2

MCChunk == Small \cup Large
MCSizeOf == [c \in MCChunk |-> IF c \in Small THEN 1 ELSE 2]

VARIABLE part                 \* the part whose behavior this is

processVars == <<vars, livenessVars, trainerVars, supervisorVars, trackerVars, part>>

\* Initial states of the parts that do not run: one of each.
QuietTrainer == TrainerInit /\ ~onPolicy
QuietSupervisor == SupervisorInit /\ ~stopFile

MCInit ==
    /\ part \in {"spool", "liveness", "trainer", "supervisor", "tracker"}
    /\ Init
    /\ LivenessInit
    /\ IF part = "trainer" THEN TrainerInit ELSE QuietTrainer
    /\ IF part = "supervisor" THEN SupervisorInit ELSE QuietSupervisor
    /\ TrackerInit

MCNext ==
    \/ /\ part = "spool" /\ Next
       /\ UNCHANGED <<livenessVars, trainerVars, supervisorVars, trackerVars, part>>
    \/ /\ part = "liveness" /\ LivenessNext
       /\ UNCHANGED <<vars, trainerVars, supervisorVars, trackerVars, part>>
    \/ /\ part = "trainer" /\ TrainerNext
       /\ UNCHANGED <<vars, livenessVars, supervisorVars, trackerVars, part>>
    \/ /\ part = "supervisor" /\ SupervisorNext
       /\ UNCHANGED <<vars, livenessVars, trainerVars, trackerVars, part>>
    \/ /\ part = "tracker" /\ TrackerNext
       /\ UNCHANGED <<vars, livenessVars, trainerVars, supervisorVars, part>>

\* The fairness of the parts.  A spool without a process, a trainer that has not started
\* and a log nobody writes ask for nothing; the other two would, so theirs is restated for the
\* part that runs.
MCFairSpec ==
    /\ MCInit /\ [][MCNext]_processVars
    /\ CollectorFairness /\ SenderFairness /\ TrainerFairness /\ TrackerFairness
    /\ WF_livenessVars(part = "liveness" /\ BeginTimeoutCheck)
    /\ WF_livenessVars(part = "liveness" /\ Tick)
    /\ \A a \in Actor :
        /\ WF_livenessVars(part = "liveness" /\ RecordTimeout(a))
        /\ WF_livenessVars(part = "liveness" /\ Beat(a))
        /\ WF_livenessVars(part = "liveness" /\ LeaveLoop(a))
        /\ WF_livenessVars(part = "liveness" /\ ActorProcessEnds(a))
        /\ WF_livenessVars(part = "liveness" /\ HardExit(a))
    /\ WF_supervisorVars(part = "supervisor" /\ LauncherStep)
    /\ WF_supervisorVars(part = "supervisor" /\ LearnerStep)
    /\ WF_supervisorVars(part = "supervisor" /\ ActorStep)

\* Every part keeps its types, and the hard exit of a stalled actor its place.
PartsTypeOK ==
    TypeOK /\ LivenessTypeOK /\ HardExitFollowsStop /\ TrainerTypeOK /\ SupervisorTypeOK
    /\ TrackerTypeOK

\* What was started ends: the local trainer's run (training_loop.py), a launch with its two
\* children (commands/training.py), and the calls of the log (trackers.py), whatever fails in
\* between.
RunsAndLaunchesEnd == RunsFinish /\ LaunchEnds /\ LoggingNeverBlocks

\* What a run says of itself adds up: the counters it saves and the log it leaves.
RunsAddUp == TrainingAddsUp /\ RemoteRunIsTrue

=============================================================================
